---------------------------- MODULE ScheduleProofs ----------------------------
(***************************************************************************)
(* The safety of ScheduledReviews, for every number of schedules, polls    *)
(* and processes, every page, and any number of mishaps.                   *)
(***************************************************************************)
EXTENDS ScheduleSafety, FiniteSetTheorems, TLAPS

InHand == {"enqueue", "fail", "release", "restore"}

(* What a poll has read was due when it started. *)
ReadInTime ==
    \A p \in Poll :
        /\ poll[p].start <= now
        /\ \A copy \in poll[p].rows : copy.next <= poll[p].start
        /\ poll[p].pc \in {"block", "claim"} \cup InHand => Mine(p).next <= poll[p].start

(* A poll publishes, or fails, the scan of the occurrence that it has taken. *)
HoldsItsScan ==
    \A p \in Poll : poll[p].pc \in InHand =>
        LET n == poll[p].scan IN
        n \in DOMAIN scans /\ scans[n].sched = Mine(p).id /\ scans[n].due = Mine(p).next

(* A row names its newest scan, and its occurrence lies behind every scan that *)
(* has not failed: of two scans of a schedule, too, the older one has failed,  *)
(* or it is of an earlier occurrence.                                          *)
RowIsAhead ==
    \A i \in DOMAIN scans :
        /\ i <= row[scans[i].sched].scan
        /\ scans[i].due <= now
        /\ scans[i].status # "FAILED" => scans[i].due < row[scans[i].sched].next

InOrder ==
    \A i, j \in DOMAIN scans :
        i < j /\ scans[i].sched = scans[j].sched /\ scans[i].status # "FAILED" =>
            scans[i].due < scans[j].due

ScheduleInv == ReadInTime /\ HoldsItsScan /\ RowIsAhead /\ InOrder

-----------------------------------------------------------------------------
(* What a step does to the polls: p goes on, and of the others only the        *)
(* staleness may change.                                                       *)
Alike(r, q) ==
    r.pc = q.pc /\ r.start = q.start /\ r.rows = q.rows /\ r.mine = q.mine /\ r.scan = q.scan
Others(p) == \A q \in Poll : q # p => Alike(poll'[q], poll[q])

LEMMA RestType ==
    /\ NoRow \in Copies /\ Resting \in Procs
    /\ Resting.pc = "idle" /\ Resting.rows = {} /\ Resting.scan = 0 /\ Resting.start = 0
<1>1. NoRow \in Copies
  BY CadenceAssumption DEF NoRow, Copies, Modes
<1> QED BY <1>1 DEF Resting, Procs, Places

LEMMA SetFacts ==
    ASSUME TypeOK, NEW p \in Poll, NEW r \in Procs, poll' = [poll EXCEPT ![p] = r]
    PROVE  poll' \in [Poll -> Procs] /\ poll'[p] = r /\ Others(p)
BY DEF TypeOK, Others, Alike

LEMMA GoesFacts ==
    ASSUME TypeOK, NEW p \in Poll, NEW to \in Places, Goes(p, to)
    PROVE  /\ poll' \in [Poll -> Procs] /\ Others(p)
           /\ poll'[p].pc = to
           /\ poll'[p].start = poll[p].start /\ poll'[p].rows = poll[p].rows
           /\ poll'[p].mine = poll[p].mine /\ poll'[p].scan = poll[p].scan
BY DEF Goes, TypeOK, Procs, Others, Alike

LEMMA TakesFacts ==
    ASSUME TypeOK, NEW p \in Poll, NEW to \in Places, NEW copy, Takes(p, copy, to)
    PROVE  /\ poll' \in [Poll -> Procs] /\ Others(p)
           /\ copy \in poll[p].rows /\ copy \in Copies
           /\ poll'[p].pc = to /\ poll'[p].mine = copy
           /\ poll'[p].start = poll[p].start /\ poll'[p].rows = poll[p].rows \ {copy}
<1> DEFINE r == [poll[p] EXCEPT !.pc = to, !.mine = copy, !.rows = poll[p].rows \ {copy}]
<1>1. poll[p] \in Procs /\ copy \in poll[p].rows /\ copy \in Copies
  BY DEF Takes, TypeOK, Procs
<1>2. /\ r \in Procs /\ r.pc = to /\ r.mine = copy
      /\ r.start = poll[p].start /\ r.rows = poll[p].rows \ {copy}
  BY <1>1 DEF Procs
<1>3. poll' = [poll EXCEPT ![p] = r]
  BY DEF Takes
<1> HIDE DEF r
<1> QED BY <1>1, <1>2, <1>3, SetFacts

LEMMA MovesFacts ==
    ASSUME TypeOK, NEW p \in Poll, NEW after \in 0..Last, NEW to \in Procs, Moves(p, after, to)
    PROVE  /\ poll' \in [Poll -> Procs] /\ Others(p) /\ poll'[p] = to
           /\ cursor' \in [Host -> 0..Last]
<1>1. poll \in [Poll -> Procs] /\ \A q \in Poll : poll[q] \in Procs
  BY DEF TypeOK
<1>2. \A r \in Procs : /\ [r EXCEPT !.stale = TRUE] \in Procs
                       /\ Alike([r EXCEPT !.stale = TRUE], r) /\ Alike(r, r)
  BY DEF Procs, Alike
<1>3. \A q \in Poll : q # p => poll'[q] \in Procs /\ Alike(poll'[q], poll[q])
  BY <1>1, <1>2 DEF Moves
<1>4. poll'[p] = to /\ cursor' \in [Host -> 0..Last] /\ DOMAIN poll' = Poll
  BY DEF Moves, TypeOK
<1>5. poll' \in [Poll -> Procs]
  BY <1>3, <1>4 DEF Moves
<1> QED BY <1>3, <1>4, <1>5 DEF Others

(* What a poll reads: typed copies of rows that were due when it started. *)
LEMMA ReadFacts ==
    ASSUME TypeOK, NEW after \in 0..Last, NEW t \in Nat
    PROVE  LET ids == DueAfter(after, t)
               rows == {Copy(s) : s \in ids}
           IN  /\ Cardinality(ids) \in Nat /\ rows \subseteq Copies
               /\ \A copy \in rows : copy.id \in Schedule /\ copy.next <= t
<1> DEFINE ids == DueAfter(after, t)
<1>1. ids \subseteq Schedule /\ \A s \in ids : row[s].next <= t
  BY DEF DueAfter, Due
<1>2. Cardinality(ids) \in Nat
  <2>1. IsFiniteSet(Schedule)
    BY FS_Interval, CadenceAssumption DEF Schedule
  <2> HIDE DEF ids
  <2> QED BY <1>1, <2>1, FS_Subset, FS_CardinalityType
<1>3. \A s \in Schedule : Copy(s) \in Copies /\ Copy(s).id = s /\ Copy(s).next = row[s].next
  BY CadenceAssumption DEF Copy, Copies, TypeOK, Rows, Schedule
<1> HIDE DEF ids
<1> QED BY <1>1, <1>2, <1>3 DEF ids

-----------------------------------------------------------------------------
(* The parts of the type invariant *)

RowsFit == row \in [Schedule -> Rows]
ScansFit == scans \in Seq(Scans) /\ slot \in [User -> 0..Len(scans)]
Fits(p) ==
    /\ \A copy \in poll[p].rows : copy.id \in Schedule
    /\ poll[p].pc \in {"block", "claim", "enqueue", "fail", "release", "restore", "next",
                       "leave"} => Mine(p).id \in Schedule
    /\ poll[p].pc \in InHand => poll[p].scan \in DOMAIN scans
PollsFit == poll \in [Poll -> Procs] /\ \A p \in Poll : Fits(p)
ClockFits == now \in 0..MaxTime /\ mishaps \in 0..MaxMishaps
CursorFits == cursor \in [Host -> 0..Last]

LEMMA TypeParts ==
    TypeOK <=> ClockFits /\ RowsFit /\ ScansFit /\ CursorFits /\ PollsFit
BY DEF TypeOK, ClockFits, RowsFit, ScansFit, CursorFits, PollsFit, Fits, InHand

LEMMA TypePartsNext ==
    ASSUME ClockFits', RowsFit', ScansFit', CursorFits', PollsFit'
    PROVE  TypeOK'
BY DEF TypeOK, ClockFits, RowsFit, ScansFit, CursorFits, PollsFit, Fits, InHand

(* One poll goes on, and no scan is forgotten. *)
LEMMA PollsStep ==
    ASSUME TypeOK, NEW p \in Poll, Others(p), poll' \in [Poll -> Procs], Fits(p)',
           DOMAIN scans \subseteq DOMAIN scans'
    PROVE  PollsFit'
<1> SUFFICES ASSUME NEW q \in Poll, q # p PROVE Fits(q)'
  BY DEF PollsFit
<1>1. Fits(q)
  BY TypeParts DEF PollsFit
<1>2. Alike(poll'[q], poll[q])
  BY DEF Others
<1> QED BY <1>1, <1>2 DEF Fits, Alike, Mine

LEMMA MishapFits ==
    ASSUME TypeOK, NEW kind, Mishap(kind), UNCHANGED now
    PROVE  ClockFits'
BY CadenceAssumption DEF TypeOK, ClockFits, Mishap

(* One field of a scan changes; a slot is freed. *)
LEMMA ScanSet ==
    ASSUME TypeOK, NEW n \in DOMAIN scans, NEW st \in {"QUEUED", "PUBLISHED", "ENDED", "FAILED"},
           scans' = [scans EXCEPT ![n].status = st]
    PROVE  /\ scans' \in Seq(Scans) /\ Len(scans') = Len(scans) /\ DOMAIN scans' = DOMAIN scans
           /\ \A i \in DOMAIN scans : /\ scans'[i].sched = scans[i].sched
                                      /\ scans'[i].due = scans[i].due
                                      /\ i # n => scans'[i].status = scans[i].status
           /\ scans'[n].status = st
<1>1. scans \in Seq(Scans) /\ scans[n] \in Scans
  BY DEF TypeOK
<1> DEFINE r == [scans[n] EXCEPT !.status = st]
<1>2. r \in Scans /\ r.sched = scans[n].sched /\ r.due = scans[n].due /\ r.status = st
  BY <1>1 DEF Scans
<1>3. scans' = [scans EXCEPT ![n] = r]
  OBVIOUS
<1> HIDE DEF r
<1>4. scans' \in Seq(Scans) /\ Len(scans') = Len(scans) /\ DOMAIN scans' = DOMAIN scans
  BY <1>1, <1>2, <1>3
<1> QED BY <1>1, <1>2, <1>3, <1>4

LEMMA FreedFits ==
    ASSUME TypeOK, NEW n \in DOMAIN scans
    PROVE  Freed(n) \in [User -> 0..Len(scans)]
<1>a. scans \in Seq(Scans)
  BY DEF TypeOK
<1>b. scans[n] \in Scans /\ Len(scans) \in Nat
  BY <1>a
<1>c. scans[n].sched \in Schedule
  BY <1>b DEF Scans
<1>1. Owner[scans[n].sched] \in User /\ Len(scans) \in Nat
  BY <1>b, <1>c, OwnersAssumption
<1>2. slot \in [User -> 0..Len(scans)]
  BY DEF TypeOK
<1> QED BY <1>1, <1>2 DEF Freed

-----------------------------------------------------------------------------
(* Type correctness *)

LEMMA InitType == Init => TypeOK
<1> SUFFICES ASSUME Init PROVE TypeOK
  OBVIOUS
<1>1. ClockFits /\ CursorFits
  BY CadenceAssumption DEF Init, ClockFits, CursorFits
<1>2. RowsFit
  BY DEF Init, RowsFit, Rows, Modes
<1>3. ScansFit
  BY DEF Init, ScansFit
<1>4. PollsFit
  BY RestType DEF Init, PollsFit, Fits, InHand
<1> QED BY <1>1, <1>2, <1>3, <1>4, TypeParts

(* The steps that leave the scans, their slots and the time alone. *)
Quiet == UNCHANGED <<now, scans, slot>>

LEMMA QuietType ==
    ASSUME TypeOK, NEW p \in Poll, Quiet, ClockFits', RowsFit', CursorFits',
           poll' \in [Poll -> Procs], Others(p), Fits(p)'
    PROVE  TypeOK'
<1>1. ScansFit'
  BY TypeParts DEF ScansFit, Quiet
<1>2. PollsFit'
  BY PollsStep DEF Quiet
<1> QED BY <1>1, <1>2, TypePartsNext

LEMMA StartType == ASSUME TypeOK, NEW p \in Poll, Start(p) PROVE TypeOK'
<1> DEFINE r == [Resting EXCEPT !.pc = "read", !.start = now]
<1>1. now \in Nat
  BY CadenceAssumption DEF TypeOK
<1>2. r \in Procs /\ r.pc = "read" /\ r.rows = {}
  BY <1>1, RestType DEF Procs, Places
<1>3. poll' = [poll EXCEPT ![p] = r] /\ Quiet /\ UNCHANGED <<row, cursor, mishaps>>
  BY DEF Start, Quiet
<1> HIDE DEF r
<1>4. poll' \in [Poll -> Procs] /\ poll'[p] = r /\ Others(p)
  BY <1>2, <1>3, SetFacts
<1>5. Fits(p)'
  BY <1>2, <1>4 DEF Fits, InHand
<1>6. ClockFits' /\ RowsFit' /\ CursorFits'
  BY <1>3, TypeParts DEF ClockFits, RowsFit, CursorFits, Quiet
<1> QED BY <1>3, <1>4, <1>5, <1>6, QuietType

(* A poll goes to rest. *)
LEMMA RestsType ==
    ASSUME TypeOK, NEW p \in Poll, poll' = [poll EXCEPT ![p] = Resting],
           UNCHANGED <<now, row, scans, slot, cursor, mishaps>>
    PROVE  TypeOK'
<1>1. poll' \in [Poll -> Procs] /\ poll'[p] = Resting /\ Others(p)
  BY RestType, SetFacts
<1>2. Fits(p)'
  BY <1>1, RestType DEF Fits, InHand
<1>3. ClockFits' /\ RowsFit' /\ CursorFits' /\ Quiet
  BY TypeParts DEF ClockFits, RowsFit, CursorFits, Quiet
<1> QED BY <1>1, <1>2, <1>3, QuietType

(* A poll moves the cursor. *)
LEMMA MovesType ==
    ASSUME TypeOK, NEW p \in Poll, NEW after \in 0..Last, NEW to \in Procs, Moves(p, after, to),
           \A copy \in to.rows : copy.id \in Schedule, to.pc \in {"idle", "read", "row", "end"},
           UNCHANGED <<now, row, scans, slot, mishaps>>
    PROVE  TypeOK'
<1>1. poll' \in [Poll -> Procs] /\ Others(p) /\ poll'[p] = to /\ cursor' \in [Host -> 0..Last]
  BY MovesFacts
<1>2. Fits(p)'
  BY <1>1 DEF Fits, InHand
<1>3. ClockFits' /\ RowsFit' /\ CursorFits' /\ Quiet
  BY <1>1, TypeParts DEF ClockFits, RowsFit, CursorFits, Quiet
<1> QED BY <1>1, <1>2, <1>3, QuietType

LEMMA PollFacts ==
    ASSUME TypeOK, NEW p \in Poll
    PROVE  /\ poll[p] \in Procs /\ poll[p].start \in Nat /\ HostOf[p] \in Host
           /\ cursor[HostOf[p]] \in 0..Last /\ 0 \in 0..Last
           /\ \A copy \in poll[p].rows : copy \in Copies /\ copy.id \in Schedule
BY CadenceAssumption, OwnersAssumption DEF TypeOK, Procs

LEMMA ReadType == ASSUME TypeOK, NEW p \in Poll, Read(p) PROVE TypeOK'
<1> DEFINE after == cursor[HostOf[p]]
           ids   == DueAfter(after, poll[p].start)
           rows  == {Copy(s) : s \in ids}
           r     == [poll[p] EXCEPT !.pc = "row", !.read = Cardinality(ids), !.rows = rows]
<1>1. CASE ids = {} /\ after # 0
  <2>1. Moves(p, 0, poll[p]) /\ UNCHANGED <<now, row, scans, slot, mishaps>> /\ poll[p].pc = "read"
    BY <1>1 DEF Read, At
  <2> QED BY <2>1, PollFacts, MovesType
<1>2. CASE ~ (ids = {} /\ after # 0)
  <2>1. poll' = [poll EXCEPT ![p] = r] /\ Quiet /\ UNCHANGED <<row, cursor, mishaps>>
    BY <1>2 DEF Read, Quiet
  <2>2. /\ Cardinality(ids) \in Nat /\ rows \subseteq Copies
        /\ \A copy \in rows : copy.id \in Schedule
    BY PollFacts, ReadFacts
  <2>3. r \in Procs /\ r.pc = "row" /\ r.rows = rows
    <3> HIDE DEF ids, rows
    <3> QED BY <2>2, PollFacts DEF Procs, Places
  <2> HIDE DEF r, ids, rows
  <2>4. poll' \in [Poll -> Procs] /\ poll'[p] = r /\ Others(p)
    BY <2>1, <2>3, SetFacts
  <2>5. Fits(p)'
    BY <2>2, <2>3, <2>4 DEF Fits, InHand
  <2>6. ClockFits' /\ RowsFit' /\ CursorFits'
    BY <2>1, TypeParts DEF ClockFits, RowsFit, CursorFits, Quiet
  <2> QED BY <2>1, <2>4, <2>5, <2>6, QuietType
<1> QED BY <1>1, <1>2

LEMMA FinishType == ASSUME TypeOK, NEW p \in Poll, Finish(p) PROVE TypeOK'
<1>1. CASE poll[p].rows = {} /\ poll[p].read < Page /\ ~ poll[p].stale
  <2>1. Moves(p, 0, Resting) /\ UNCHANGED <<now, row, scans, slot, mishaps>>
    BY <1>1 DEF Finish
  <2> QED BY <2>1, PollFacts, RestType, MovesType
<1>2. CASE ~ (poll[p].rows = {} /\ poll[p].read < Page /\ ~ poll[p].stale)
  BY <1>2, RestsType DEF Finish
<1> QED BY <1>1, <1>2

(* A poll takes a row. *)
LEMMA TakesType ==
    ASSUME TypeOK, NEW p \in Poll, NEW copy, NEW to \in {"leave", "block", "next", "claim"},
           Takes(p, copy, to), Quiet, ClockFits', RowsFit', UNCHANGED cursor
    PROVE  TypeOK'
<1>1. to \in Places
  BY DEF Places
<1>2. /\ poll' \in [Poll -> Procs] /\ Others(p) /\ copy \in poll[p].rows
      /\ poll'[p].pc = to /\ poll'[p].mine = copy /\ poll'[p].rows = poll[p].rows \ {copy}
  BY <1>1, TakesFacts
<1>3. Fits(p)'
  BY <1>2, PollFacts DEF Fits, InHand, Mine
<1>4. CursorFits'
  BY TypeParts DEF CursorFits
<1> QED BY <1>2, <1>3, <1>4, QuietType

LEMMA RowSet ==
    ASSUME TypeOK, NEW s \in Schedule, NEW r \in Rows, row' = [row EXCEPT ![s] = r]
    PROVE  /\ RowsFit' /\ row'[s] = r
           /\ \A other \in Schedule : other # s => row'[other] = row[other]
BY DEF RowsFit, TypeOK

LEMMA RowUpdates ==
    ASSUME NEW r \in Rows, NEW t \in Nat, NEW u \in Nat, NEW k \in Nat
    PROVE  /\ [r EXCEPT !.enabled = FALSE, !.updated = u] \in Rows
           /\ [r EXCEPT !.taken = t, !.updated = u, !.next = k] \in Rows
           /\ [r EXCEPT !.next = k, !.taken = t, !.updated = u] \in Rows
BY DEF Rows

LEMMA DisableType == ASSUME TypeOK, NEW p \in Poll, NEW copy, Disable(p, copy) PROVE TypeOK'
<1> DEFINE s == copy.id
           r == [row[s] EXCEPT !.enabled = FALSE, !.updated = now]
<1>1. Takes(p, copy, "next") /\ UNCHANGED <<now, scans, slot, cursor, mishaps>>
  BY DEF Disable
<1>2. s \in Schedule
  BY <1>1, PollFacts DEF Takes
<1>3. r \in Rows
  <2>1. row[s] \in Rows /\ now \in Nat
    BY <1>2, CadenceAssumption DEF TypeOK
  <2> QED BY <2>1, RowUpdates
<1>4. row' = [row EXCEPT ![s] = r] \/ row' = row
  BY DEF Disable
<1> HIDE DEF r, s
<1>5. RowsFit'
  BY <1>2, <1>3, <1>4, RowSet, TypeParts DEF RowsFit
<1>6. ClockFits' /\ Quiet
  BY <1>1, TypeParts DEF ClockFits, Quiet
<1> QED BY <1>1, <1>5, <1>6, TakesType

LEMMA AdmitType == ASSUME TypeOK, NEW p \in Poll, NEW copy, Admit(p, copy) PROVE TypeOK'
<1>1. UNCHANGED <<now, row, scans, slot, cursor>>
  BY DEF Admit
<1>2. /\ \/ Takes(p, copy, "leave") \/ Takes(p, copy, "block") \/ Takes(p, copy, "next")
         \/ Takes(p, copy, "claim")
      /\ Mishap("worker") \/ Mishap("denied") \/ UNCHANGED mishaps
  BY DEF Admit
<1>3. ClockFits'
  BY <1>1, <1>2, MishapFits, TypeParts DEF ClockFits
<1>4. Quiet /\ RowsFit' /\ UNCHANGED cursor
  BY <1>1, TypeParts DEF Quiet, RowsFit
<1> QED BY <1>2, <1>3, <1>4, TakesType

LEMMA UnreadableType == ASSUME TypeOK, NEW p \in Poll, NEW copy, Unreadable(p, copy) PROVE TypeOK'
<1>1. UNCHANGED <<now, row, scans, slot, cursor>> /\ Takes(p, copy, "next") /\ Mishap("query")
  BY DEF Unreadable
<1>2. Quiet /\ RowsFit' /\ UNCHANGED cursor
  BY <1>1, TypeParts DEF Quiet, RowsFit
<1> QED BY <1>1, <1>2, MishapFits, TakesType

(* A poll goes on within its row. *)
LEMMA GoesType ==
    ASSUME TypeOK, NEW p \in Poll, NEW to \in {"fail", "release", "restore", "next"}, Goes(p, to),
           poll[p].pc \in {"block", "claim"} \cup InHand,
           to # "next" => poll[p].pc \in InHand,
           ClockFits', RowsFit', ScansFit', DOMAIN scans' = DOMAIN scans, UNCHANGED cursor
    PROVE  TypeOK'
<1>1. to \in Places
  BY DEF Places
<1>2. /\ poll' \in [Poll -> Procs] /\ Others(p) /\ poll'[p].pc = to
      /\ poll'[p].rows = poll[p].rows /\ poll'[p].mine = poll[p].mine
      /\ poll'[p].scan = poll[p].scan
  BY <1>1, GoesFacts
<1>3. Fits(p)
  BY TypeParts DEF PollsFit
<1>4. Fits(p)'
  BY <1>2, <1>3 DEF Fits, InHand, Mine
<1>5. PollsFit' /\ CursorFits'
  BY <1>2, <1>4, PollsStep, TypeParts DEF CursorFits
<1> QED BY <1>5, TypePartsNext

LEMMA InRow ==
    ASSUME TypeOK, NEW p \in Poll,
           poll[p].pc \in {"block", "claim", "enqueue", "fail", "release", "restore", "next", "leave"}
    PROVE  /\ Mine(p).id \in Schedule /\ Mine(p).id \in 0..Last /\ Owner[Mine(p).id] \in User
           /\ row[Mine(p).id] \in Rows /\ Mine(p) \in Copies /\ Mine(p).next \in Nat
           /\ Mine(p).taken \in Nat /\ Mine(p).mode \in Modes
           /\ poll[p].pc \in InHand => poll[p].scan \in DOMAIN scans
BY OwnersAssumption, CadenceAssumption DEF TypeOK, InHand, Mine, Procs, Copies, Schedule

LEMMA BlockType == ASSUME TypeOK, NEW p \in Poll, Block(p) PROVE TypeOK'
<1> DEFINE s == Mine(p).id
           r == [row[s] EXCEPT !.taken = poll[p].start, !.updated = now,
                               !.next = NextRun(poll[p].start)]
<1>1. poll[p].pc = "block" /\ Goes(p, "next") /\ UNCHANGED <<now, scans, slot, cursor, mishaps>>
  BY DEF Block, At
<1>2. s \in Schedule /\ row[s] \in Rows /\ poll[p].start \in Nat /\ now \in Nat
  BY <1>1, InRow, PollFacts, CadenceAssumption DEF TypeOK
<1>3. r \in Rows
  <2>1. NextRun(poll[p].start) \in Nat
    BY <1>2 DEF NextRun
  <2> QED BY <1>2, <2>1, RowUpdates
<1>4. row' = [row EXCEPT ![s] = r] \/ row' = row
  BY DEF Block
<1> HIDE DEF r, s
<1>5. RowsFit'
  BY <1>2, <1>3, <1>4, RowSet, TypeParts DEF RowsFit
<1>6. ClockFits' /\ ScansFit' /\ DOMAIN scans' = DOMAIN scans
  BY <1>1, TypeParts DEF ClockFits, ScansFit
<1> QED BY <1>1, <1>5, <1>6, GoesType

LEMMA RestoreType == ASSUME TypeOK, NEW p \in Poll, Restore(p) PROVE TypeOK'
<1> DEFINE s == Mine(p).id
           r == [row[s] EXCEPT !.next = Mine(p).next, !.taken = Mine(p).taken, !.updated = now]
<1>1. poll[p].pc = "restore" /\ Goes(p, "next") /\ UNCHANGED <<now, scans, slot, cursor, mishaps>>
  BY DEF Restore, At
<1>2. /\ s \in Schedule /\ row[s] \in Rows /\ now \in Nat
      /\ Mine(p).next \in Nat /\ Mine(p).taken \in Nat
  BY <1>1, InRow, CadenceAssumption DEF TypeOK
<1>3. r \in Rows
  BY <1>2 DEF Rows
<1>4. row' = [row EXCEPT ![s] = r] \/ row' = row
  BY DEF Restore
<1> HIDE DEF r, s
<1>5. RowsFit'
  BY <1>2, <1>3, <1>4, RowSet, TypeParts DEF RowsFit
<1>6. ClockFits' /\ ScansFit' /\ DOMAIN scans' = DOMAIN scans
  BY <1>1, TypeParts DEF ClockFits, ScansFit
<1> QED BY <1>1, <1>5, <1>6, GoesType DEF InHand

(* What a claim does when it wins. *)
Wins(p) == Pending(Mine(p), poll[p].start) /\ slot[Owner[Mine(p).id]] = 0 /\ ~ TargetBusy(Mine(p).id)

LEMMA ClaimFacts ==
    ASSUME TypeOK, NEW p \in Poll, Claim(p), Wins(p)
    PROVE  LET s == Mine(p).id
               n == Len(scans) + 1
           IN  /\ s \in Schedule /\ RowsFit' /\ ScansFit'
               /\ row'[s].scan = n /\ row'[s].next = poll[p].start + 1
               /\ \A other \in Schedule : other # s => row'[other] = row[other]
               /\ DOMAIN scans = 1..Len(scans) /\ DOMAIN scans' = 1..n /\ Len(scans) \in Nat
               /\ \A i \in 1..Len(scans) : scans'[i] = scans[i]
               /\ scans'[n].sched = s /\ scans'[n].due = Mine(p).next
               /\ poll' \in [Poll -> Procs] /\ Others(p) /\ poll'[p].pc = "enqueue"
               /\ poll'[p].scan = n /\ poll'[p].rows = poll[p].rows
               /\ poll'[p].mine = poll[p].mine /\ poll'[p].start = poll[p].start
<1> DEFINE s  == Mine(p).id
           n  == Len(scans) + 1
           r  == [row[s] EXCEPT !.taken = poll[p].start, !.updated = poll[p].start,
                                !.next = NextRun(poll[p].start), !.scan = n]
           sc == [sched |-> s, due |-> Mine(p).next, mode |-> Mine(p).mode, status |-> "QUEUED"]
           to == [poll[p] EXCEPT !.pc = "enqueue", !.scan = n]
<1>1. /\ poll[p].pc = "claim" /\ row' = [row EXCEPT ![s] = r] /\ scans' = Append(scans, sc)
      /\ slot' = [slot EXCEPT ![Owner[s]] = n] /\ poll' = [poll EXCEPT ![p] = to]
  BY DEF Claim, Wins, At
<1>2. /\ s \in Schedule /\ row[s] \in Rows /\ Owner[s] \in User /\ Mine(p).next \in Nat
      /\ Mine(p).mode \in Modes
  BY <1>1, InRow
<1>3. scans \in Seq(Scans) /\ Len(scans) \in Nat /\ n \in Nat
  BY DEF TypeOK
<1>4. poll[p] \in Procs /\ poll[p].start \in Nat
  BY PollFacts
<1>5. r \in Rows /\ r.scan = n /\ r.next = poll[p].start + 1
  <2>1. NextRun(poll[p].start) = poll[p].start + 1 /\ poll[p].start + 1 \in Nat
    BY <1>4 DEF NextRun
  <2> DEFINE k == NextRun(poll[p].start)
             q == row[s]
             t == poll[p].start
  <2>2. q \in Rows /\ t \in Nat /\ k \in Nat /\ n \in Nat /\ k = t + 1
    BY <1>2, <1>3, <1>4, <2>1
  <2>3. r = [q EXCEPT !.taken = t, !.updated = t, !.next = k, !.scan = n]
    OBVIOUS
  <2> HIDE DEF k, q, t, n, r
  <2>4. r \in Rows /\ r.scan = n /\ r.next = k
    <3>1. LET e == [q EXCEPT !.taken = t, !.updated = t, !.next = k, !.scan = n]
          IN  e \in Rows /\ e.scan = n /\ e.next = k
      BY <2>2 DEF Rows
    <3> QED BY <2>3, <3>1
  <2> QED BY <2>2, <2>4 DEF t
<1>6. sc \in Scans /\ sc.sched = s /\ sc.due = Mine(p).next
  BY <1>2 DEF Scans
<1>7. /\ to \in Procs /\ to.pc = "enqueue" /\ to.scan = n /\ to.rows = poll[p].rows
      /\ to.mine = poll[p].mine /\ to.start = poll[p].start
  BY <1>3, <1>4 DEF Procs, Places
<1> HIDE DEF r, sc, to, s
<1>8. RowsFit' /\ row'[s] = r /\ \A other \in Schedule : other # s => row'[other] = row[other]
  BY <1>1, <1>2, <1>5, RowSet
<1>9. /\ scans' \in Seq(Scans) /\ Len(scans') = n /\ scans'[n] = sc
      /\ DOMAIN scans = 1..Len(scans) /\ DOMAIN scans' = 1..n
      /\ \A i \in 1..Len(scans) : scans'[i] = scans[i]
  BY <1>1, <1>3, <1>6
<1>10. slot' \in [User -> 0..n]
  <2>1. slot \in [User -> 0..Len(scans)]
    BY DEF TypeOK
  <2>2. \A u \in User : slot'[u] \in {n, slot[u]}
    BY <1>1, <2>1
  <2>3. \A u \in User : slot'[u] \in 0..n
    <3>1. n \in 0..n /\ 0..Len(scans) \subseteq 0..n
      BY <1>3
    <3> HIDE DEF n
    <3> QED BY <2>1, <2>2, <3>1
  <2>4. slot' = [u \in User |-> slot'[u]]
    BY <1>1, <2>1
  <2> HIDE DEF n
  <2> QED BY <2>3, <2>4
<1>11. poll' \in [Poll -> Procs] /\ poll'[p] = to /\ Others(p)
  BY <1>1, <1>7, SetFacts
<1> QED BY <1>2, <1>3, <1>5, <1>6, <1>7, <1>8, <1>9, <1>10, <1>11 DEF ScansFit, s

LEMMA ClaimType == ASSUME TypeOK, NEW p \in Poll, Claim(p) PROVE TypeOK'
<1>0. poll[p].pc = "claim" /\ UNCHANGED <<now, cursor, mishaps>>
  BY DEF Claim, At
<1>1. ClockFits' /\ CursorFits'
  BY <1>0, TypeParts DEF ClockFits, CursorFits
<1>2. CASE Wins(p)
  <2>1. Fits(p)
    BY TypeParts DEF PollsFit
  <2>2. Fits(p)'
    BY <1>0, <1>2, <2>1, ClaimFacts DEF Fits, InHand, Mine
  <2>3. PollsFit'
    <3>1. DOMAIN scans \subseteq DOMAIN scans'
      BY <1>2, ClaimFacts
    <3> QED BY <1>2, <2>2, <3>1, ClaimFacts, PollsStep
  <2> QED BY <1>1, <1>2, <2>3, ClaimFacts, TypePartsNext
<1>3. CASE ~ Wins(p)
  <2>1. Goes(p, "next") /\ UNCHANGED <<row, scans, slot>>
    BY <1>3 DEF Claim, Wins
  <2>2. RowsFit' /\ ScansFit' /\ DOMAIN scans' = DOMAIN scans
    BY <2>1, TypeParts DEF RowsFit, ScansFit
  <2> QED BY <1>0, <1>1, <2>1, <2>2, GoesType
<1> QED BY <1>2, <1>3

LEMMA EnqueueType == ASSUME TypeOK, NEW p \in Poll, Enqueue(p) PROVE TypeOK'
<1> DEFINE n == poll[p].scan
<1>1. poll[p].pc = "enqueue" /\ UNCHANGED <<now, row, slot, cursor>>
  BY DEF Enqueue, At
<1>2. n \in DOMAIN scans
  BY <1>1, InRow DEF InHand
<1>3. scans' = [scans EXCEPT ![n].status = "PUBLISHED"] \/ scans' = scans
  BY DEF Enqueue
<1>4. Goes(p, "next") \/ Goes(p, "fail")
  BY DEF Enqueue
<1>5. ClockFits' /\ RowsFit'
  BY <1>1, MishapFits, TypeParts DEF Enqueue, ClockFits, RowsFit
<1> HIDE DEF n
<1>6. ScansFit' /\ DOMAIN scans' = DOMAIN scans
  BY <1>1, <1>2, <1>3, ScanSet, TypeParts DEF ScansFit
<1> QED BY <1>1, <1>4, <1>5, <1>6, GoesType DEF InHand

LEMMA FailType == ASSUME TypeOK, NEW p \in Poll, Fail(p) PROVE TypeOK'
<1> DEFINE n == poll[p].scan
<1>1. poll[p].pc = "fail" /\ UNCHANGED <<now, row, slot, cursor, mishaps>>
  BY DEF Fail, At
<1>2. n \in DOMAIN scans
  BY <1>1, InRow DEF InHand
<1>3. scans' = [scans EXCEPT ![n].status = "FAILED"] \/ scans' = scans
  BY DEF Fail
<1>4. Goes(p, "next") \/ Goes(p, "release")
  BY DEF Fail
<1>5. ClockFits' /\ RowsFit'
  BY <1>1, TypeParts DEF ClockFits, RowsFit
<1> HIDE DEF n
<1>6. ScansFit' /\ DOMAIN scans' = DOMAIN scans
  BY <1>1, <1>2, <1>3, ScanSet, TypeParts DEF ScansFit
<1> QED BY <1>1, <1>4, <1>5, <1>6, GoesType DEF InHand

LEMMA ReleaseType == ASSUME TypeOK, NEW p \in Poll, Release(p) PROVE TypeOK'
<1>1. /\ poll[p].pc = "release" /\ Goes(p, "restore") /\ slot' = Freed(poll[p].scan)
      /\ UNCHANGED <<now, row, scans, cursor, mishaps>>
  BY DEF Release, At
<1>2. poll[p].scan \in DOMAIN scans
  BY <1>1, InRow DEF InHand
<1>3. ClockFits' /\ RowsFit'
  BY <1>1, TypeParts DEF ClockFits, RowsFit
<1>4. ScansFit' /\ DOMAIN scans' = DOMAIN scans
  BY <1>1, <1>2, FreedFits, TypeParts DEF ScansFit
<1> QED BY <1>1, <1>3, <1>4, GoesType DEF InHand

LEMMA ThrowsType == ASSUME TypeOK, NEW p \in Poll, Throws(p) PROVE TypeOK'
<1>1. /\ poll[p].pc \in {"block", "claim", "fail", "release", "restore"}
      /\ Goes(p, "next") /\ UNCHANGED <<now, row, scans, slot, cursor>> /\ Mishap("query")
  BY DEF Throws
<1>2. ClockFits' /\ RowsFit' /\ ScansFit' /\ DOMAIN scans' = DOMAIN scans
  BY <1>1, MishapFits, TypeParts DEF RowsFit, ScansFit
<1> QED BY <1>1, <1>2, GoesType DEF InHand

LEMMA PassedType == ASSUME TypeOK, NEW p \in Poll, Passed(p) PROVE TypeOK'
<1> DEFINE pc == IF At(p, "leave") THEN "end" ELSE "row"
           to == [poll[p] EXCEPT !.pc = pc, !.mine = NoRow, !.scan = 0]
<1>1. poll[p].pc \in {"next", "leave"} /\ UNCHANGED <<now, row, scans, slot, mishaps>>
  BY DEF Passed
<1>2. CASE poll[p].stale
  BY <1>2, RestsType DEF Passed
<1>3. CASE ~ poll[p].stale
  <2>1. Moves(p, Mine(p).id, to)
    BY <1>3 DEF Passed
  <2>2. poll[p] \in Procs /\ pc \in {"end", "row"} /\ NoRow \in Copies
    BY PollFacts, RestType
  <2>3. to \in Procs /\ to.pc = pc /\ to.rows = poll[p].rows
    <3> HIDE DEF pc
    <3> QED BY <2>2 DEF Procs, Places
  <2>4. Mine(p).id \in 0..Last
    BY <1>1, InRow
  <2>5. \A copy \in to.rows : copy.id \in Schedule
    BY <2>3, PollFacts
  <2> HIDE DEF to, pc
  <2> QED BY <1>1, <2>1, <2>2, <2>3, <2>4, <2>5, MovesType
<1> QED BY <1>2, <1>3

LEMMA CrashType == ASSUME TypeOK, NEW h \in Host, Crash(h) PROVE TypeOK'
<1>1. /\ poll' = [p \in Poll |-> IF HostOf[p] = h THEN Resting ELSE poll[p]]
      /\ cursor' = [cursor EXCEPT ![h] = 0] /\ UNCHANGED <<now, row, scans, slot>>
      /\ Mishap("crash")
  BY DEF Crash
<1>2. ClockFits' /\ RowsFit' /\ ScansFit'
  BY <1>1, MishapFits, TypeParts DEF RowsFit, ScansFit
<1>3. CursorFits'
  BY <1>1, CadenceAssumption DEF CursorFits, TypeOK
<1>4. poll' \in [Poll -> Procs]
  BY <1>1, RestType DEF TypeOK
<1>5. ASSUME NEW p \in Poll PROVE Fits(p)'
  <2>1. CASE HostOf[p] = h
    BY <1>1, <2>1, RestType DEF Fits, InHand
  <2>2. CASE HostOf[p] # h
    <3>1. Fits(p) /\ poll'[p] = poll[p] /\ scans' = scans
      BY <1>1, <2>2, TypeParts DEF PollsFit
    <3> QED BY <3>1 DEF Fits, Mine
  <2> QED BY <2>1, <2>2
<1> QED BY <1>2, <1>3, <1>4, <1>5, TypePartsNext DEF PollsFit

(* The polls and the cursors rest. *)
LEMMA OutsideType ==
    ASSUME TypeOK, ClockFits', RowsFit', ScansFit', DOMAIN scans' = DOMAIN scans,
           UNCHANGED <<cursor, poll>>
    PROVE  TypeOK'
<1>1. PollsFit /\ CursorFits
  BY TypeParts
<1>2. PollsFit' /\ CursorFits'
  BY <1>1 DEF PollsFit, CursorFits, Fits, Mine
<1> QED BY <1>2, TypePartsNext

LEMMA TickType == ASSUME TypeOK, Tick PROVE TypeOK'
<1>1. ClockFits'
  BY CadenceAssumption DEF Tick, TypeOK, ClockFits
<1>2. RowsFit' /\ ScansFit' /\ DOMAIN scans' = DOMAIN scans
  BY TypeParts DEF Tick, RowsFit, ScansFit
<1> QED BY <1>1, <1>2, OutsideType DEF Tick

LEMMA EditFacts ==
    ASSUME TypeOK, NEW s \in Schedule, Edit(s)
    PROVE  /\ RowsFit' /\ row'[s].scan = row[s].scan
           /\ row'[s].next = row[s].next \/ row'[s].next = now + 2
           /\ \A other \in Schedule : other # s => row'[other] = row[other]
<1> DEFINE q == row[s]
           u == now + 1
           k == NextRun(u)
           b == ~ q.enabled
<1>1. q \in Rows /\ u \in Nat /\ k \in Nat /\ k = now + 2
  BY CadenceAssumption DEF TypeOK, NextRun
<1>2. b \in BOOLEAN
  OBVIOUS
<1>3. PICK m \in Modes : \/ row' = [row EXCEPT ![s] = [q EXCEPT !.next = k, !.updated = u]]
                         \/ row' = [row EXCEPT ![s] = [q EXCEPT !.enabled = b, !.updated = u]]
                         \/ row' = [row EXCEPT ![s] = [q EXCEPT !.mode = m, !.updated = u]]
  BY DEF Edit, Modes
<1> DEFINE r1 == [q EXCEPT !.next = k, !.updated = u]
           r2 == [q EXCEPT !.enabled = b, !.updated = u]
           r3 == [q EXCEPT !.mode = m, !.updated = u]
<1>4. \E r \in {r1, r2, r3} : row' = [row EXCEPT ![s] = r]
  BY <1>3
<1> HIDE DEF k, u, b, q
<1>5. /\ r1 \in Rows /\ r1.scan = q.scan /\ r1.next = k
      /\ r2 \in Rows /\ r2.scan = q.scan /\ r2.next = q.next
      /\ r3 \in Rows /\ r3.scan = q.scan /\ r3.next = q.next
  BY <1>1, <1>2 DEF Rows
<1> HIDE DEF r1, r2, r3
<1> QED BY <1>1, <1>4, <1>5, RowSet DEF q

LEMMA EditType == ASSUME TypeOK, NEW s \in Schedule, Edit(s) PROVE TypeOK'
<1>0. now < MaxTime /\ now' = now + 1 /\ UNCHANGED mishaps
  BY DEF Edit
<1>1. ClockFits'
  BY <1>0, CadenceAssumption DEF TypeOK, ClockFits
<1>2. ScansFit' /\ DOMAIN scans' = DOMAIN scans /\ UNCHANGED <<cursor, poll>>
  BY TypeParts DEF Edit, ScansFit
<1> QED BY <1>1, <1>2, EditFacts, OutsideType

(* A scan ends or fails, and its slot is freed. *)
LEMMA ScanEnds ==
    ASSUME TypeOK, NEW n \in DOMAIN scans, EndScan(n) \/ CancelScan(n) \/ Reconcile(n)
    PROVE  /\ UNCHANGED <<now, row, cursor, poll, mishaps>> /\ slot' = Freed(n)
           /\ scans[n].status # "FAILED"
           /\ \E st \in {"ENDED", "FAILED"} : scans' = [scans EXCEPT ![n].status = st]
BY DEF EndScan, CancelScan, Reconcile, Becomes

LEMMA EndsType ==
    ASSUME TypeOK, NEW n \in DOMAIN scans, EndScan(n) \/ CancelScan(n) \/ Reconcile(n)
    PROVE  TypeOK'
<1>1. ClockFits' /\ RowsFit'
  BY ScanEnds, TypeParts DEF ClockFits, RowsFit
<1>2. scans' \in Seq(Scans) /\ Len(scans') = Len(scans) /\ DOMAIN scans' = DOMAIN scans
  <2>1. PICK st \in {"ENDED", "FAILED"} : scans' = [scans EXCEPT ![n].status = st]
    BY ScanEnds
  <2> QED BY <2>1, ScanSet
<1>3. ScansFit'
  BY <1>2, ScanEnds, FreedFits DEF ScansFit
<1> QED BY <1>1, <1>2, <1>3, ScanEnds, OutsideType

LEMMA TypeStep == TypeOK /\ [Next]_vars => TypeOK'
<1> SUFFICES ASSUME TypeOK, [Next]_vars PROVE TypeOK'
  OBVIOUS
<1>1. CASE UNCHANGED vars
  BY <1>1 DEF vars, TypeOK, Mine
<1>2. CASE Tick
  BY <1>2, TickType
<1>3. ASSUME NEW s \in Edited, Edit(s) PROVE TypeOK'
  BY <1>3, EditType, OwnersAssumption
<1>4. ASSUME NEW p \in Poll, Start(p) \/ Polls(p) \/ Errs(p) PROVE TypeOK'
  <2>1. CASE Overtaken(p) \/ OutOfTime(p)
    BY <2>1, RestsType DEF Overtaken, OutOfTime
  <2>2. ASSUME NEW copy, Disable(p, copy) \/ Admit(p, copy) \/ Unreadable(p, copy) PROVE TypeOK'
    BY <2>2, DisableType, AdmitType, UnreadableType
  <2> QED BY <1>4, <2>1, <2>2, StartType, ReadType, FinishType, BlockType, ClaimType, EnqueueType,
             FailType, ReleaseType, RestoreType, PassedType, ThrowsType
          DEF Polls, Row, Errs
<1>5. ASSUME NEW h \in Host, Crash(h) PROVE TypeOK'
  BY <1>5, CrashType
<1>6. ASSUME NEW n \in DOMAIN scans, Runs(n) \/ CancelScan(n) PROVE TypeOK'
  BY <1>6, EndsType DEF Runs
<1> QED BY <1>1, <1>2, <1>3, <1>4, <1>5, <1>6 DEF Next

(* Rows, scans and polls stay well formed, and a poll knows what it works on. *)
THEOREM ScheduleTypes == Spec => []TypeOK
BY InitType, TypeStep, PTL DEF Spec

-----------------------------------------------------------------------------
(* One scan per occurrence *)

Good(p) ==
    /\ poll[p].start <= now
    /\ \A copy \in poll[p].rows : copy.next <= poll[p].start
    /\ poll[p].pc \in {"block", "claim"} \cup InHand => Mine(p).next <= poll[p].start
    /\ poll[p].pc \in InHand =>
          /\ poll[p].scan \in DOMAIN scans
          /\ scans[poll[p].scan].sched = Mine(p).id /\ scans[poll[p].scan].due = Mine(p).next

LEMMA GoodPolls == ReadInTime /\ HoldsItsScan <=> \A p \in Poll : Good(p)
BY DEF ReadInTime, HoldsItsScan, Good

LEMMA GoodPollsNext == (\A p \in Poll : Good(p)') => ReadInTime' /\ HoldsItsScan'
BY DEF ReadInTime, HoldsItsScan, Good

(* Scans are only added, and keep their schedule and their occurrence. *)
Kept ==
    /\ now' \in Nat /\ now <= now'
    /\ DOMAIN scans \subseteq DOMAIN scans'
    /\ \A i \in DOMAIN scans : scans'[i].sched = scans[i].sched /\ scans'[i].due = scans[i].due

LEMMA ScanTypes ==
    ASSUME TypeOK
    PROVE  /\ now \in Nat /\ Len(scans) \in Nat /\ DOMAIN scans = 1..Len(scans)
           /\ \A i \in DOMAIN scans : scans[i] \in Scans /\ scans[i].sched \in Schedule
                                     /\ scans[i].due \in Nat
           /\ \A s \in Schedule : row[s].next \in Nat /\ row[s].scan \in Nat
<1>1. scans \in Seq(Scans) /\ now \in Nat
  BY CadenceAssumption DEF TypeOK
<1>2. Len(scans) \in Nat /\ DOMAIN scans = 1..Len(scans) /\ \A i \in DOMAIN scans : scans[i] \in Scans
  BY <1>1
<1>3. \A sc \in Scans : sc.sched \in Schedule /\ sc.due \in Nat
  BY DEF Scans
<1> QED BY <1>1, <1>2, <1>3 DEF TypeOK, Rows

LEMMA PollTimes ==
    ASSUME TypeOK, NEW p \in Poll
    PROVE  /\ poll[p].start \in Nat /\ poll[p].mine.next \in Nat
           /\ \A copy \in poll[p].rows : copy.next \in Nat
<1>1. poll[p] \in Procs
  BY DEF TypeOK
<1>2. \A copy \in Copies : copy.next \in Nat
  BY DEF Copies
<1> QED BY <1>1, <1>2 DEF Procs

LEMMA StillGood ==
    ASSUME TypeOK, Kept, NEW q \in Poll, Good(q), Alike(poll'[q], poll[q])
    PROVE  Good(q)'
<1>1. poll[q].start <= now' /\ poll'[q].start = poll[q].start
  BY PollTimes, ScanTypes DEF Kept, Good, Alike
<1> QED BY <1>1 DEF Good, Kept, Alike, Mine

LEMMA GoodStep ==
    ASSUME TypeOK, ScheduleInv, NEW p \in Poll, Others(p), Kept, Good(p)'
    PROVE  ReadInTime' /\ HoldsItsScan'
<1>1. \A q \in Poll : Good(q)
  BY GoodPolls DEF ScheduleInv
<1>2. \A q \in Poll : Good(q)'
  BY <1>1, StillGood DEF Others
<1> QED BY <1>2, GoodPollsNext

(* No scan is added, a failed one stays failed, and the rows stay ahead. *)
LEMMA AheadStep ==
    ASSUME TypeOK, ScheduleInv, Kept, DOMAIN scans' = DOMAIN scans,
           \A i \in DOMAIN scans : scans[i].status = "FAILED" => scans'[i].status = "FAILED",
           \A s \in Schedule : row'[s].scan = row[s].scan,
           \A i \in DOMAIN scans : scans[i].status # "FAILED" => scans[i].due < row'[scans[i].sched].next
    PROVE  RowIsAhead' /\ InOrder'
<1>1. \A i \in DOMAIN scans : scans[i].due <= now'
  BY ScanTypes DEF ScheduleInv, RowIsAhead, Kept
<1>2. RowIsAhead'
  BY <1>1, ScanTypes DEF ScheduleInv, RowIsAhead, Kept
<1>3. InOrder'
  BY ScanTypes DEF ScheduleInv, InOrder, Kept
<1> QED BY <1>2, <1>3

(* The rows keep their scan, and their occurrence only moves on. *)
LEMMA LaterStep ==
    ASSUME TypeOK, ScheduleInv, Kept, DOMAIN scans' = DOMAIN scans,
           \A i \in DOMAIN scans : scans[i].status = "FAILED" => scans'[i].status = "FAILED",
           \A s \in Schedule : /\ row'[s].scan = row[s].scan /\ row'[s].next \in Nat
                               /\ row'[s].next >= row[s].next \/ row'[s].next > now
    PROVE  RowIsAhead' /\ InOrder'
<1>1. ASSUME NEW i \in DOMAIN scans, scans[i].status # "FAILED"
      PROVE  scans[i].due < row'[scans[i].sched].next
  <2> DEFINE s == scans[i].sched
  <2>1. s \in Schedule /\ scans[i].due \in Nat /\ now \in Nat /\ row[s].next \in Nat
    BY ScanTypes
  <2>2. scans[i].due <= now /\ scans[i].due < row[s].next
    BY <1>1 DEF ScheduleInv, RowIsAhead
  <2>3. row'[s].next \in Nat /\ (row'[s].next >= row[s].next \/ row'[s].next > now)
    BY <2>1
  <2> QED BY <2>1, <2>2, <2>3
<1>2. \A s \in Schedule : row'[s].scan = row[s].scan
  OBVIOUS
<1>3. \A i \in DOMAIN scans : scans[i].status # "FAILED" => scans[i].due < row'[scans[i].sched].next
  BY <1>1
<1> QED BY <1>2, <1>3, AheadStep

LEMMA SameRows ==
    ASSUME TypeOK, ScheduleInv, UNCHANGED <<row, scans>>, now' \in Nat, now <= now'
    PROVE  Kept /\ RowIsAhead' /\ InOrder'
<1>1. Kept
  BY DEF Kept
<1>2. \A s \in Schedule : /\ row'[s].scan = row[s].scan /\ row'[s].next \in Nat
                          /\ row'[s].next >= row[s].next
  BY ScanTypes
<1> QED BY <1>1, <1>2, LaterStep

(* A poll that has nothing in hand reads, or rests. *)
LEMMA IdleStep ==
    ASSUME TypeOK, ScheduleInv, NEW p \in Poll, Others(p), UNCHANGED <<now, row, scans>>,
           poll'[p].pc \notin {"block", "claim"} \cup InHand,
           poll'[p].start <= now, \A copy \in poll'[p].rows : copy.next <= poll'[p].start
    PROVE  ScheduleInv'
<1>1. now' \in Nat /\ now <= now'
  BY ScanTypes
<1>2. Good(p)'
  BY DEF Good
<1> QED BY <1>1, <1>2, SameRows, GoodStep DEF ScheduleInv

LEMMA StartInv == ASSUME TypeOK, ScheduleInv, NEW p \in Poll, Start(p) PROVE ScheduleInv'
<1> DEFINE r == [Resting EXCEPT !.pc = "read", !.start = now]
<1>1. now \in Nat
  BY ScanTypes
<1>2. r \in Procs /\ r.pc = "read" /\ r.rows = {} /\ r.start = now
  BY <1>1, RestType DEF Procs, Places
<1>3. poll' = [poll EXCEPT ![p] = r] /\ UNCHANGED <<now, row, scans>>
  BY DEF Start
<1> HIDE DEF r
<1>4. poll'[p] = r /\ Others(p)
  BY <1>2, <1>3, SetFacts
<1> QED BY <1>1, <1>2, <1>3, <1>4, IdleStep DEF InHand

LEMMA RestsInv ==
    ASSUME TypeOK, ScheduleInv, NEW p \in Poll, poll' = [poll EXCEPT ![p] = Resting],
           UNCHANGED <<now, row, scans>>
    PROVE  ScheduleInv'
<1>1. poll'[p] = Resting /\ Others(p) /\ now \in Nat
  BY RestType, SetFacts, ScanTypes
<1>2. poll'[p].pc = "idle" /\ poll'[p].rows = {} /\ poll'[p].start = 0
  BY <1>1, RestType
<1> QED BY <1>1, <1>2, IdleStep DEF InHand

LEMMA MovesInv ==
    ASSUME TypeOK, ScheduleInv, NEW p \in Poll, NEW after \in 0..Last, NEW to \in Procs,
           Moves(p, after, to), to.pc \in {"idle", "read", "row", "end"}, to.start <= now,
           \A copy \in to.rows : copy.next <= to.start, UNCHANGED <<now, row, scans>>
    PROVE  ScheduleInv'
<1>1. poll'[p] = to /\ Others(p)
  BY MovesFacts
<1> QED BY <1>1, IdleStep DEF InHand

LEMMA GoodNow ==
    ASSUME TypeOK, ScheduleInv, NEW p \in Poll
    PROVE  Good(p)
BY GoodPolls DEF ScheduleInv

LEMMA ReadInv == ASSUME TypeOK, ScheduleInv, NEW p \in Poll, Read(p) PROVE ScheduleInv'
<1> DEFINE after == cursor[HostOf[p]]
           ids   == DueAfter(after, poll[p].start)
           rows  == {Copy(s) : s \in ids}
           r     == [poll[p] EXCEPT !.pc = "row", !.read = Cardinality(ids), !.rows = rows]
<1>0. UNCHANGED <<now, row, scans>> /\ poll[p].pc = "read" /\ Good(p)
  BY GoodNow DEF Read, At
<1>1. CASE ids = {} /\ after # 0
  <2>1. Moves(p, 0, poll[p])
    BY <1>1 DEF Read
  <2> QED BY <1>0, <2>1, PollFacts, MovesInv DEF Good
<1>2. CASE ~ (ids = {} /\ after # 0)
  <2>1. poll' = [poll EXCEPT ![p] = r]
    BY <1>2 DEF Read
  <2>2. /\ Cardinality(ids) \in Nat /\ rows \subseteq Copies
        /\ \A copy \in rows : copy.next <= poll[p].start
    BY PollFacts, ReadFacts
  <2>3. r \in Procs /\ r.pc = "row" /\ r.rows = rows /\ r.start = poll[p].start
    <3> HIDE DEF ids, rows
    <3> QED BY <2>2, PollFacts DEF Procs, Places
  <2> HIDE DEF r, ids, rows
  <2>4. poll'[p] = r /\ Others(p)
    BY <2>1, <2>3, SetFacts
  <2> QED BY <1>0, <2>2, <2>3, <2>4, IdleStep DEF InHand, Good
<1> QED BY <1>1, <1>2

LEMMA FinishInv == ASSUME TypeOK, ScheduleInv, NEW p \in Poll, Finish(p) PROVE ScheduleInv'
<1>1. CASE poll[p].rows = {} /\ poll[p].read < Page /\ ~ poll[p].stale
  <2>1. Moves(p, 0, Resting) /\ UNCHANGED <<now, row, scans>>
    BY <1>1 DEF Finish
  <2>2. now \in Nat /\ 0 \in 0..Last
    BY ScanTypes, PollFacts
  <2> QED BY <2>1, <2>2, RestType, MovesInv
<1>2. CASE ~ (poll[p].rows = {} /\ poll[p].read < Page /\ ~ poll[p].stale)
  BY <1>2, RestsInv DEF Finish
<1> QED BY <1>1, <1>2

LEMMA PassedInv == ASSUME TypeOK, ScheduleInv, NEW p \in Poll, Passed(p) PROVE ScheduleInv'
<1> DEFINE pc == IF At(p, "leave") THEN "end" ELSE "row"
           to == [poll[p] EXCEPT !.pc = pc, !.mine = NoRow, !.scan = 0]
<1>1. poll[p].pc \in {"next", "leave"} /\ UNCHANGED <<now, row, scans>> /\ Good(p)
  BY GoodNow DEF Passed
<1>2. CASE poll[p].stale
  BY <1>1, <1>2, RestsInv DEF Passed
<1>3. CASE ~ poll[p].stale
  <2>1. Moves(p, Mine(p).id, to)
    BY <1>3 DEF Passed
  <2>2. poll[p] \in Procs /\ pc \in {"end", "row"} /\ NoRow \in Copies
    BY PollFacts, RestType
  <2>3. to \in Procs /\ to.pc = pc /\ to.rows = poll[p].rows /\ to.start = poll[p].start
    <3> HIDE DEF pc
    <3> QED BY <2>2 DEF Procs, Places
  <2>4. Mine(p).id \in 0..Last
    BY <1>1, InRow
  <2>5. to.start <= now /\ \A copy \in to.rows : copy.next <= to.start
    BY <1>1, <2>3 DEF Good
  <2> HIDE DEF to, pc
  <2> QED BY <1>1, <2>1, <2>2, <2>3, <2>4, <2>5, MovesInv
<1> QED BY <1>2, <1>3

(* A poll takes a row: it was due when the poll started. *)
LEMMA TakesGood ==
    ASSUME TypeOK, ScheduleInv, NEW p \in Poll, NEW copy,
           NEW to \in {"leave", "block", "next", "claim"}, Takes(p, copy, to), UNCHANGED now
    PROVE  Others(p) /\ Good(p)'
<1>1. to \in Places
  BY DEF Places
<1>2. /\ Others(p) /\ copy \in poll[p].rows /\ poll'[p].start = poll[p].start
      /\ poll'[p].pc = to /\ poll'[p].mine = copy /\ poll'[p].rows = poll[p].rows \ {copy}
  BY <1>1, TakesFacts
<1>3. Good(p)
  BY GoodNow
<1> QED BY <1>2, <1>3 DEF Good, InHand, Mine

LEMMA TakesInv ==
    ASSUME TypeOK, ScheduleInv, NEW p \in Poll, NEW copy,
           NEW to \in {"leave", "block", "next", "claim"}, Takes(p, copy, to),
           UNCHANGED <<now, row, scans>>
    PROVE  ScheduleInv'
<1>1. Others(p) /\ Good(p)' /\ now' \in Nat /\ now <= now'
  BY TakesGood, ScanTypes
<1>2. Kept /\ RowIsAhead' /\ InOrder'
  BY <1>1, SameRows
<1> QED BY <1>1, <1>2, GoodStep DEF ScheduleInv

LEMMA DisableInv ==
    ASSUME TypeOK, ScheduleInv, NEW p \in Poll, NEW copy, Disable(p, copy) PROVE ScheduleInv'
<1> DEFINE s == copy.id
           r == [row[s] EXCEPT !.enabled = FALSE, !.updated = now]
<1>1. Takes(p, copy, "next") /\ UNCHANGED <<now, scans>>
  BY DEF Disable
<1>2. s \in Schedule
  BY <1>1, PollFacts DEF Takes
<1>3. row[s] \in Rows /\ now \in Nat
  BY <1>2, ScanTypes DEF TypeOK
<1>4. r \in Rows /\ r.scan = row[s].scan /\ r.next = row[s].next
  BY <1>3 DEF Rows
<1>5. row' = [row EXCEPT ![s] = r] \/ row' = row
  BY DEF Disable
<1> HIDE DEF r, s
<1>6. \A o \in Schedule : /\ row'[o].scan = row[o].scan /\ row'[o].next = row[o].next
  BY <1>2, <1>4, <1>5, RowSet
<1>7. \A o \in Schedule : /\ row'[o].scan = row[o].scan /\ row'[o].next \in Nat
                          /\ row'[o].next >= row[o].next
  BY <1>6, ScanTypes
<1>8. Kept /\ Others(p) /\ Good(p)'
  BY <1>1, <1>3, TakesGood DEF Kept
<1>9. RowIsAhead' /\ InOrder'
  BY <1>1, <1>7, <1>8, LaterStep
<1> QED BY <1>8, <1>9, GoodStep DEF ScheduleInv

LEMMA AdmitInv ==
    ASSUME TypeOK, ScheduleInv, NEW p \in Poll, NEW copy, Admit(p, copy) \/ Unreadable(p, copy)
    PROVE  ScheduleInv'
<1>1. /\ UNCHANGED <<now, row, scans>>
      /\ \/ Takes(p, copy, "leave") \/ Takes(p, copy, "block") \/ Takes(p, copy, "next")
         \/ Takes(p, copy, "claim")
  BY DEF Admit, Unreadable
<1> QED BY <1>1, TakesInv

(* A poll goes on with its row, and its scan keeps its occurrence. *)
LEMMA GoesGood ==
    ASSUME TypeOK, ScheduleInv, NEW p \in Poll, NEW to \in {"fail", "release", "restore", "next"},
           Goes(p, to), to # "next" => poll[p].pc \in InHand, Kept, UNCHANGED now
    PROVE  ReadInTime' /\ HoldsItsScan'
<1>1. to \in Places
  BY DEF Places
<1>2. /\ Others(p) /\ poll'[p].pc = to /\ poll'[p].start = poll[p].start
      /\ poll'[p].rows = poll[p].rows /\ poll'[p].mine = poll[p].mine
      /\ poll'[p].scan = poll[p].scan
  BY <1>1, GoesFacts
<1>3. Good(p)
  BY GoodNow
<1>4. Good(p)'
  BY <1>2, <1>3 DEF Good, InHand, Kept, Mine
<1> QED BY <1>2, <1>4, GoodStep

LEMMA BlockInv == ASSUME TypeOK, ScheduleInv, NEW p \in Poll, Block(p) PROVE ScheduleInv'
<1> DEFINE s == Mine(p).id
           k == NextRun(poll[p].start)
           q == row[s]
           t == poll[p].start
           u == now
           r == [q EXCEPT !.taken = t, !.updated = u, !.next = k]
<1>1. poll[p].pc = "block" /\ Goes(p, "next") /\ UNCHANGED <<now, scans>>
  BY DEF Block, At
<1>2. s \in Schedule /\ q \in Rows /\ t \in Nat /\ k = t + 1 /\ u \in Nat
  BY <1>1, InRow, PollFacts, ScanTypes DEF NextRun
<1>3. (row' = [row EXCEPT ![s] = r] /\ q.next <= t) \/ row' = row
  BY DEF Block, Pending
<1> HIDE DEF k, q, t, u
<1>4. k \in Nat /\ r \in Rows /\ r.scan = q.scan /\ r.next = k
  <2>1. k \in Nat
    BY <1>2
  <2> QED BY <1>2, <2>1 DEF Rows
<1> HIDE DEF r, s
<1>5. \A o \in Schedule : row'[o].scan = row[o].scan /\ (row'[o].next = row[o].next
                           \/ (row'[o].next = k /\ row[o].next <= t))
  BY <1>2, <1>3, <1>4, RowSet DEF q
<1>6. \A o \in Schedule : row'[o].scan = row[o].scan /\ row'[o].next \in Nat
                           /\ (row'[o].next >= row[o].next \/ row'[o].next > now)
  BY <1>2, <1>4, <1>5, ScanTypes
<1>7. Kept /\ UNCHANGED now /\ DOMAIN scans' = DOMAIN scans
  BY <1>1, ScanTypes DEF Kept
<1>8. RowIsAhead' /\ InOrder'
  BY <1>1, <1>6, <1>7, LaterStep
<1>9. ReadInTime' /\ HoldsItsScan'
  BY <1>1, <1>7, GoesGood
<1> QED BY <1>8, <1>9 DEF ScheduleInv

(* An occurrence is given back only while the row names the scan that failed:  *)
(* every older scan that has not failed is of an earlier one.                  *)
LEMMA RestoreInv == ASSUME TypeOK, ScheduleInv, NEW p \in Poll, Restore(p) PROVE ScheduleInv'
<1> DEFINE s == Mine(p).id
           n == poll[p].scan
           r == [row[s] EXCEPT !.next = Mine(p).next, !.taken = Mine(p).taken, !.updated = now]
<1>1. poll[p].pc = "restore" /\ Goes(p, "next") /\ UNCHANGED <<now, scans>>
  BY DEF Restore, At
<1>2. Kept /\ UNCHANGED now /\ DOMAIN scans' = DOMAIN scans
  BY <1>1, ScanTypes DEF Kept
<1>3. ReadInTime' /\ HoldsItsScan'
  BY <1>1, <1>2, GoesGood DEF InHand
<1>4. CASE row' = row
  BY <1>1, <1>3, <1>4, SameRows, ScanTypes DEF ScheduleInv
<1>5. CASE scans[n].status = "FAILED" /\ row' = [row EXCEPT ![s] = r] /\ row[s].scan = n
  <2>1. s \in Schedule /\ row[s] \in Rows /\ Mine(p).next \in Nat /\ Mine(p).taken \in Nat
    BY <1>1, InRow
  <2>2. r \in Rows /\ r.scan = row[s].scan /\ r.next = Mine(p).next
    BY <2>1, ScanTypes DEF Rows
  <2>3. n \in DOMAIN scans /\ scans[n].sched = s /\ scans[n].due = Mine(p).next
    BY <1>1, GoodNow DEF Good, InHand
  <2> HIDE DEF r, s, n
  <2>4. row'[s] = r /\ \A o \in Schedule : o # s => row'[o] = row[o]
    BY <1>5, <2>1, <2>2, RowSet
  <2>5. \A o \in Schedule : row'[o].scan = row[o].scan
    BY <2>2, <2>4
  <2>6. ASSUME NEW i \in DOMAIN scans, scans[i].status # "FAILED"
        PROVE  scans[i].due < row'[scans[i].sched].next
    <3>1. CASE scans[i].sched # s
      BY <2>4, <2>6, <3>1, ScanTypes DEF ScheduleInv, RowIsAhead
    <3>2. CASE scans[i].sched = s
      <4>1. i <= n /\ i # n
        BY <1>5, <2>6, <3>2 DEF ScheduleInv, RowIsAhead
      <4>2. i < n
        BY <2>3, <4>1, ScanTypes
      <4>3. scans[i].due < scans[n].due
        BY <2>3, <2>6, <3>2, <4>2 DEF ScheduleInv, InOrder
      <4> QED BY <2>2, <2>3, <2>4, <3>2, <4>3
    <3> QED BY <3>1, <3>2
  <2>7. RowIsAhead' /\ InOrder'
    BY <1>1, <1>2, <2>5, <2>6, AheadStep
  <2> QED BY <1>3, <2>7 DEF ScheduleInv
<1> QED BY <1>4, <1>5 DEF Restore, Untouched

LEMMA ClaimInv == ASSUME TypeOK, ScheduleInv, NEW p \in Poll, Claim(p) PROVE ScheduleInv'
<1> DEFINE s == Mine(p).id
           n == Len(scans) + 1
           t == poll[p].start
<1>1. poll[p].pc = "claim" /\ UNCHANGED now /\ Good(p) /\ now \in Nat
  BY GoodNow, ScanTypes DEF Claim, At
<1>2. CASE Wins(p)
  <2>1. /\ s \in Schedule /\ row'[s].scan = n /\ row'[s].next = t + 1
        /\ \A o \in Schedule : o # s => row'[o] = row[o]
        /\ DOMAIN scans = 1..Len(scans) /\ DOMAIN scans' = 1..n /\ Len(scans) \in Nat
        /\ \A i \in 1..Len(scans) : scans'[i] = scans[i]
        /\ scans'[n].sched = s /\ scans'[n].due = Mine(p).next
    BY <1>2, ClaimFacts
  <2>2. Kept
    BY <1>1, <2>1 DEF Kept
  <2>3. Mine(p).next = row[s].next /\ row[s].next <= t /\ t <= now /\ t \in Nat
    BY <1>1, <1>2, PollFacts DEF Wins, Pending, Good
  <2>4. Good(p)'
    <3>1. /\ poll'[p].pc = "enqueue" /\ poll'[p].scan = n /\ poll'[p].rows = poll[p].rows
          /\ poll'[p].mine = poll[p].mine /\ poll'[p].start = poll[p].start
      BY <1>2, ClaimFacts
    <3>2. n \in 1..n
      BY <2>1
    <3> QED BY <1>1, <2>1, <3>1, <3>2 DEF Good, InHand, Mine
  <2>5. ReadInTime' /\ HoldsItsScan'
    BY <1>2, <2>2, <2>4, ClaimFacts, GoodStep
  <2> HIDE DEF s, n, t
  <2>n. n = Len(scans) + 1
    BY DEF n
  <2>6. ASSUME NEW i \in DOMAIN scans
        PROVE  /\ scans'[i] = scans[i] /\ i <= row'[scans[i].sched].scan /\ scans[i].due <= now
               /\ scans[i].status # "FAILED" => scans[i].due < row'[scans[i].sched].next
               /\ scans[i].status # "FAILED" /\ scans[i].sched = s => scans[i].due < row[s].next
    <3>1. /\ i <= row[scans[i].sched].scan /\ scans[i].due <= now
          /\ scans[i].status # "FAILED" => scans[i].due < row[scans[i].sched].next
      BY DEF ScheduleInv, RowIsAhead
    <3>2. scans[i].sched \in Schedule /\ scans[i].due \in Nat /\ i \in 1..Len(scans)
      BY ScanTypes
    <3>3. row[s].next \in Nat
      BY <2>1, ScanTypes
    <3>4. CASE scans[i].sched # s
      BY <2>1, <3>1, <3>2, <3>4
    <3>5. CASE scans[i].sched = s
      <4>1. i <= n
        BY <2>1, <2>n, <3>2
      <4> QED BY <2>1, <2>3, <3>1, <3>2, <3>3, <3>5, <4>1
    <3> QED BY <3>4, <3>5
  <2>7. RowIsAhead'
    <3> SUFFICES ASSUME NEW i \in 1..n
                 PROVE  /\ i <= row'[scans'[i].sched].scan /\ scans'[i].due <= now
                        /\ scans'[i].status # "FAILED" => scans'[i].due < row'[scans'[i].sched].next
      BY <1>1, <2>1 DEF RowIsAhead
    <3>1. CASE i = n
      BY <1>1, <2>1, <2>3, <2>n, <3>1, ScanTypes
    <3>2. CASE i # n
      <4>1. i \in DOMAIN scans
        BY <2>1, <2>n, <3>2
      <4> QED BY <2>6, <4>1
    <3> QED BY <3>1, <3>2
  <2>8. InOrder'
    <3> SUFFICES ASSUME NEW i \in 1..n, NEW j \in 1..n, i < j, scans'[i].sched = scans'[j].sched,
                        scans'[i].status # "FAILED"
                 PROVE  scans'[i].due < scans'[j].due
      BY <2>1 DEF InOrder
    <3>1. i \in DOMAIN scans
      BY <2>1, <2>n
    <3>2. CASE j = n
      BY <2>1, <2>3, <2>6, <3>1, <3>2
    <3>3. CASE j # n
      <4>1. j \in DOMAIN scans
        BY <2>1, <2>n, <3>3
      <4> QED BY <2>6, <3>1, <4>1 DEF ScheduleInv, InOrder
    <3> QED BY <3>2, <3>3
  <2> QED BY <2>5, <2>7, <2>8 DEF ScheduleInv
<1>3. CASE ~ Wins(p)
  <2>1. Goes(p, "next") /\ UNCHANGED <<row, scans>>
    BY <1>3 DEF Claim, Wins
  <2>2. Kept /\ RowIsAhead' /\ InOrder'
    BY <1>1, <2>1, SameRows
  <2>3. ReadInTime' /\ HoldsItsScan'
    BY <1>1, <2>1, <2>2, GoesGood
  <2> QED BY <2>2, <2>3 DEF ScheduleInv
<1> QED BY <1>2, <1>3

(* A scan moves on; no failed one does. *)
LEMMA ScanMoves ==
    ASSUME TypeOK, ScheduleInv, NEW n \in DOMAIN scans, NEW st \in {"PUBLISHED", "ENDED", "FAILED"},
           scans' = [scans EXCEPT ![n].status = st] \/ scans' = scans,
           scans[n].status # "FAILED" \/ scans' = scans, UNCHANGED <<now, row>>
    PROVE  Kept /\ RowIsAhead' /\ InOrder'
<1>1. CASE scans' = scans
  BY <1>1, SameRows, ScanTypes
<1>2. CASE scans' = [scans EXCEPT ![n].status = st] /\ scans[n].status # "FAILED"
  <2>1. /\ DOMAIN scans' = DOMAIN scans
        /\ \A i \in DOMAIN scans : /\ scans'[i].sched = scans[i].sched
                                   /\ scans'[i].due = scans[i].due
                                   /\ i # n => scans'[i].status = scans[i].status
    BY <1>2, ScanSet
  <2>2. Kept
    BY <2>1, ScanTypes DEF Kept
  <2>3. \A i \in DOMAIN scans : scans[i].status = "FAILED" => scans'[i].status = "FAILED"
    BY <1>2, <2>1
  <2>4. \A s \in Schedule : row'[s].scan = row[s].scan
    OBVIOUS
  <2>5. \A i \in DOMAIN scans : scans[i].status # "FAILED" => scans[i].due < row'[scans[i].sched].next
    BY DEF ScheduleInv, RowIsAhead
  <2> QED BY <2>1, <2>2, <2>3, <2>4, <2>5, AheadStep
<1> QED BY <1>1, <1>2

LEMMA EnqueueInv == ASSUME TypeOK, ScheduleInv, NEW p \in Poll, Enqueue(p) PROVE ScheduleInv'
<1> DEFINE n == poll[p].scan
<1>1. poll[p].pc = "enqueue" /\ UNCHANGED <<now, row>>
  BY DEF Enqueue, At
<1>2. n \in DOMAIN scans
  BY <1>1, InRow DEF InHand
<1>3. \/ scans' = [scans EXCEPT ![n].status = "PUBLISHED"] /\ scans[n].status # "FAILED"
      \/ scans' = scans
  BY DEF Enqueue
<1>4. Goes(p, "next") \/ Goes(p, "fail")
  BY DEF Enqueue
<1> HIDE DEF n
<1>5. Kept /\ RowIsAhead' /\ InOrder'
  BY <1>1, <1>2, <1>3, ScanMoves
<1>6. ReadInTime' /\ HoldsItsScan'
  BY <1>1, <1>4, <1>5, GoesGood DEF InHand
<1> QED BY <1>5, <1>6 DEF ScheduleInv

LEMMA FailInv == ASSUME TypeOK, ScheduleInv, NEW p \in Poll, Fail(p) PROVE ScheduleInv'
<1> DEFINE n == poll[p].scan
<1>1. poll[p].pc = "fail" /\ UNCHANGED <<now, row>>
  BY DEF Fail, At
<1>2. n \in DOMAIN scans
  BY <1>1, InRow DEF InHand
<1>3. \/ scans' = [scans EXCEPT ![n].status = "FAILED"] /\ scans[n].status # "FAILED"
      \/ scans' = scans
  BY DEF Fail
<1>4. Goes(p, "next") \/ Goes(p, "release")
  BY DEF Fail
<1> HIDE DEF n
<1>5. Kept /\ RowIsAhead' /\ InOrder'
  BY <1>1, <1>2, <1>3, ScanMoves
<1>6. ReadInTime' /\ HoldsItsScan'
  BY <1>1, <1>4, <1>5, GoesGood DEF InHand
<1> QED BY <1>5, <1>6 DEF ScheduleInv

LEMMA GoesInv == ASSUME TypeOK, ScheduleInv, NEW p \in Poll, Release(p) \/ Throws(p) PROVE ScheduleInv'
<1>1. /\ UNCHANGED <<now, row, scans>>
      /\ Goes(p, "next") \/ (Goes(p, "restore") /\ poll[p].pc \in InHand)
  BY DEF Release, Throws, At, InHand
<1>2. Kept /\ RowIsAhead' /\ InOrder'
  BY <1>1, SameRows, ScanTypes
<1>3. ReadInTime' /\ HoldsItsScan'
  BY <1>1, <1>2, GoesGood
<1> QED BY <1>2, <1>3 DEF ScheduleInv

LEMMA CrashInv == ASSUME TypeOK, ScheduleInv, NEW h \in Host, Crash(h) PROVE ScheduleInv'
<1>1. /\ poll' = [p \in Poll |-> IF HostOf[p] = h THEN Resting ELSE poll[p]]
      /\ UNCHANGED <<now, row, scans>>
  BY DEF Crash
<1>2. Kept /\ RowIsAhead' /\ InOrder' /\ now \in Nat
  BY <1>1, SameRows, ScanTypes
<1>3. ASSUME NEW p \in Poll PROVE Good(p)'
  <2>1. CASE HostOf[p] = h
    <3>1. poll'[p].start <= now' /\ poll'[p].rows = {} /\ poll'[p].pc = "idle"
      BY <1>1, <1>2, <2>1, RestType
    <3> QED BY <3>1 DEF Good, InHand
  <2>2. CASE HostOf[p] # h
    <3>1. poll'[p] = poll[p] /\ Good(p)
      BY <1>1, <2>2, GoodNow
    <3>2. Alike(poll'[p], poll[p])
      BY <3>1 DEF Alike
    <3> QED BY <1>2, <3>1, <3>2, StillGood
  <2> QED BY <2>1, <2>2
<1> QED BY <1>2, <1>3, GoodPollsNext DEF ScheduleInv

(* The polls rest. *)
LEMMA RestingGood ==
    ASSUME TypeOK, ScheduleInv, Kept, UNCHANGED poll
    PROVE  ReadInTime' /\ HoldsItsScan'
<1>1. \A p \in Poll : Alike(poll'[p], poll[p])
  BY DEF Alike
<1>2. \A p \in Poll : Good(p)'
  BY <1>1, GoodNow, StillGood
<1> QED BY <1>2, GoodPollsNext

LEMMA TickInv == ASSUME TypeOK, ScheduleInv, Tick PROVE ScheduleInv'
<1>1. now' \in Nat /\ now <= now' /\ UNCHANGED <<row, scans, poll>>
  BY ScanTypes DEF Tick
<1>2. Kept /\ RowIsAhead' /\ InOrder'
  BY <1>1, SameRows
<1> QED BY <1>1, <1>2, RestingGood DEF ScheduleInv

LEMMA EditInv == ASSUME TypeOK, ScheduleInv, NEW s \in Schedule, Edit(s) PROVE ScheduleInv'
<1>1. now' = now + 1 /\ UNCHANGED <<scans, poll>>
  BY DEF Edit
<1>2. Kept /\ DOMAIN scans' = DOMAIN scans
  BY <1>1, ScanTypes DEF Kept
<1>3. \A o \in Schedule : row'[o].scan = row[o].scan
                        /\ (row'[o].next = row[o].next \/ row'[o].next = now + 2)
  BY EditFacts
<1>4. \A o \in Schedule : row'[o].scan = row[o].scan /\ row'[o].next \in Nat
                        /\ (row'[o].next >= row[o].next \/ row'[o].next > now)
  BY <1>3, ScanTypes
<1>5. RowIsAhead' /\ InOrder'
  BY <1>1, <1>2, <1>4, LaterStep
<1> QED BY <1>1, <1>2, <1>5, RestingGood DEF ScheduleInv

LEMMA EndsInv ==
    ASSUME TypeOK, ScheduleInv, NEW n \in DOMAIN scans, EndScan(n) \/ CancelScan(n) \/ Reconcile(n)
    PROVE  ScheduleInv'
<1>1. UNCHANGED <<now, row, poll>> /\ scans[n].status # "FAILED"
  BY ScanEnds
<1>2. PICK st \in {"ENDED", "FAILED"} : scans' = [scans EXCEPT ![n].status = st]
  BY ScanEnds
<1>3. Kept /\ RowIsAhead' /\ InOrder'
  BY <1>1, <1>2, ScanMoves
<1> QED BY <1>1, <1>3, RestingGood DEF ScheduleInv

LEMMA InvInit == Init => ScheduleInv
<1> SUFFICES ASSUME Init PROVE ScheduleInv
  OBVIOUS
<1>1. ReadInTime /\ HoldsItsScan
  BY RestType DEF Init, ReadInTime, HoldsItsScan, InHand
<1>2. RowIsAhead /\ InOrder
  BY DEF Init, RowIsAhead, InOrder
<1> QED BY <1>1, <1>2 DEF ScheduleInv

LEMMA InvStep == TypeOK /\ ScheduleInv /\ [Next]_vars => ScheduleInv'
<1> SUFFICES ASSUME TypeOK, ScheduleInv, [Next]_vars PROVE ScheduleInv'
  OBVIOUS
<1>1. CASE UNCHANGED vars
  BY <1>1 DEF vars, ScheduleInv, ReadInTime, HoldsItsScan, RowIsAhead, InOrder, Mine
<1>2. CASE Tick
  BY <1>2, TickInv
<1>3. ASSUME NEW s \in Edited, Edit(s) PROVE ScheduleInv'
  BY <1>3, EditInv, OwnersAssumption
<1>4. ASSUME NEW p \in Poll, Start(p) \/ Polls(p) \/ Errs(p) PROVE ScheduleInv'
  <2>1. CASE Overtaken(p) \/ OutOfTime(p)
    BY <2>1, RestsInv DEF Overtaken, OutOfTime
  <2>2. ASSUME NEW copy, Disable(p, copy) \/ Admit(p, copy) \/ Unreadable(p, copy)
        PROVE  ScheduleInv'
    BY <2>2, DisableInv, AdmitInv
  <2> QED BY <1>4, <2>1, <2>2, StartInv, ReadInv, FinishInv, BlockInv, ClaimInv, EnqueueInv,
             FailInv, GoesInv, RestoreInv, PassedInv
          DEF Polls, Row, Errs
<1>5. ASSUME NEW h \in Host, Crash(h) PROVE ScheduleInv'
  BY <1>5, CrashInv
<1>6. ASSUME NEW n \in DOMAIN scans, Runs(n) \/ CancelScan(n) PROVE ScheduleInv'
  BY <1>6, EndsInv DEF Runs
<1> QED BY <1>1, <1>2, <1>3, <1>4, <1>5, <1>6 DEF Next

(* No occurrence is reviewed twice, whatever polls race for it, whatever fails *)
(* after a claim, and however the owner edits the schedule meanwhile.          *)
THEOREM ScheduleOnce == Spec => []OccurrenceRunsOnce
<1>1. TypeOK /\ ScheduleInv => OccurrenceRunsOnce
  <2> SUFFICES ASSUME TypeOK, InOrder, NEW i \in DOMAIN scans, NEW j \in DOMAIN scans,
                      scans[i].sched = scans[j].sched, scans[i].due = scans[j].due, i # j
               PROVE  scans[i].status = "FAILED" \/ scans[j].status = "FAILED"
    BY DEF ScheduleInv, OccurrenceRunsOnce
  <2>1. i < j \/ j < i
    BY ScanTypes
  <2> QED BY <2>1, ScanTypes DEF InOrder
<1> QED BY <1>1, InitType, InvInit, TypeStep, InvStep, PTL DEF Spec

=============================================================================
