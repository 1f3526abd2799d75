---------------------------- MODULE ScheduleSafety ----------------------------
(***************************************************************************)
(* What a schedule promises its owner.                                     *)
(***************************************************************************)
EXTENDS ScheduledReviews

Rows   == [enabled : BOOLEAN, mode : Modes, updated : Nat, next : Nat, taken : Nat, scan : Nat]
Copies == [id : 0..Last, mode : Modes, updated : Nat, next : Nat, taken : Nat]
Scans  == [sched : Schedule, due : Nat, mode : Modes,
           status : {"QUEUED", "PUBLISHED", "ENDED", "FAILED"}]
Places == {"idle", "read", "row", "block", "claim", "enqueue", "fail", "release", "restore",
           "next", "leave", "end"}
Procs  == [pc : Places, start : Nat, rows : SUBSET Copies, read : Nat, mine : Copies,
           scan : Nat, stale : BOOLEAN]

(* Rows, scans and polls are well formed, and a poll knows what it works on.   *)
TypeOK ==
    /\ now \in 0..MaxTime /\ mishaps \in 0..MaxMishaps
    /\ row \in [Schedule -> Rows]
    /\ scans \in Seq(Scans)
    /\ slot \in [User -> 0..Len(scans)]
    /\ cursor \in [Host -> 0..Last]
    /\ poll \in [Poll -> Procs]
    /\ \A p \in Poll :
          /\ \A copy \in poll[p].rows : copy.id \in Schedule
          /\ poll[p].pc \in {"block", "claim", "enqueue", "fail", "release", "restore", "next",
                             "leave"} => Mine(p).id \in Schedule
          /\ poll[p].pc \in {"enqueue", "fail", "release", "restore"} => poll[p].scan \in DOMAIN scans

(* An occurrence is reviewed once: of its scans, all but one have failed before *)
(* they were ever published, however many polls and processes raced for it and *)
(* whatever was given back.                                                    *)
OccurrenceRunsOnce ==
    \A i, j \in DOMAIN scans :
        scans[i].sched = scans[j].sched /\ scans[i].due = scans[j].due /\ i # j =>
            scans[i].status = "FAILED" \/ scans[j].status = "FAILED"

(* With two polls at a time, a scan is created only for a schedule that is on, *)
(* and with the settings its owner saved last, though the poll had read the    *)
(* row before they were saved.  Of three polls this is false: a claim stamps   *)
(* the row with its poll's start, so an old copy can match the row again       *)
(* (schedule-service.ts:233; README, section 6).                               *)
CurrentSettings ==
    [][\A n \in DOMAIN scans' \ DOMAIN scans :
          LET r == row[scans'[n].sched] IN
          r.enabled /\ scans'[n].mode = r.mode /\ scans'[n].due = r.next]_vars

(* A slot whose scan has failed while its poll died has nobody to free it      *)
(* (README, hazards).                                                         *)
Stuck(u) == slot[u] # 0 /\ scans[slot[u]].status = "FAILED" /\ Abandoned(slot[u])

(* No due occurrence starves: neither behind rows that are deferred for ever,  *)
(* nor when polls run out of time, overlap or overtake each other.             *)
EveryDueIsServed ==
    \A s \in Schedule \ Unready : Due(s, now) ~> ~ Due(s, now) \/ Stuck(Owner[s])
=============================================================================
