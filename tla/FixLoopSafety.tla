---------------------------- MODULE FixLoopSafety ----------------------------
(***************************************************************************)
(* What a fix pull request and the retest after its merge must never do.   *)
(***************************************************************************)
EXTENDS LoopClosure

(* Every variable holds a value of its type, and a request that executes       *)
(* knows the approval it executes.                                             *)
TypeOK ==
    /\ approval \in [Approval -> Approvals] /\ record \in Records /\ remote \in Remotes
    /\ starts \in Nat /\ work \in [Request -> Works] /\ mishaps \in Nat
    /\ hook \in Hooks /\ closure \in Closures /\ retest \in Retests /\ rival \in Rivals
    /\ gone \in BOOLEAN
    /\ task \in [Handler -> Tasks]
    /\ \A p \in Request : work[p].pc \in Executing => work[p].own # NoApproval

(* "Exactly one caller may perform GitHub mutations for this immutable patch   *)
(* identity": however many approvals are given, claimed and executed, whoever  *)
(* crashes and whatever GitHub or the database answers, at most one execution  *)
(* ever starts to write, and its approval has been claimed.                    *)
OneExecution ==
    /\ starts <= 1
    /\ starts = 1 => record.by # NoApproval /\ approval[record.by].status \in Claimed

(* What LyraShield tells of the pull request is not wrong about GitHub: a      *)
(* branch or a pull request that exists is never recorded as not started,      *)
(* failed "before GitHub writes" or stale; a recorded pull request exists; a   *)
(* merge is recorded only of one that was merged.                              *)
RecordMatchesRemote ==
    /\ remote.branch \/ remote.pr # "none" => record.status \notin {"none", "failed", "stale"}
    /\ record.status \in Opened => remote.pr # "none"
    /\ record.status = "merged" => remote.pr = "merged"

(* Redelivered webhooks, overlapping sweeps and retries create one automatic   *)
(* retest of a pull request between them, and only when its merge is on record.*)
OneRetest == retest.count <= 1 /\ (retest.count = 1 => record.status = "merged")

(* A deferred closure is not forgotten: its retest reaches the queue and ends, *)
(* or is failed by the reconciler, or the closure fails visibly, or another    *)
(* retest of the finding stands for it, or what it would test is gone (the     *)
(* sweep then completes the closure without a retest).                         *)
DeferredIsResolved ==
    closure.status = "pending" ~>
        \/ retest.scan \in {"ENDED", "FAILED"} \/ closure.status = "failed"
        \/ rival # "none" \/ gone

(* "A deferrable failure (concurrency cap, active scan, ...) persists a        *)
(* durable LoopClosure record", "never a silent loss" (github/route.ts:250,    *)
(* loop-closure-service.ts:13): a recorded merge gets its retest, a closure,   *)
(* or yields to another retest of the finding, or has nothing left to test.    *)
MergeIsFollowed ==
    record.status = "merged" ~>
        retest.scan # "none" \/ closure.status # "none" \/ rival # "none" \/ gone
=============================================================================
