--------------------------- MODULE FixPullRequests ---------------------------
(***************************************************************************)
(* One fix proposal on its way to a pull request (apps/web/src/lib/        *)
(* fix-pr.ts, packages/db/src/agent-approval-service.ts and                *)
(* fix-pr-execution-service.ts).                                           *)
(*                                                                         *)
(* The exact patch is hashed into the approvals that ask for it and into   *)
(* the execution key of its pull request record.  Whoever claims a live    *)
(* approval tries to begin the execution; the unique key lets one of them  *)
(* write to GitHub, everybody else reads GitHub and reconciles the record. *)
(* The instance is one such key: any number of approvals and requests.     *)
(***************************************************************************)
EXTENDS Naturals

CONSTANTS
    Approval,       \* AgentApproval rows for the patch
    Credential,     \* those that an authorized credential asks for (no review)
    Request,        \* requests the web application handles at a time
    NoApproval,
    Mishaps,        \* "crash", "lapse", "query", "github", and those of LoopClosure
    MaxMishaps      \* bound: how many of them happen

MishapKinds == {"crash", "lapse", "query", "github",
                "again", "worker", "refused", "queue", "uncertain"}

ASSUME FixAssumption ==
    /\ Credential \subseteq Approval /\ NoApproval \notin Approval
    /\ Mishaps \subseteq MishapKinds /\ MaxMishaps \in Nat

VARIABLES
    approval,       \* the approvals
    record,         \* the PullRequest row of the execution key
    remote,         \* GitHub: base branch, fix branch, pull request
    starts,         \* executions that began to write to GitHub
    work,           \* what each request is doing
    mishaps         \* faults so far
fixVars == <<approval, record, remote, starts, work>>

-----------------------------------------------------------------------------
(* Rows and requests *)

Claimed    == {"EXECUTING", "EXECUTED", "EXECUTION_FAILED"}
Approvals  == [status : {"NONE", "PENDING", "APPROVED", "DENIED", "EXPIRED"} \cup Claimed,
               live : BOOLEAN]
Opened     == {"open", "closed", "merged"}
Records    == [status : {"none", "opening", "recovery", "failed", "stale"} \cup Opened,
               by : Approval \cup {NoApproval}]
Remotes    == [moved : BOOLEAN, branch : BOOLEAN, pr : {"none"} \cup Opened]
\* "note" is what the catch block will write to the record ("none": nothing, the
\* request does not own it), or what an inspection of GitHub has seen.
Executing  == {"authorize", "execute", "begin", "check", "branch", "pr", "record",
               "settle", "catch", "fail"}
Works      == [pc : Executing \cup {"idle", "ask", "inspect", "persist"},
               own : Approval \cup {NoApproval},
               note : {"none", "recovery", "failed", "stale"} \cup Opened]

Idle == [pc |-> "idle", own |-> NoApproval, note |-> "none"]

FixInit ==
    /\ approval = [a \in Approval |-> [status |-> "NONE", live |-> FALSE]]
    /\ record = [status |-> "none", by |-> NoApproval]
    /\ remote = [moved |-> FALSE, branch |-> FALSE, pr |-> "none"]
    /\ starts = 0
    /\ work = [p \in Request |-> Idle]
    /\ mishaps = 0

Mishap(kind) == kind \in Mishaps /\ mishaps < MaxMishaps /\ mishaps' = mishaps + 1
Calm         == UNCHANGED mishaps

At(p, pc)     == work[p].pc = pc
Goes(p, pc)   == work' = [work EXCEPT ![p].pc = pc]
Noting(p, pc, note) ==
    work' = [work EXCEPT ![p] = [pc |-> pc, own |-> work[p].own, note |-> note]]
Takes(p, pc, a) == work' = [work EXCEPT ![p] = [pc |-> pc, own |-> a, note |-> "none"]]
Rests(p)      == work' = [work EXCEPT ![p] = Idle]
Becomes(a, s) == approval' = [approval EXCEPT ![a].status = s]

Reusable == {a \in Approval : approval[a].status = "PENDING" /\ approval[a].live}
Fresh    == {a \in Approval : approval[a].status = "NONE"}

-----------------------------------------------------------------------------
(* Asking and deciding *)

(* What nothing read at GitHub changes any more. *)
Final == {"failed", "stale", "closed", "merged"}

(* A request for the pull request, or a look at its status: a final record is  *)
(* told as it is, another one is reconciled with GitHub, and without a record  *)
(* a request goes on to ask for an approval.                                   *)
Ask(p) ==
    /\ At(p, "idle")
    /\ \/ record.status = "none" /\ Goes(p, "ask")
       \/ record.status \notin Final \cup {"none"} /\ Goes(p, "inspect")
    /\ Calm /\ UNCHANGED <<approval, record, remote, starts>>

(* findOrCreatePendingApproval hands out a pending approval again; a           *)
(* credential gets one of its own, authorized in a second write.               *)
CreateApproval(p) ==
    /\ At(p, "ask")
    /\ \/ \E a \in Fresh \ Credential :
             /\ Reusable = {}
             /\ approval' = [approval EXCEPT ![a] = [status |-> "PENDING", live |-> TRUE]]
             /\ Rests(p)
       \/ \E a \in Fresh \cap Credential :
             /\ approval' = [approval EXCEPT ![a] = [status |-> "PENDING", live |-> TRUE]]
             /\ Takes(p, "authorize", a)
       \/ /\ Reusable # {} \/ Fresh = {}    \* told the pending one, or the instance has no more
          /\ Rests(p) /\ UNCHANGED approval
    /\ Calm /\ UNCHANGED <<record, remote, starts>>

Authorize(p) ==
    /\ At(p, "authorize")
    /\ \/ /\ approval[work[p].own].status = "PENDING"
          /\ Becomes(work[p].own, "APPROVED") /\ Goes(p, "execute")
       \/ /\ approval[work[p].own].status # "PENDING"
          /\ Rests(p) /\ UNCHANGED approval
    /\ Calm /\ UNCHANGED <<record, remote, starts>>

(* The approve route decides and, in the same request, executes. *)
Approve(p, a) ==
    /\ At(p, "idle") /\ a \in Reusable
    /\ Becomes(a, "APPROVED")
    /\ Takes(p, "execute", a)
    /\ Calm /\ UNCHANGED <<record, remote, starts>>

Deny(a) ==
    /\ approval[a].status = "PENDING" /\ Becomes(a, "DENIED")
    /\ Calm /\ UNCHANGED <<record, remote, starts, work>>

Lapse(a) ==
    /\ approval[a].live /\ approval[a].status \in {"PENDING", "APPROVED"}
    /\ approval' = [approval EXCEPT ![a].live = FALSE]
    /\ Mishap("lapse") /\ UNCHANGED <<record, remote, starts, work>>

(* The five-minute sweep, or an approver who comes too late. *)
Expire(a) ==
    /\ approval[a].status \in {"PENDING", "APPROVED"} /\ ~ approval[a].live
    /\ Becomes(a, "EXPIRED")
    /\ Calm /\ UNCHANGED <<record, remote, starts, work>>

-----------------------------------------------------------------------------
(* Executing *)

(* "Exactly one concurrent caller wins": hash, expiry and status are enforced  *)
(* by the update itself.  A disabled connection is refused before it.          *)
Claimable(a) == approval[a].status = "APPROVED" /\ approval[a].live

Claim(p) ==
    /\ At(p, "execute")
    /\ \/ /\ Claimable(work[p].own) /\ Calm
          /\ Becomes(work[p].own, "EXECUTING") /\ Goes(p, "begin")
       \/ /\ ~ Claimable(work[p].own) /\ Calm
          /\ Rests(p) /\ UNCHANGED approval
       \/ Mishap("github") /\ Rests(p) /\ UNCHANGED approval
    /\ UNCHANGED <<record, remote, starts>>

SlipOwnable == record.status \in {"none", "recovery"}       \* an uncertain execution is replayed
Ownable == record.status = "none"
Intent(p) == [status |-> "opening", by |-> work[p].own]

(* beginFixPrExecution: the unique execution key makes one caller the owner.   *)
(* An error may follow the commit; the caller then does not know that it owns. *)
Begin(p) ==
    /\ At(p, "begin")
    /\ \/ /\ Ownable /\ Calm
          /\ record' = Intent(p) /\ Noting(p, "check", "failed")
       \/ /\ ~ Ownable /\ Calm
          /\ Goes(p, IF record.status \in Final THEN "settle" ELSE "inspect")
          /\ UNCHANGED record
       \/ /\ Mishap("query") /\ Goes(p, "catch")
          /\ UNCHANGED record \/ (Ownable /\ record' = Intent(p))
    /\ UNCHANGED <<approval, remote, starts>>

SlipCheck(p) ==      \* "remoteMutationStarted" is set only after the first write
    /\ At(p, "check")
    /\ \/ ~ remote.moved /\ Calm /\ Goes(p, "branch") /\ starts' = starts + 1
       \/ remote.moved /\ Calm /\ Noting(p, "catch", "stale") /\ UNCHANGED starts
    /\ UNCHANGED <<approval, record, remote>>

(* The base commit and the files are read; from here on an error is uncertain. *)
Check(p) ==
    /\ At(p, "check")
    /\ \/ /\ ~ remote.moved /\ Calm
          /\ Noting(p, "branch", "recovery") /\ starts' = starts + 1
       \/ remote.moved /\ Calm /\ Noting(p, "catch", "stale") /\ UNCHANGED starts
       \/ Mishap("github") /\ Noting(p, "catch", "failed") /\ UNCHANGED starts
    /\ UNCHANGED <<approval, record, remote>>

(* createBranch and the files.  A call that fails may have had its effect, and *)
(* GitHub refuses a branch that exists.                                        *)
CreateBranch(p) ==
    /\ At(p, "branch")
    /\ \/ ~ remote.branch /\ Calm /\ remote' = [remote EXCEPT !.branch = TRUE] /\ Goes(p, "pr")
       \/ remote.branch /\ Calm /\ UNCHANGED remote /\ Goes(p, "catch")
       \/ /\ Mishap("github") /\ Goes(p, "catch")
          /\ UNCHANGED remote \/ remote' = [remote EXCEPT !.branch = TRUE]
    /\ UNCHANGED <<approval, record, starts>>

OpenPullRequest(p) ==
    /\ At(p, "pr")
    /\ \/ remote.pr = "none" /\ Calm /\ remote' = [remote EXCEPT !.pr = "open"] /\ Goes(p, "record")
       \/ /\ Mishap("github") /\ Goes(p, "catch")
          /\ \/ UNCHANGED remote
             \/ remote.pr = "none" /\ remote' = [remote EXCEPT !.pr = "open"]
    /\ UNCHANGED <<approval, record, starts>>

(* createPullRequestRecord: a closed or merged record is never reopened. *)
Recorded(s) == IF record.status \in {"closed", "merged"} THEN record ELSE [record EXCEPT !.status = s]

RecordOpened(p) ==
    /\ At(p, "record")
    /\ \/ Calm /\ record' = Recorded("open") /\ Goes(p, "settle")
       \/ Mishap("query") /\ record' \in {record, Recorded("open")} /\ Goes(p, "catch")
    /\ UNCHANGED <<approval, remote, starts>>

(* completeApprovalExecution; only the owner's failure is a failed execution. *)
Settled(a) == IF approval[a].status = "EXECUTING" THEN Becomes(a, "EXECUTED") ELSE UNCHANGED approval

Settle(p) ==
    /\ At(p, "settle")
    /\ \/ Calm /\ Settled(work[p].own) /\ Rests(p)
       \/ /\ Mishap("query") /\ (UNCHANGED approval \/ Settled(work[p].own))
          /\ IF work[p].note = "recovery" THEN Goes(p, "catch") ELSE Rests(p)
    /\ UNCHANGED <<record, remote, starts>>

(* The catch block: the owner marks its record, then the approval fails for    *)
(* good.  Errors of both writes are swallowed.                                 *)
Marks(p) == record.status = "opening" /\ record.by = work[p].own /\ work[p].note # "none"

Catch(p) ==
    /\ At(p, "catch") /\ Goes(p, "fail")
    /\ \/ Calm /\ record' = IF Marks(p) THEN [record EXCEPT !.status = work[p].note] ELSE record
       \/ Mishap("query") /\ Marks(p) /\ UNCHANGED record
    /\ UNCHANGED <<approval, remote, starts>>

Fail(p) ==
    /\ At(p, "fail") /\ Rests(p)
    /\ \/ /\ Calm
          /\ IF approval[work[p].own].status = "EXECUTING"
             THEN Becomes(work[p].own, "EXECUTION_FAILED") ELSE UNCHANGED approval
       \/ Mishap("query") /\ UNCHANGED approval
    /\ UNCHANGED <<record, remote, starts>>

-----------------------------------------------------------------------------
(* Reconciling: read-only at GitHub *)

SlipTold(p) == Noting(p, "settle", "none")       \* a status check settles an approval as well
Told(p) == IF work[p].own = NoApproval THEN Rests(p) ELSE Noting(p, "settle", "none")

Inspect(p) ==
    /\ At(p, "inspect")
    /\ \/ remote.pr # "none" /\ Calm /\ Noting(p, "persist", remote.pr)
       \/ remote.pr = "none" /\ Calm /\ Told(p)
       \/ Mishap("github") /\ Told(p)
    /\ UNCHANGED <<approval, record, remote, starts>>

Persist(p) ==
    /\ At(p, "persist") /\ Told(p)
    /\ \/ Calm /\ record' = Recorded(work[p].note)
       \/ Mishap("query") /\ UNCHANGED record
    /\ UNCHANGED <<approval, remote, starts>>

-----------------------------------------------------------------------------
(* Processes and people *)

Crash(p) ==
    /\ ~ At(p, "idle") /\ Mishap("crash") /\ Rests(p)
    /\ UNCHANGED <<approval, record, remote, starts>>

BaseMoves ==
    /\ starts = 0 /\ ~ remote.moved /\ remote' = [remote EXCEPT !.moved = TRUE]
    /\ Calm /\ UNCHANGED <<approval, record, starts, work>>

(* The customer closes and reopens; merging is a step of LoopClosure. *)
CloseOrReopen ==
    /\ \/ remote.pr = "open" /\ remote' = [remote EXCEPT !.pr = "closed"]
       \/ remote.pr = "closed" /\ remote' = [remote EXCEPT !.pr = "open"]
    /\ Calm /\ UNCHANGED <<approval, record, starts, work>>

Handles(p) ==
    \/ CreateApproval(p) \/ Authorize(p) \/ Claim(p) \/ Begin(p) \/ Check(p)
    \/ CreateBranch(p) \/ OpenPullRequest(p) \/ RecordOpened(p) \/ Settle(p)
    \/ Catch(p) \/ Fail(p) \/ Inspect(p) \/ Persist(p)

Starts(p)  == Ask(p) \/ \E a \in Approval : Approve(p, a)
Decides(a) == Deny(a) \/ Lapse(a) \/ Expire(a)
=============================================================================
