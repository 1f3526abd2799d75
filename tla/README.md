# A formal model of LyraShield

LyraShield runs security reviews ("scans") that cost money: a user or a schedule
starts one, a worker executes it in a container, the account pays for the
minutes; providers report payments, licences are issued, and a finding's fix
becomes a pull request whose merge is followed by a retest.  This project
models, in TLA+, the protocols of the repository that must never get this
wrong: who may start a review and when its paid execution may start, whose
minutes fund it, what is charged and when the slot is given back; when a
provider's event counts as processed; what a licence buyer is promised; that an
occurrence of a schedule is reviewed once; that a patch is pushed once.  TLC
checks small instances, TLAPS proves the central facts for every instance.

Line references are to the repository (`PROJECT.json`, "map", has the lines of
every definition).

## 1. Inventory

| component | state it keeps | operations | what is hard |
|---|---|---|---|
| Admission, cancellation (`packages/db/src/scan-service.ts`, `apps/web/src/app/api/scans/route.ts`) | `Scan` row | `createScan`, `updateScanStatus`, `requeueScanForRetry`, `withScanFinalizationClaim`, `cancelScan` | several transactions per request, each of which may be the last; every other actor in between |
| User slot (`packages/db/src/scan-slot.ts`) | `UserScanSlot`, `Scan.accountingSettledAt` | `releaseStoppedScanSlot`, `releaseUnstartedScanSlot` | called by four actors, each with its own idea of what happened |
| Capacity (`packages/billing/src/usage/capacity.ts`) | `ScanCapacityReservation` | reserve, claim, settle, confirm, reset, start unmetered | a claim is taken once; an uncertain settlement is neither charged nor refunded |
| Scan worker (`apps/worker/src/jobs/run-scan.job.ts`, `run-scan/`) | locals of `processScanJob`, events, manifest, container | one attempt: resume, prepare, admit, reserve, run, claim, execute, verify, finalize, meter; catch; finally | exceptions, crashes and redelivery between any two of them |
| Queue (`packages/integrations/src/queue.ts`, BullMQ) | job state, lock, attempts, stalls | add, deliver, stall, retry, defer, complete, fail | uncertain acknowledgement, lapsed locks |
| Reconciliation (`apps/worker/src/queue-reconciliation.ts`) | a Redis lease | orphaned scans, leftover jobs, failed event | acts on what it read before |
| Metering and funding (`packages/billing/src/usage/`) | usage records, packs, grants, grace, spend limit | balance, reserve, settle, expire, refund | reservations and balances in one account lock, cycle renewal |
| Provider webhooks (`packages/billing/src/webhook-tracks.ts`, `billing/webhook/route.ts`, retry job, admin routes) | `WebhookEvent`, `WebhookEventTrack`, retry jobs in Redis | receive, claim, run, mark, hand over, sweep, recover, dispose | redelivery next to a retry, leases that lapse, effects that may have happened, retained job identities |
| Local licences (`license-fulfillment.ts`, `api/licenses/`, desktop `license/mod.rs`) | `LicenseKey`, `License`, activations, signed files | issue, deliver, retrieve, activate, verify | tracks and portal mint at once, signing outside transactions, one-time links |
| Schedules (`apps/worker/src/schedules.ts`, `schedule-service.ts`) | `Schedule`, the cursor of a process | poll, claim, publish, restore, block, edit | polls of several processes, edits in between, a budget per poll |
| Agent approvals (`agent-approval-service.ts`) | `AgentApproval` | create, reuse, authorize, approve, deny, expire, claim, settle | several approvals of one patch, expiry against execution |
| Fix pull requests (`apps/web/src/lib/fix-pr.ts`, `fix-pr-execution-service.ts`) | `PullRequest` by execution key, GitHub | ask, execute, reconcile | GitHub calls that fail after their effect |
| Loop closure (`github/route.ts`, `fix-pr-merge-service.ts`, `loop-closure-service.ts`, sweep) | webhook marker, `LoopClosure`, `Retest` | receive the merge, create and publish the retest, defer, sweep | no redelivery by GitHub, leases, attempts |
| Release gate, scoring, reports | findings, verdicts | evaluate | pure functions |
| Affiliate, account deletion, audit chain, connectors | their rows | staged jobs | partial failure |
| Web UI, desktop, CLI, SDK, MCP, marketing | none shared | call the API | - |

How they meet: the web request writes the scan, its slot and its reservation
in one transaction and then publishes a job named after the scan; BullMQ
delivers it to a worker; worker, web request and reconciler then share the
database rows, each operation being one transaction under the advisory locks
user, workspace, account (`lockUserScanAdmission`, `lockedScan`).  No operation
spans two transactions, so what one actor read may be old when it acts on it.

What makes each part correct is in section 4; `PROJECT.json`, "hazards", lists
what can go wrong, at its line, with the properties that would notice.

## 2. Modules

| module | what it is |
|---|---|
| `ScanLifecycle` | scan, reservation, slot, job, caller, workers, reconciler, container |
| `ReviewSlot` | the abstract promise: one review per user, started once, released once nothing of it runs |
| `ScanSafety`, `ScanInvariants`, `MCScan` | its properties, refinement mapping and fairness; the strengthening; instances |
| `ScanProofs`, `ExecutionProofs` | its theorems under every fault; those about paid execution, and the refinement |
| `CapacityFunding` | the minutes of one account: pool, packs, overage, grace, the reservations that hold them |
| `FundingSafety`, `MCCapacity` | its properties; instances |
| `MinuteSums`, `FundingProofs` | what sums, `Draw` and `Trim` compute; theorems about the account |
| `WebhookTracks` | one provider event: receipt, tracks, claims, retry jobs, sweep, operators |
| `TrackLedger` | the abstract promise: a track is open until done or parked, 200 only after all |
| `WebhookSafety`, `WebhookProofs`, `MCWebhook` | its properties and refinement mapping; theorems; instances |
| `LicenseKeys` | one order's licence: issue, mail, retrieval, activation, the desktop |
| `LicenseSafety`, `LicenseProofs`, `MCLicense` | its properties; theorems; instances |
| `ScheduledReviews` | polls of several processes over the due schedules |
| `ScheduleSafety`, `ScheduleProofs`, `MCSchedule` | its properties; theorems; instances |
| `FixPullRequests` | approvals and executions of one exact patch, and GitHub |
| `LoopClosure` | extends it: the merge, its webhook, the retest, the deferred closure and its sweep |
| `FixLoopSafety`, `FixLoopProofs`, `MCFixLoop` | properties of both; theorems; instances |

How they compose.  `ScanLifecycle` has every state change of one reservation and
lets an attempt be funded or told to wait; `CapacityFunding` has the same states
without the scan around them and decides which of the two it is, with how many
minutes of which source: `WaiterIsFunded` is what `ScanLifecycle` assumes as
`Funding`, and names the cases in which the assumption fails.  `ScheduledReviews` and `LoopClosure` create scans; what happens to a
scan afterwards is one step there (it ends, is cancelled, or is failed by the
reconciler) and `ScanLifecycle`'s subject.  `LicenseKeys` takes up what the
license track of `WebhookTracks` runs: a track that throws there is a track
that is recorded as failed here.  `LoopClosure` is one module over
`FixPullRequests`, because the merge may be reported while the execution that
opened the pull request is still uncertain.

### State

`row[s]` is the Scan row (status, startedAt, finalizationStartedAt), its
billable_boundary event and its result manifest; `cap[s]` the reservation, its
stoppedAt, its usage receipt and `accountingSettledAt`; `slot[u]` the
UserScanSlot; `job[s]` BullMQ's job; `duty[s]` what a request or event handler
has still to do; `sandbox[s]` and `runs[s]` the containers executing now and
started ever; `pc`, `cur`, `mem` a worker's position in `processScanJob`, its
scan and the locals that catch and finally read (`recoveringPreviousExecution`,
`billablePhaseStarted`, `executorReturned`, `noBillableWork`,
`billingDisposition`, `durableFinalizationResult`).

### Actions

One action is one transaction, one queue command, or one boundary of the
container.  The steps of an attempt, in the code's order:

    Deliver | DeliveryFails -> Resume -> Prepare -> Admitted | Refuse
    -> Reserve | ReserveWait | StartUnmetered -> BeginRunning
    -> Execute | Refuse -> Claim | ClaimWait -> EnterBillable
    -> Launch | LaunchCancelled -> EngineReturns -> Refuse | Observe -> Route
    -> (SettleCancelled | EarlySeal, EarlyFinish | BeginVerifying,
        ClaimFinalization, Seal, Finish, Commit)
    catch:   CatchDurable | CatchCancelled | CatchRetry, ResetCapacity
             | CatchFail | CatchUnreadable | Defer, DeferClear, DeferMove
    finally: Confirm, ReleaseStopped, FinallyReleases;  then Acknowledge

`Seal` and `Commit` are two steps although the code meters in one transaction:
publication runs inside that transaction, on another connection, between the
reservation's check and its commit.  The account lock the transaction holds is
`Metering(s)`; every other capacity transaction of the scan waits for it.

What can go wrong is chosen per instance by `Faults`: `crash` (a worker or a
caller dies anywhere), `error` (any step of an attempt throws; the row of a
delivered job cannot be read, which is outside of every try block; the meter of
a cancelled review fails and is swallowed), `deny` (a job contradicts its row), `unproven` (the removal of the container is not
verified), `lostLock` (a live worker's job lock lapses), `lateUnwind` (a
deferred worker is still in its finally block when the job is delivered
again).  Without the last two, one worker at a time has a scan (`Exclusive`):
BullMQ's lock is renewed while the process lives, and five seconds pass before
a deferred job returns.

### The account's minutes (`CapacityFunding`)

`resv[r]` is a reservation with its receipt (`held` and `charge` by source),
`account` the billing row and the pool grants, `pack` the packs, `reading` what
a reservation has read inside its transaction.  Sources are numbered in draw
order: pool, packs by purchase, overage, grace.  `Draw` and `Trim` are the
code's two loops, `Available` what other reservations leave.

Every capacity transaction holds the account lock, so each is one action and
waits while another is under way (`Unlocked`).  `Reserve` and `Fund` are two
steps because the billing row and the balance are two reads: a renewal (`Renew`)
and whatever else takes another lock may come between them, and then `late`
notes in the row that it was funded in a cycle that had ended (history; nothing
reads it).  `FailScan` is the end of a scan outside of its job, by the failed
event of the queue or a denial of its authority: its reservation stays as and
where it is.  `Mishaps` says whether packs are refunded and expire.  `Stop`
stands for a confirmed stop and for the release of an unclaimed reservation,
which do the same to the minutes.

Bounds: `Last` reservations, `MaxCycle` cycles, `MaxResets` retries of any
one review, after which no other is retried either.
Abstracted: trials and plan changes, lower runtime limits at the claim,
accounts without a billing row, the price of overage.

### Provider events (`WebhookTracks`)

`receipt` is the WebhookEvent row and the answer to the provider; `row[t]` a
WebhookEventTrack (status, attempts, generation, owner and lease of the claim,
due time, operator recoveries); `job` the retry jobs in Redis by track and
generation; `proc[p]` the locals of a request or a retry worker; `timer` what
the sweep has read; `runs[t]` counts handler runs begun and failures recorded
(a history for the properties).  A request goes `Receive`, `EnsureRows`, then
for each required track `Claim` or `Skip`, `MarkSucceeded`, `MarkFailed` or
`MarkLost`, and `Acknowledge` or `Refuse`; a job goes `Deliver`, `Claim`, the
same ends, `Sync`, `Handoff`.  The sweep is `RecoverExpired`, `SweepReads`,
`SweepAdds`; an operator may `OperatorRetry` and `OperatorReview`.  Time is
`Ages`, `ComesDue`, `LeaseLapses`.  Mishaps: "crash", "query" (any query
fails), "handoff" (an add is lost), "stall" (a job loses its lock), "lease" (a
renewal fails until the lease lapses under a live handler), "clock".  An add of
an identity that Redis retains does nothing, also after its job has ended: that
is why generations exist.

### Licences (`LicenseKeys`)

`key` is the LicenseKey (status, retrieval token, used, raw key kept), `lic` the
License row (machineIds, and what its stored signature covers), `active` the
activations, `lock` the row lock of an activation; `mailed`, `buyer`, `desktop`
what the mail, the buyer and each machine hold; `proc` the locals of webhook
tracks, portal requests, readers and activating machines.  A file is what it
names and what its signature covers.  `StoreSignature` follows `ReadLicense` as
a step of its own: the code signs outside any transaction.
Abstracted: of what a file names only the machines change in the model.  Its
`perpetualFallbackBuild` is left out, so a file that `Open` rebuilds with a stored
signature is taken to agree with it there.  The code does not ensure that: a
track that lost the insert, and a retrieval that has to sign, sign the row's
value or else LICENSE_PUBLISHED_BUILD (`license-fulfillment.ts:555-558`, 659) and
do not store it, while the rebuilt file has the row's value or null (line 668).
With the variable empty when the licence was minted and set when it was signed
again the retrieved file would not verify; `RetrievedFileVerifies` says nothing
of this case.

### Schedules (`ScheduledReviews`)

`row[s]` is the Schedule, `poll[p]` a poll with the rows it read, `cursor[h]`
the module variable `dueScheduleCursor` of a process and each poll's `stale`
whether it was replaced under it; `scans` all scans created, `slot` the owners'.
A poll goes `Start`, `Read`, then per row `Admit`, `Disable` or `Unreadable`,
`Block` or `Claim`, `Enqueue`, on a refusal `Fail`, `Release`, `Restore`, and
`Passed`; it ends by `Finish`, `OutOfTime` or `Overtaken`.  `Unready` schedules
are deferred for ever, `Unsupported` ones have a cron the parser rejects.
Assumed: the budget of a poll lets it do at least one row; an edit has a
millisecond of its own; every schedule has a target of its own; deletion is
switching off; the workspace limit does not bind.

### Fix pull requests and loop closure

`approval[a]` are the AgentApproval rows for one patch, `record` the PullRequest
row of its execution key, `remote` the branch and pull request at GitHub,
`starts` the executions that began to write, `work[p]` the locals of a request.
A request goes `Ask`, `CreateApproval`, `Authorize` or is an `Approve`, then
`Claim`, `Begin`, `Check`, `CreateBranch`, `OpenPullRequest`, `RecordOpened`,
`Settle`; from anywhere after the claim `Catch`, `Fail`; whoever is not the
owner takes `Inspect`, `Persist`.  A call that fails may have had its effect.
`hook` is GitHub's delivery and the marker, `closure` the LoopClosure row,
`retest` the automatic retest with its scan and job, `rival` another retest of
the finding, `task[h]` a webhook request or a sweep: `Receive`, `Mark` (or
`SweepRead`, `SweepClaim`), `RecordMerge`, `AssertWorker`, `CreateRetest`,
`Enqueue`, `CloseLoop`; `Defer`, `Unmark` or `Retry` when something fails.
The finding, its proposal, its scan or target, or the workspace's last owner may
be gone by the time `RecordMerge` and `CreateRetest` look for them
(`FoundGone`, remembered in `gone`): then a webhook request has nothing to do, and
a sweep completes the closure without a retest.
Abstracted: a record that is final is told without the read of GitHub that the
code still makes for a closed or merged one (it can change nothing); that the
owner has a review of his own is a choice of `CreateRetest`; other deferrable
refusals are the mishap "refused"; the base branch moves only before the first
write (later moves are never read); the reconciler's five minutes outlast an
enqueue under way.

### What is abstracted in `ScanLifecycle`

What is analysed, found and scored; how many minutes a reservation
is funded with (a reservation attempt is funded or told to wait); the content
of manifest and receipt (the sealed outcome, whether there is a receipt);
legacy scans without slot and reservation (accountingVersion other than 2);
time (grace periods, backoff and delays become the order of actions).

## 3. Runs

| run | instance | shows |
|---|---|---|
| `scan_recovery` | 1 engine scan, 2 workers, 2 attempts, 1 stall; crash, error, deny, unproven | the safety of payment, stop and status, the refinement of `ReviewSlot`, and that every admitted scan ends (38,358 states) |
| `scan_progress` | 1 scan, 1 worker, 2 stalls; crash, unproven | a recorded stop frees the slot through redeliveries |
| `scan_release` | 2 scans of one user (engine, deterministic), 1 worker; unproven | slot and accounting agree as it is handed on; a scan ended before its claim gives the slot back |
| `capacity_funding` | a standard and a Deep review of 2 minutes, pool 3, one pack of 2, grace 1 or overage 0 to 1, monthly and annual, 2 cycles, 1 retry, refunds, expiry, scans that fail, renewals at any time | no minute of a cycle is promised or spent twice; what a waiting review waits for (427,986 states) |
| `webhook_tracks` | a minute pack (replay safe) and an entitlement change (not), 1 request and 1 worker at a time, 2 attempts, 1 recovery, any one mishap | acknowledgement, replay, budget, the refinement of `TrackLedger`, every track ends (173,784 states) |
| `license_keys` | 1 track, 1 portal request, 1 reader, 2 machines, cap 1, 2 tries, 2 mishaps | delivery, retrieval, cap, files; the order is settled (882,715 states) |
| `schedule_claims` | 1 schedule edited at will, 2 polls in 2 processes, 2 ticks, 2 mishaps | one review per occurrence; with two polls, current settings |
| `schedule_cursor` | 4 schedules (one deferred for ever, one unsupported), page 2, 2 overlapping polls of one process, 2 mishaps | no due schedule starves |
| `fix_loop` | 2 approvals (one by a credential), 2 requests, 2 deliveries or sweeps, 2 at once, 3 attempts, any one mishap | GitHub written once, record and GitHub agree, one retest, a deferred closure is resolved (981,397 states) |
| `parked_review`, `second_machine`, `lost_retest` | see section 5 | disagreements of code and text |

Why the bounds are enough.  One scan and two workers let a redelivered attempt
overlap with the leavings of the first; two attempts and one stall give a
retry, a redelivery and their exhaustion; two scans of one user are what a slot
is about.  In the account, five minutes over a pool of three with a multiplier
of three leave a tail over several sources, and two cycles let a review outlive
its own.  A track with two attempts is retried, exhausted and recovered; events
with several required tracks are outside the run's reach (1.7 million states
without liveness) and are what the theorems of section 6 cover.  A cap of one
makes two machines race for it.  Two pages of two rows let a cursor pass, wrap
and be overtaken.  Two approvals with two requests are the least that can fork
an execution; three attempts (the code has five) exhaust a closure after a
lease that lapsed.  Counters without a bound in the code (`mishaps`, `MaxTime`,
`MaxCycle`, `MaxResets`, `MaxBusy`) are named constants of the instances.

`CHECK_DEADLOCK FALSE` everywhere: each system rests when nobody asks anything
of it.  Symmetry is not used: liveness is checked, or the elements differ.

### Fairness

`ScanSafety`: `Scheduling` (weak) says that a living worker takes its next step,
that BullMQ delivers and looks for stalled jobs (`stalledInterval`), that the
failed event fires, that the reconciler comes round (its timer, unconditional at
startup), and that a request that lives finishes.  Nothing is assumed of users,
of containers, or of the order of anything.  `Funding` (strong) says that an
attempt that keeps asking for capacity is funded in the end; it is what
`WaiterIsFunded` shows, but for the cases that property excepts.  In those, and
without the assumption, a scan may wait for ever ("Waiting for account review
capacity").

`CapacityFunding`: the owner of the lock ends its transaction (weak); a waiting
review whose scan is still to run asks again every few seconds, a funded one asks
to start, and the lock passes on (strong: PostgreSQL queues the waiters of a
lock).  A failed scan asks for nothing, a running one need not end, and cycles
need not renew.

`WebhookTracks`: executors go on and jobs are delivered, time passes, expired
claims are recovered (weak); the hourly sweep reads a row that is due again and
again (strong, as the sweep works through every due row), and adds it.  Nothing
is asked of the provider or of an operator; `AttendedSpec`, which `parked_review`
uses, adds the operator.  A handler that never returns is not considered: it
renews its lease for ever (`webhook-tracks.ts:217`).

`LicenseKeys`: the track of an event is run again while it has tries, as
`WebhookTracks` does with it.  `ScheduledReviews`: every process polls (its
timer), a poll goes on, published scans end and unpublished ones are
reconciled.  `LoopClosure`: webhook requests and sweeps run, GitHub delivers
once, the sweep and the scan worker keep their timers; nobody has to ask,
approve, merge or redeliver.

### Sensitivity

Every property of a passing run has a mutant: a definition of the module
replaced by a plausible mistake, its `Slip...` or `Swap...` twin, under which TLC
finds the property violated.  They are listed in `PROJECT.json`, "mutants".

## 4. Properties

Reviews:

* `SlotIsUnsettledScan`, `SettledIsFinal`, `SlotCoversExecution`: the slot, the
  accounting stamp and the container agree, over all five places that release.
* `NoPaidReplay`, `ResetNeverAfterProvider`: no crash, retry or redelivery
  executes a scan twice or forgets that it was executed.
* `ChargeMatchesOutcome`, `SettlementBeforeRelease`: a charge is for the sealed
  outcome, a failed scan is free, uncertain money is held.
* `TerminalIsFinal`: races of the user, the worker and the reconciler on the
  status.  `EveryScanEnds`, `StopFreesSlot`, `UnclaimedIsReleased`: what must
  happen.  `ImplementsReviewSlot`: the whole as `ReviewSlot`.

The account:

* `AllowanceCovered`, `PacksCovered`: a minute of a cycle's pool, of a pack, of
  overage or grace is promised to one review only, over claims, retries and
  renewals; a review that a renewal overtakes while it reserves may be lent the new
  cycle's pool too, which is all that `AllowanceCovered` grants it (section 5).
  `CheapestFirst`: paid for from the cheapest source.
* `ReviewFreezes`, `WaiterIsFunded`: uncertain money stops new funding.  A review
  waits for ever only then, or when the account has too little to give, or behind
  a waiting review whose scan has failed: that row stays the oldest of the line
  and no capacity call takes it out (`capacity.ts:120-124`).

Provider events:

* `AckMeansResolved`: 200, and the processed flag, only after every required
  track.  `NoBlindReplay`: an effect that may have happened is not repeated.
  `AttemptBudget`: no redelivery or retry extends the budget.
* `EveryTrackEnds`: succeeded or parked, without the provider or an operator.
  `ImplementsLedger`: the whole as `TrackLedger`.

Licences:

* `SuccessMeansMailed`, `OrderIsSettled`: winner and loser of the race to mint
  neither claim the other's delivery nor wait for it.
* `CapHolds`, `FileNamesMachine`, `RetrievedFileVerifies`: activations that race,
  and signatures computed outside their transaction.

Schedules: `OccurrenceRunsOnce`, `EveryDueIsServed`, and for two polls at a time
`CurrentSettings`: an edit between the read of a row and its claim is not lost.
Of three polls it is false (section 6).

Fixes:

* `OneExecution`, `RecordMatchesRemote`: one writer per patch, and a record that
  is never wrong about GitHub, whatever fails after its effect.
* `OneRetest`, `DeferredIsResolved`: one retest per merge, and no deferred
  closure forgotten while there is something to test.

## 5. Where text and code differ

Each of the first three has a run that TLC must find violated:

* `parked_review` (`ParkedIsReviewed`): the operator's disposition of a parked
  track writes `completedAt` without quotes
  (`disposition-handler.ts:187`); PostgreSQL looks for completedat, the
  statement fails and the track stays where it is, while
  `docs/operations.md:376` says it moves to `reviewed`.  The constant
  `ReviewApplies` is FALSE for the code as it is; `webhook_tracks` has it TRUE,
  so that the intended action is checked too, and the theorems hold for both.
* `second_machine` (`ActiveMachineKeepsLicense`): activating a second machine
  re-signs the licence with longer machineIds and overwrites the one stored
  signature; the first machine's next check answers LICENSE_MISMATCH and the
  desktop clears its licence, while `PRD.md:314` sells "up to three machines".
* `lost_retest` (`MergeIsFollowed`): the owner's own active review refuses the
  retest with an error `classifyLoopClosureError` does not know; the merge is
  recorded, the marker deleted, and neither retest nor closure follows,
  while `github/route.ts:249-251` lists "active scan" among the deferrable
  failures.

Of the fourth the run shows what the code does instead:

* `webhook_tracks` (`AckMeansResolved`): the comments of `billing/webhook/route.ts`
  say that a simultaneous duplicate answers 200 without side effects (46-47) and
  that a young unprocessed event is skipped with 200 (65-66).  The code answers
  503 WEBHOOK_PROCESSING_PENDING (385-390), and rightly: after a 200 the provider
  would not deliver again if the first request then fails.  `Receive` is the
  code's answer; with the comments' the property would be violated.

Others were met while modelling and are listed under "hazards", with what the
model says of them:

* An exception after the manifest fails a COMPLETED result in the same attempt
  (`run-scan.job.ts:743`); `pending-finalization.ts:25` says it is resumed.
  It is, but only when a redelivery finds it.
* A cancellation between the billable boundary and the container
  (`engine/runner.ts:143`) leaves no stop proof; the slot is held although
  nothing ran.
* The faults `lateUnwind` (a deferred attempt whose finally block outlasts the
  five seconds, `capacity-lifecycle.ts:119`) and `lostLock` (an attempt that
  outlived its lock, `capacity.ts:408`) are in `ScanLifecycle` and in none of
  its runs.  With the first `SlotCoversExecution` is violated, with the second
  `ResetNeverAfterProvider`; the code relies on time for both.
* A renewal inside a reservation lends it two pools: subscriptions and
  reservations lock different keys (`account:`, `capacity.ts:55`; `billing:`,
  `sync.ts:180`), so one may come between the read of the billing row and that of
  the balance (`capacity.ts:125`, 130).  The review is of the old cycle and holds
  the new pool as well, and the new cycle's reviews do not see it, as they count
  the reservations of their own cycle only (`capacity.ts:135`); `PRD.md:304` says
  "Reservation excludes capacity held by concurrent sponsored scans".  The model
  has it and `AllowanceCovered` makes the exception; TLC refutes the property
  without the exception (create, stop, create, reserve, renew, fund).
* A scan that is failed outside of its job keeps its waiting reservation, behind
  which nobody of the account is funded (`FailScan`; `WaiterIsFunded` has it as
  the exception `DeadInFront`).
* A renewal clears `graceCycleStart`, and null counts as "not later"
  (`capacity.ts:271`): an old review's grace uses up the new cycle's counter.
* `Replenish` grants an annual account the pool of a new cycle without
  `resetGrace` (`billing-allowance-replenishment.job.ts:126`), so it has the
  grace of one cycle for a whole term.

## 6. Proofs

Every theorem is for any size of the instance (users, workers, executors,
machines, schedules, approvals), any bounds and any set of mishaps, from the
assumptions on the constants the modules declare; TLC evaluates those in every
run.  One name stands before some theorems as a hypothesis, and it is the
hypothesis of the runs as well: `Exclusive` (no two attempts of one scan overlap:
neither `lostLock` nor `lateUnwind` is among the faults).  Without it the
properties are false, see the end of section 5; crashes, errors, contradicting
jobs, unproven removals, refunds, expiries and renewals at any time stay in.

`ScanProofs`
* `TypeCorrect`: `Spec => []TypeOK`.  Not inductive alone: an acknowledged
  failure counts up the attempts, and only the fact that a deliverable job has
  one left keeps it in bounds; and the state of an absent scan must be known
  for its admission.  `BaseInv` adds `JobBounds` and `AbsentIsUntouched`.
* `TerminalStaysTerminal`: `Spec => TerminalIsFinal`.  One lemma per way of
  writing the status, and one case per action that writes it.
* `SlotCorrect`: `Spec => []SlotIsUnsettledScan`.  Most steps leave slot and
  stamp alone (`KeepsByCap`); admission and the two releases are the cases.

`ExecutionProofs`, under `Exclusive`: the paid part of the lifecycle.
* `PaidOnce`, `ExecutionCovered`, `SettledStays`, `ChargeIsForOutcome`,
  `PaidBeforeReleased`: the five invariants of `scan_recovery`.
  `ResetBeforeProvider`: the action property `ResetNeverAfterProvider`.
  `LifecycleRefines`: `Spec => ImplementsReviewSlot`, under safety alone.
* None is inductive.  What they have in common is `SafeInv`, which adds
  `SlotIsUnsettledScan`, `EngineEntered` and `ExecutionInv` to `BaseInv`; TLC checks it on the
  instance of `scan_recovery`.  `ExecutionInv` has three parts: at most one
  worker has a scan (`OneAttempt`); how a scan's row, reservation, containers
  and executions fit together (`ScanFacts`); and what the attempt that has it
  may rely on at its step, its locals being older than the rows
  (`AttemptFacts`).  Its heart is `Unspent`: as long as the reservation is
  unclaimed, and as long as neither `recovering` nor `billable` is set in the
  attempt, no boundary was passed and nothing ran.  That is why a reset by a
  catch block is safe although it looks at its own locals only.  An
  attempt whose engine has returned crossed the boundary before
  (`EngineEntered`), so what its timeout and its late failures find is a claimed
  reservation.
* The facts are predicates over values (a row, a reservation, locals), so a step
  is shown to keep them by what it does to one scan (`OutsideSafe`, for the
  steps of callers and reconciler) or to one attempt.

`MinuteSums`: what the sums, `Draw` and `Trim` of `CapacityFunding` compute, for
every finite set.  The sums are folds whose order is left open.  The prover has
no induction over data, but a nonempty collection of subsets of a finite set
has a smallest member (`Smallest`, from the library's well-founded orders): a
claim about sums that fails fails for a smallest set, and there one step of the
fold refutes it.  From it come splitting, bounding and comparing of sums;
`Draw` takes no more of a source than it has and nothing of a dearer one before
the cheaper ones are used up; `Trim` gives back the dearer minutes first.

`FundingProofs`: the account's minutes.
* `FundingTypes`, `PacksHold` (`[]PacksCovered`), `ReviewsFreeze`
  (`ReviewFreezes`), `AllowanceHolds` (`[]AllowanceCovered`), `DrawsCheapestFirst`
  (`CheapestFirst`): under every mishap and without a hypothesis.
* `RowsInv` carries the types: only a settlement charges, so a row that is
  written anew has no charge to lose (`ChargedIsSettled`); nothing is of a cycle
  that has not begun (`CyclesPast`); and what `Reserve` tested still holds when
  `Fund` writes, because everyone else waits for the account lock
  (`ReadingFirm`).
* `PacksInv` adds that nobody holds minutes of a pack that is not sold yet
  (`UnsoldIsUnheld`): otherwise a purchase, which fills the pack, could not
  cover what is held.  A refund or expiry leaves the pack no longer valid, which
  is where the property stops promising.
* `AllowInv` adds two facts about grace, whose counter `Available` subtracts
  instead of the receipts: the counter has at least what the current cycle
  charged (`GraceCounted`), and what a reservation has read of it covers what
  the cycle that it will fund has charged, whatever a renewal does to the counter
  in the meantime (`ReadingKept`; its lock keeps settlements out).  Then what is
  used of a cycle after a reservation is what the others use plus at most what
  `Available` left (`FundedWithin`).  The pool of one cycle is the sum over the
  rows that are not `late` (`Timely`), for which `Available` counted that cycle's
  grant alone; a late row leaves this sum as it was (`TimelyLess`).

`WebhookProofs`: `WebhookTypes`, `WebhookReplay`, `WebhookBudget`, `WebhookAck`
and the refinement `WebhookRefines`.  The invariant says that the rows of an
event are created together and before anything is claimed (`RowsTogether`:
without it a 200 could overlook a track), that of an unsafe track every run
but the last is recorded as failed (`RunsRecorded`), and that runs are counted
in the row (`RunsCounted`).  `RowMoves` has what any step does to one row;
every other lemma reads it.  For the refinement each step changes the fate of
at most one track (`OneRowRefines`), except the creation of the rows
(`EnsureRefines`) and the answer (`AnswerRefines`).

`LicenseProofs`: `LicenseTypes`, `LicenseDelivery`, `LicenseFile`,
`LicenseCap`, `LicenseNames`.  Four independent parts: nobody mails before the
licence is signed (`SignedFirst`); until the buyer has the key nothing is
active, so all signatures are of the empty set (`KeyFirst`); the row lock
covers count and commit (`Locked`); what a machine signs for names it, because
activations are only added (`Named`).

`ScheduleProofs`: `ScheduleTypes`, `ScheduleOnce`.  The invariant: what a poll
has read was due when it started (`ReadInTime`), a poll works on the scan of the
occurrence it took (`HoldsItsScan`), a row's occurrence lies behind every scan
that has not failed (`RowIsAhead`), and the scans of a schedule are in order
(`InOrder`).  `Restore`, which moves a row back, is the step that needs all
four: it applies only while its scan is the newest and has failed.

`FixLoopProofs`: `FixTypes`, `FixOnce`, `FixRecord`, `FixRetest`.  The
invariant ties an execution under way to the row that its unique key made it
own: everyone is at a place with an approval that is claimed (`AllPlaced`), at
most one request owns the record (`OneOwner`), what was written at GitHub is
noted by the owner or by the record (`Written`), and the retest follows a
recorded merge (`Followed`).  `Puts`, `Gives` and `Turns` say what a step does
to one request, approval or task, so that the cases need no function updates.

Only model-checked:
* The liveness properties (`StopFreesSlot`, `UnclaimedIsReleased`,
  `EveryScanEnds`, `WaiterIsFunded`, `EveryTrackEnds`, `OrderIsSettled`,
  `EveryDueIsServed`, `DeferredIsResolved`): fairness and ENABLED are beyond the
  prover.
* `CurrentSettings`, which is not a theorem: it holds for the two polls of
  `schedule_claims`, and TLC refutes it for three (queue failures, MaxTime 2).
  A claim stamps `updatedAt` with the start of its poll
  (`schedule-service.ts:233`), not with the time of the write.  Polls 1 and 2
  start in the same instant; poll 1 claims and cannot publish; poll 3 reads the
  row as claimed; poll 1 restores the occurrence; the owner edits the
  mode; poll 2 claims with the new mode and writes the same stamp and the same
  next occurrence once more.  The row now has the keys of poll 3's old copy,
  and when poll 2's scan is cancelled and the occurrence is due, poll 3
  creates a scan of the old mode.  Two processes have to start a poll in the
  same millisecond (an instant of the model), and a third poll has to stay within
  one row while a whole interval of the cron expression passes; the budget of 15
  seconds (`schedules.ts:77`) is tested between rows and does not exclude it, but
  it is remote.  It is listed under "hazards" (`schedule-service.ts:207`).

## 7. Plan

Modelled so far, in this order: the review's lifecycle, the account's minutes,
provider events, licences, schedules, fix pull requests and their loop closure.
Next:

1. `ReleaseGate` (`gate-evaluation-service.ts`): the verdict as operators
   against a reference definition, and overrides against evaluation.
2. `ReconciliationLease`: the Redis lease of the reconciler and the bounded
   queue connection, composed with `ScanLifecycle` for two reconcilers.
3. Agent operations with idempotency keys; retryable approvals of the other
   actions.
4. Account deletion, affiliate commissions and payouts, the audit chain.

Proofs: every invariant and action property of the passing runs but
`CurrentSettings` is a theorem.  Left: `CurrentSettings` under the assumption that no
poll outlives an occurrence, which the model would have to name first; and the
safety of the modules above, as they come.

## 8. Not modelled

The components marked so in `PROJECT.json`: provider clients and catalogs (I/O
and signatures), scanners and triage (analysis of source, without shared
state), scoring, reports and rendering (layout over stored rows), row level
security (enforced by PostgreSQL, no state of its own), the desktop application
but for its licence check (a separate program), clients, sites and content:
these are most of the repository's lines, and have no protocol to check.  Of the
modelled parts: `removeScan`, legacy scans (accountingVersion other than 2),
the engine itself; what the track handlers write; renewal of updates, token
expiry, offline grace and revocation of licences; generation and validation of
patches, pull requests of before execution keys; notifications.
