# Clustarr: TLA+ models, checks and proofs

Clustarr is a Kubernetes media manager. A single elected manager runs
level-triggered passes over its custom resources (the remediation loop), and
hands slow work to agents through NATS JetStream: it writes a *dispatch* into
an object's status, a *record* into a key-value bucket, and a *task* into a
work stream; a worker claims the record, does the work and answers. Everything
hard in the program is in that triangle: three stores with no transaction
between them, workers that are redelivered, fenced or lost, a loop that may
fail or die after any single write, and in-memory books of what is
outstanding that a new leader must rebuild.

This directory models that triangle. Every definition is a translation of code
under `src/`; `PROJECT.json` ("map") names the lines of each.

| module | what it models | lines of code in |
|---|---|---|
| `RecordRules` | the pure rules of a record: may this be requested, withdrawn, claimed, deferred, answered | `pkg/records` |
| `RecordLife` | the abstract life of a record: what `pkg/records` promises, without readers, revisions or workers | `pkg/records` |
| `Records` | one record key under every interleaving of read and compare-and-swap | `pkg/records` |
| `TranscodeDispatch` | one file's transcode dispatches from plan to swap: loop, record, lease, stream, workers | `app/transcode/{transcodeplan,task,worker}`, `app/remediation` |
| `TranscodeLease` | the lease of one dispatch in time: ticker, calls, fence, reassert, rename | `app/transcode/worker/lease.go` |
| `SearchLedger` | the dispatch ledger of the automatic searches and the item passes that use it | `app/dispatch`, `app/catalog/searchplan`, `app/remediation` |
| `TranscodeAdmission` | the manager's ledger of files and grants of slots, its rebuild and resync, the passes that use it | `app/transcode/admission`, `app/remediation` |
| `UsenetGrants` | the connections of a usenet account, shared by compare-and-swap between engine pods | `pkg/download/usenet`, its `kvledger` |
| `RecordsProofs`, `TranscodeDispatchProofs`, `TranscodeLeaseProofs`, `SearchLedgerProofs`, `TranscodeAdmissionProofs`, `UsenetGrantsProofs` | theorems about the module each is named after | |
| `MC*` | symmetry sets for TLC; each run's constants are in its `.cfg` | |

`TranscodeDispatch` extends `RecordRules` and so uses exactly the record rules
`Records` verifies: an operation that retries a lost compare-and-swap is a
single step there, which `Records` (where read and write are separate steps)
justifies. Both implement `RecordLife`, so what holds of a record's life holds
of either. `TranscodeLease` takes the lease of `TranscodeDispatch` apart into
calls, replies and durations; `TranscodeAdmission` is where the dispatch grants
come from that `TranscodeDispatch` takes as given.

## Inventory

### The record protocol (`pkg/records`)

*State.* One key per object in a NATS bucket: `{seq, state, fact}` with a
revision; states requested, withdrawn, claimed, deferred, answered, failed. A
*fact* is an answer that says something already changed on disk. A TTL retires
the value.
*Operations.* The loop: `Get`, `Request` (one write at the gathered revision),
`Withdraw` (read and write, retried). A worker: `Claim`, `Defer`, `Answer`, each
read, decide, compare-and-swap, up to `CASAttempts`.
*Hard.* Every operation decides on a value that may be gone when it writes; two
deliveries of a task; an answer racing a withdrawal; a value retired in between.
*Correct when.* The seq never falls, the first answer stands, one first
delivery claims, a fact the loop has not seen is never overwritten, nobody
starts on a closed dispatch.

### Transcode: planner, loop, withdrawal, worker

*State.* `status.transcode` of a MediaFile (phase, dispatch seq, answered seq,
withdrawing) in the API server; the pass under way; the record; the lease
(holder or cancel marker); the stream's tasks, its Duplicates window and dead
letters; the file on disk; `Ledger.WithdrawFailed` in the manager's memory; the
workers.
*Operations.* A pass gathers, plans one row, applies the status, and then runs
the owed effects in order (request, publish; or withdraw: record, lease,
purge), stopping at the first failure. A worker checks whether its output is
already there, takes the lease, claims the record, encodes while renewing,
reasserts the lease, renames, answers, acks.
*Interactions.* Only through the stores: there is no call between manager and
worker.
*Hard.* A failure or a crash between any two effects; redelivery while the first
worker lives; a lease that lapses under its holder; a worker that dies between
rename and answer; a late fact of a withdrawn dispatch.
*Correct when.* One worker of a dispatch renames; none of a closed dispatch
does; no task without its request; a fact is incorporated, once, and not
overwritten; every dispatch is closed in the end.

### The lease in time (`worker/lease.go`)

*State.* The bucket entry with its remaining TTL; per pod the revision it
believes in, the renewal call under way, the time since its last good renewal,
the ticker.
*Hard.* A call takes effect at any moment before it returns, and its reply may
be lost; the fence is checked only on a ticker's turn; an adopted write is
older than the pod thinks.
*Correct when.* One pod at a time stands between reassert and rename, and a pod
that cannot renew stops before another can claim.

### The dispatch ledger and the item pass (`app/dispatch`, `searchplan`)

*State.* Per item the `searchDispatch` in status and the informer's copy of it;
in the leader's memory a book of slots (reservations and published dispatches)
bounded by twice the consumer's MaxAckPending, the redownloads waiting first in
line, and the goroutine that rebuilds and audits.
*Operations.* `Admit`/`AdmitFirst`, `Published`, `Answered`, `Holds`,
`ForgetGone`, the lapse of a reservation, `rebuild` and `audit`; the pass: plan
from the cache, apply at the version read, then tell the ledger.
*Hard.* A stale cache asks for a slot over a dispatch in flight; effects lost
after the apply; the rebuild and the audit read status without the lock and
write later; a slot never lapses, so a lost answer would hold it for good.
*Correct when.* The book stays in its budget, a dispatch in flight keeps its
slot, a closed one loses it, and routine searches do not starve redownloads.

### Transcode admission (`app/transcode/admission`)

*State.* In the leader's memory: an entry per file (seq and phase of the newest
view), the grants (a place in the window, a dispatch slot; in use or expiring),
whether the first quorum read has landed. In the API server the files' statuses;
in the informer's cache older copies of them.
*Operations.* `Observe`, `Forget`, `TakeGrant`, `Confirm`, `Release`,
`ReleaseUnconfirmed`; the admission pass; `Rebuild` and, every five minutes,
`Resync` (one quorum list per phase, re-reads of entries no list returned, a scan
of the cache).
*Interactions.* The loop's pass takes a grant, applies a status by
compare-and-swap, hands the ledger the status it stored (or, when nothing
changed, the one it read) and gives the grant back.
*Hard.* Views arrive from three sources in any order; an apply lands although its
call failed; a new leader counts files while they move from one phase to the
next; a memo hides a stale cache for 30 seconds only.
*Correct when.* No more files are in flight than there are slots, and no stale
view frees a slot.

### Usenet connection grants (`pkg/download/usenet`, `kvledger`)

*State.* One entry per account in a bucket: holders, connections, expiries. Per
pod the grants it renews; per transfer its grant, which bounds its fetches.
*Operations.* `Take`, `Give`, `Renew`, each a read, a pruning of what expired by
the pod's own clock, a decision and a compare-and-swap that decides again when
the entry moved; `ensureGrant`, `giveGrant`, `renewLoop`, `dropGrant` in the
client.
*Hard.* The three run side by side for one transfer; a pod's clock may be ahead
of the one that wrote an expiry; a failed call may have been stored; a pod dies
with grants in the entry.
*Correct when.* The grants never add up to more than the account has, the
transfers fetch over no more, a transfer whose grant is gone stops, and
connections nobody uses return.

### Parts not modelled yet, or not worth it

| part | state and operations | why not (yet) |
|---|---|---|
| `app/intake` | inbox of parked candidates and their waiting handlers; `park`, `Take`, `Settle`, `drop` | would be a module of its own; next in the plan |
| `pkg/presence`, delivery book and attendance of `app/dispatch` | TTL'd presence keys; what makes a durable unattended | planned with `SearchLedger` |
| `app/caption/throttle` | token bucket shared by compare-and-swap | the same shape as `UsenetGrants`, with less at stake |
| `pkg/records` pacer | schedule of retries of one key | arithmetic on a handful of counters |
| `app/transcode/{graftplan,grafttask}` | a second record on the same file, joined to a transcode | planned as an extension of `TranscodeDispatch` |
| `app/grab`, `app/import` | lifecycle of a download and its import | planned: the lifecycle, not the engines |
| the other planners of `app/remediation` | the same loop and records as the transcode's | their record protocol is `Records` |
| `app/transcode/{controller,jobspec,manager}` | Jobs reconciled from profiles | only pods coming and going matters, which the models allow |
| `pkg/events` | wrapper of JetStream and an in-memory double | its guarantees are the assumptions listed below |
| `pkg/ratelimit` | limiter, backoff, breaker | the breaker has no user in the program at present |
| `pkg/{decision,quality,release,naming,...}` | pure functions on names and qualities | parsing; table tests |
| `app/{catalog,indexer,segments,livetv,maintenance,autoscale}`, `ui`, `cmd`, `api`, charts | controllers that copy remote data, HTTP, media analysis, wiring, generated code | I/O |

The program is large (over 400,000 lines) and most of it is generated types, a web
front end, parsers and clients; what is modelled is a small share of the lines and
most of the code in which two actors can meet.

## How the models correspond to the code

**Records.** `LoopGet`/`Request`/`Withdraw`/`Incorporate` are the loop's calls,
`Read`/`Write`/`Raced` one attempt of a worker's operation; a write lands when
the revision is the one read (`Unraced`). `Retire` is the bucket's TTL,
`LoopRestart` and `WorkerCrash` lose memory. The pass's other state is
`status`: the seq issued, closed and incorporated.

**TranscodeDispatch.** One action per planner row (`Plan`'s disjuncts follow the
order of `planInFlight` and `planDispatch`), each with the apply of its status,
and one per effect; `PassFails` is an effect that fails, `ManagerCrash` a
manager that dies. Worker actions follow `handle`, `claim`, `renew`,
`reassertBeforeSwap` and `settleFact`. `Finish` follows a rename, one's own or one
`alreadySwappedOrChanged` finds done; a rename that fails is answered as retriable.
Once `Process` has returned nothing renews the lease (`Leased`), and it may lapse
while `settleFact` still retries. Eligibility and what a plan says of the streams are
a nondeterministic choice. `seen` is a history variable: the highest dispatch whose
fact was incorporated, and the highest given up as lost.

**TranscodeLease.** A renewal is `SendRenewal`, then possibly `ServeRenewal` (the
server applies or refuses it), then `RenewalOK`, or `RenewalMissed` and
`Disambiguate` (adopt one's own write, or stop), or `RenewalFails`. `Reassert` goes on
with its update stored, or with one that was lost while the lease it then reads is its
own, which refreshes nothing. `Tick` lets one unit pass and is disabled when a limit (call, setup, swap) would be broken.

**SearchLedger.** `PlanInFlight`, `PlanNothing`, `PlanSearch`, `PassGone` are the
rows of `Decide` with the ledger's answer; `Apply` is the status write at the
version read and `Effects` what it owes. `ApplyCut` and `PublishFails` lose
effects. `RebuildList`/`RebuildInstall` and `AuditRead`/`AuditDrop` are the two
halves of `rebuild` and `audit`, with passes in between. A pass whose cached dispatch
was followed by another that is over already does not find its own record (`Outlived`):
it publishes the old dispatch again, unless it timed out. A key's stacked
reservations are abstracted to the newest.

**RecordLife.** The record, the seqs issued and incorporated, and one action per
promise: `Request`, `Withdraw`, `Progress` (claim or defer), `Answer`, `Retire`,
`Issue`, `Take` (the loop incorporates an answer), `GiveUp` (where `Loses`: the
transcode's loop stops waiting for a worker that is gone). `Records!ImplementsLife` maps the
loop's memory to the status (`issued`, `taken`); reads, deliveries, lost races and
crashes are stutters. `TranscodeDispatch!ImplementsLife` does the same with the
transcode's planner, which differs in one promise: its withdrawals do not heed a
fact of an earlier dispatch (`Heeds`).

**TranscodeAdmission.** A pass is `TakeGrant`, then `Apply` (the status's
compare-and-swap with what the planner made of the cached phase, `Plans`), then
`Observe` with the effects; or `Aborts`, or `ApplyLost` (stored, but the call
failed). `Quiet` is a pass that changes nothing and hands the ledger what it read,
`PassGone` one that finds the file gone. Passes of one file do not overlap and only
they write its status, so what lies between the take and the apply is one step with
the apply. `ListPhase`, `CorrectUnseen` and `ScanBacklog` read, `ObserveRead`
observes what was read, with passes between the two, and `MarkRebuilt` opens
admission. Which file wins a slot is open.

**UsenetGrants.** Each holder has a take, a give and a renewal that may all be under
way; each is a read with its decision (`TakeRead`, `GiveRead`, `RenewRead`) and a
`Write` that sends every other operation back to its read (`Behind`). What a take
stored becomes what the pod renews under the ledger's lock (`TakeRemember`) and what
the transfer uses under the job's (`TakeSet`); a renewal that finds its grant gone
undoes the two in steps of its own (`RenewForget`, `RenewDrop`), and any of them may
come between the others. A grant's expiry is one of fresh, late (another pod's clock may already prune it) and expired
for all. `mine` is what the pod renews, `grant` what bounds the transfer's fetches.
`crossed` is a history variable: the transfers that asked while their give was under
way.

## Assumptions

On the outside world:

- JetStream delivers at least once, drops a republish with the same Msg-Id
  within the Duplicates window, and gives a key-value update at a revision to
  one writer. A call returns within 5 s; one that timed out is applied before
  that or never.
- A rename is atomic. No pod is paused between its reassert and its rename for
  longer than `Swap` (a hazard listed without a property: no check in the code
  can close it).

On time, where a model without clocks needs it:

- `TranscodeDispatch`: from a delivery to the lease, or to the found fact, takes
  less than AckWait (`Settling`), so a task is not redelivered or dead-lettered
  in that stretch. Until `Process` returns, a lease lapses only without a live holder
  (`Lapse`): `TranscodeLease` shows when that is so, and that the deployed intervals do
  not quite give it. After that it may lapse at any time. A swap of an older dispatch is over before a newer one's encode
  is (`SwapOutrunsEncode`).
- `TranscodeLease`: `Swap <= Encode`, `Setup < TTL`.
- `SearchLedger`: a pass that reserved a slot comes to its publish within
  ReservationTTL (60 s); no informer is AuditAge (20 min) behind; a new leader's
  cache has caught up with its predecessor's last write when it has the lease.
- `TranscodeAdmission`: a deposed leader has no apply in flight when the next one
  starts its rebuild. Informers may be behind by any amount: the 30 s memo of
  `keystate.go` is taken to have lapsed.
- `UsenetGrants`: a pod that holds a grant renews it, and a `Take` is answered,
  well within the 90 s of its expiry unless a call fails (`Late`, `Missed`); clocks
  differ by less than a renewal interval. `Crossing` names the transfers that may ask
  while their give is under way; run `usenet` takes it as one of its troubles.

Left out of the modules above: `replaceSource=false` and outputs elsewhere with
their crash matrix, `fileMissingSwap` and `recoverSwap`, the informer's stale
views in `TranscodeDispatch`, graft joins, the fact window's expiry, a record's
retirement in `TranscodeDispatch` (it is in `Records`); wakes, attendance, the
delivery book, attempts and backoff in `SearchLedger`; grafts, classes, reroutes,
wait reasons and the task sweep in `TranscodeAdmission`, which has one profile that
stays (a file in flight whose profile or pool is gone or recreated holds no slot,
`pass.go:216`) and in which a deleted file does not come back under a new UID
(`ledger.go:145-147`); chase grants, several
accounts, and a fetch still under way when its limiter closes in `UsenetGrants`.

## Runs

All runs: `tlc -workers 2 -config X.cfg M`. Workers and keys are symmetric.

| run | instance | checks | result |
|---|---|---|---|
| `records` | 2 workers, 2 dispatches, 5 writes, 2 CAS attempts | `TypeOK`, `FirstClaimUnique`, `SeqNeverDecreases`, `FirstAnswerStands`, `FactStays`, `ClosedNeverStarts`, `ImplementsLife` | pass, 2.9 M states |
| `dispatch` | 2 workers, 2 dispatches, 2 faults | `TypeOK`, `SwapExclusive`, `TaskFollowsRequest`, `ClosedNeverSwaps`, `RequestNeverOverFact`, `ImplementsLife` | pass, 2.5 M |
| `dispatch_live` | 1 worker, 2 dispatches, 1 fault, 1 manager crash | `DispatchCloses` | pass, 0.21 M |
| `dispatch_fact_twice` | 1 fault | `FactIncorporatedOnce` | violated |
| `dispatch_crash` | 1 manager crash | `ClosedNeverSwaps` | violated |
| `lease` | 2 pods, deployed durations in units of 5 s | `TypeOK`, `SwapExclusive`, `FencedInTime` | pass |
| `lease_fence` | the same | `FenceBeforeLapse` | violated |
| `search_ledger` | 3 items over 2 slots, 3 dispatches; 1 fault and 1 new leader, or any one item with a redownload due | `TypeOK`, `WithinBudget`, `SlotOutlivesDispatch`, `RedownloadKeepsItsSlot` | pass, 1.7 M |
| `search_ledger_live` | 1 item, 3 dispatches, 2 faults, a new leader, a deletion | `SlotReleased` | pass, 0.06 M |
| `admission` | 2 files over 1 slot; a failed call, a new leader, a deletion or a cache that is behind, one at a time | `TypeOK`, `WithinSlots`, `SlotKept` | pass, 2.0 M |
| `usenet` | 2 transfers that each want the account's 2 connections; a failed call or missed renewal, a dead pod, a take beside a give, one at a time | `TypeOK`, `EntryWithinLimit`, `OrderlyWithinLimit`, `UnbackedNoticed`, `ConnectionsReturn` | pass, 0.18 M |
| `usenet_limit` | the same without faults, a take beside a give | `WithinLimit` | violated |

*Why the bounds are enough.* Two workers are what a race over one record or one
lease needs (a third could only repeat the second's part); two dispatches let
an old one's task, fact or answer meet a new one's; two faults let the recovery
of the first be hit by a second. Three items over two slots is the least for a
routine search, a redownload and a slot that frees. Two files over one slot are the
least for a slot to be given twice; one dispatch each lets a view of the file
before, in and after it arrive late (`MaxSeq = 1` is one seq above the initial
one, which every planner of the file may issue). Two transfers that both want the
whole account race for every connection of it. Every bound is a named constant
(`MaxSeq`, `MaxRev`, `MaxFaults`, `MaxCrashes`, `MaxReigns`, `Failing`, `Deletable`,
`Swapped`, `Lagging`, `Crossing`); where a run takes troubles one at a time, its constraint
`OneTrouble` says so: pairs of them are not explored there.

*Deadlock* is checked in all runs but those of the search ledger. The ledger's runs
stop when `MaxSeq` searches are spent and every item is closed or deleted, which
the program may: nothing is due.

*`WithinBudget`* allows one slot over the budget for each pass that lost its
effects. Without it the property is false: a reservation lapses after 60 s, the
owed publish comes after 2 minutes, and in between the slot of a dispatch that
is in flight is free for another item. The comment on `ReservationTTL`
(`src/app/dispatch/ledger.go:38-40`) speaks only of applies that failed. Slots
of deleted items are not counted: they go when the item's next pass or the audit
finds it gone. With its one fault the run allows all three items, so on the overrun
itself only the theorem `BudgetKept` speaks; the run speaks on the steps before it.

*`RequestNeverOverFact`* excepts the fact of a dispatch whose worker was given up as
lost before it answered: its block is closed, and no later pass looks for the fact
(see the observations).

*`WithinSlots`* does not count a file whose dispatch landed although its call failed
(`lost`, a history variable): `ReleaseUnconfirmed` gives the slot back before anyone
observed the block, and the next admission pass may grant it again. The file counts
no more until it leaves its slot; every other file in flight does.

*`OrderlyWithinLimit`* and *`WithinLimit`* of the usenet grants do not count a transfer
whose grant expired under it (`lapsed`): no lease can stop a holder that cannot reach
the ledger. It counts again when its grant is put back whole: a renewal that copied
the size of an earlier, smaller grant of the transfer puts back that size. The first
also leaves out the transfers that asked beside their give (`crossed`); that it must is
finding 4. `UnbackedNoticed` says that a transfer without its entry is told at its next
renewal, of the grants its pod renews (`Renewed`): one that the pod has forgotten while
the job still uses it is never told (see the observations).

### Fairness

`dispatch_live`: weak fairness of the loop's pass (an in-flight file is always
requeued), of each worker's steps, of a lease nobody renews lapsing, and of the
projector of dead letters. A pod that is idle pulls (`Deliver` is one of its
steps); faults and stopped workers are never required. `search_ledger_live`: weak fairness of a
pass once begun, of the informer, of lapses and ageing, and of the ledger's
goroutine; none for a pass to *begin*, because nothing requeues an item that is
no longer wanted, and the property is that the slot goes all the same. `usenet`:
weak fairness of a take once begun, of renewals and of time, and strong fairness of a
renewal's write, which competes with others but comes every 30 s against calls of
milliseconds; none for a transfer to ask, and none for a give, begun or not.

## Findings

1. **An old fact closes a new dispatch** (`dispatch_fact_twice`;
   `transcodeplan/dispatch.go:129`). A new dispatch block starts with AnsweredSeq 0;
   if its request fails once, the incorporated fact below it is taken for an
   unincorporated one and the dispatch is closed as Swapping although nothing ran.
2. **A withdrawal cut off by a crash is taken for finished** (`dispatch_crash`;
   `transcodeplan/inflight.go:54`). That a later step failed is remembered only in
   memory; after a crash the record alone closes the dispatch and the worker,
   whose lease nobody cancelled, swaps.
3. **A lease can lapse under an encode** (`lease_fence`;
   `worker/lease.go:186` against 131-132). Adopting one's own write counts from the
   read, the TTL from the write. The rename stays exclusive all the same.
   TLC finds the deployed intervals safe from a TTL of 150 s on (145 s is not);
   the theorem's sufficient bound is 180 s.
4. **A transfer may fetch over a grant it gave away** (`usenet_limit`;
   `usenet/grant.go:287` against `usenet/ledger.go:56-57`). `giveGrant` clears the
   job's grant and then calls `Give` without `grantMu`. A worker's `ensureGrant` in
   between finds the holder still in the entry, gets its size back and writes
   nothing; the give then removes it, and another transfer takes the connections.
   The next renewal tells the transfer, if its pod still renews the grant; when the
   give forgets after the take remembered, nothing renews it and the transfer goes on.
   `moveGrant` gives back while workers run.

Observations without a run of their own:

- *A withdrawal overwrites an earlier dispatch's fact* (`task/withdraw.go:85`
  against its comment at 45-47). The record step passes `IncorporatedThrough(seq-1)`,
  so the refusal its comment promises cannot happen. Dispatch 1 is withdrawn and
  closed while its worker renames; dispatch 2 is applied from a pass that gathered
  before the fact landed, its request misses its compare-and-swap, and a
  withdrawal of 2 before the next pass replaces the fact. `Heeds = FALSE` in
  `TranscodeDispatch`'s refinement is this difference from `Records`.
- *A window may overrun* (`admission/rebuild.go:193`). Entering the window issues no
  seq, so a cached view without a block has the seq and rank of the Planned entry it
  replaces, and the place is given again. `fileview.go:31-32` says a view is built
  "never from a stale cache". Slots are not affected.
- *A renewal may put a grant back after its give*: `stillMine` is asked when the
  renewal reads, the give may come before its write and find nothing to remove. It
  is not renewed again and returns after its TTL (`ConnectionsReturn`).
- *A transfer may use a grant its pod does not renew* (`usenet/kvledger/ledger.go:195-204`
  against `usenet/grant.go:181-184`). A late renewal that found the earlier grant gone
  forgets and drops after the new take remembered and before it set the job's grant. The
  job then uses a grant that expires after its TTL and no renewal finds it gone.
- *The fact of a worker given up as lost may be overwritten* (`transcodeplan/dispatch.go:195-201`
  against 77). The lease lapses while `settleFact` retries, the task is dead-lettered,
  and the loop closes the block with AnsweredSeq at its seq. The fact recorded late is not
  above it, so the next request is not held back by it.

## Proofs

`tlapm M.tla` for the six proof modules; every leaf is checked by SMT, Zenon or
PTL, from the named assumptions of the modules (`ConstantsAssumption`,
`DispatchAssumption`, `LeaseAssumption`, `LedgerAssumption`, `AdmissionAssumption`,
`GrantsAssumption`): typed constants, finite sets of items, files and holders where
something is counted, names that are no worker's, and `Swap <= Encode` for the
lease. The bounds of the runs (`MaxSeq`, `MaxFaults`, `MaxCrashes`, `MaxReigns`) are
any numbers. Every invariant and every action property of a passing run is the
subject of a theorem. One of them, `ClosedSwapNever`, carries a hypothesis, and a run
violates the property without it.

**RecordsProofs** (any workers, any bounds). The properties are not inductive:
they depend on what a caller that is about to write believes. `IInv` adds that a
snapshot with the current revision is the current value (`LoopSnapshot`), that a
worker at its compare-and-swap with the current revision may still write
(`WorkerSnapshot`: its verdict stands), that only the loop opens a record
(`OpenSeen`, `OpenInFlight`) and that no task or snapshot is ahead of the record
(`NothingAhead`, `WorkClaimed`). From it: `TypeCorrect`, `ClaimsExclusive`,
`SeqMonotone`, `AnswerStands`, `FactsStay`, `ClosedStaysClosed`. `RefinesLife`
shows that the protocol implements `RecordLife`. It needs more than `IInv`: that
the status is ahead of every record and task (`StatusFirst`: an answer or a
withdrawal is never of a dispatch the status does not know), and that an answer the
loop has read is still the record or was followed by a later dispatch
(`ReadStands`), unless a value was retired; with them, `LInv`, each action is a
step of the abstract life or leaves it alone. Every property of run `records` is
thus proved.

**TranscodeDispatchProofs** (any workers, dispatches, faults, and manager crashes
but where said). The actions are first classified by what they do to the
fields the invariants name: `PlanStep` (one case per effect of a planner row),
`WorkerStep`, `LoopStep`, `BusStep`; `AnyStep` says these are all. The invariants
build on each other, one layer per question.

- `TypeInv`, `RecordInv`: only the loop moves the record to another dispatch, so
  what a pass gathered still tells where it is (`PassInv`), and no task or worker
  outruns it (`RecInv`). Gives `TypeCorrect` and `TasksFollowRequests`.
- `LeasedInv`: a worker past its claim holds the lease until `Process` returns, or the record is past its
  dispatch for good (`Held`); of two that encode one dispatch, neither holds it
  any more (`Rivals`), so neither passes its reassert. Gives `SwapsExclusive`.
- `DeliveredInv`: a worker without its lease still has its task on the stream or is
  of a dispatch that is over, and a first delivery is alone with its dispatch.
  `OwnedInv`: a fact nobody incorporated, and a record a delivery may still turn
  into one, belong to the block in status: in flight, withdrawn and waited for, or
  below a request not yet written (`Owned`), or to a worker given up as lost
  (`seen.lost`). Gives `RequestsSpareFacts`, and
  `RefinesLife`: every step is one of `RecordLife` or leaves it alone.
- `ClosedInv`: the bytes on disk only go forward, a worker about to swap sees those
  its dispatch was planned from, and one that still may swap is of the dispatch in
  flight, because a withdrawal that finished without a failure took its lease away
  (`Fenced`). Gives `ClosedSwapNever`, for `MaxCrashes = 0`: a crash loses the
  failure `Fenced` relies on, which is finding 2.

**TranscodeLeaseProofs** (any pods, any durations). `LeaseSwapExclusive` needs
that a holder who claimed while another renames has at least as far to its
reassert as the other to its rename (`HolderBehind`). `LeaseFencedInTime` bounds
each stage of a renewal by its share of `FenceAfter + Renew + 2 Call`
(`FenceInv`). `LeaseFenceBeforeLapse` bounds the lease's age by twice that
(`AgeInv`), under the condition on TTL that the deployed one misses.

**SearchLedgerProofs** (any items, budget, faults, leaders). `SlotOutlivesDispatch`
is an action property; `IInv` says per item that caches and views are earlier
states of it (`Older`), seqs grow with the clock (`Ticks`), what a pass would
write follows its view and issues only a seq above all the ledger knows
(`Applying`), what it still has to tell is not of a later dispatch (`Telling`),
what the audit took for stale is not in flight (`Audited`), and before the
rebuild the cache shows every dispatch in flight (`Listed`). Each action has its
lemma. Results: `TypeInvariant`, `DispatchKeepsItsSlot`. `BudgetKept` counts.
`BudgetInv` adds that an item's dispatch is closed or followed only after its answer
stands and one the cache has not seen is not closed (`Heard`), that a pass that issues
has its reservation and one that publishes again does so while that dispatch or a newer
one is in flight (`Backed`), and two
sizes: the items that hold a slot or may come to hold one without an admission (in
flight in a new leader's cache, found by its rebuild) are at most `Budget + faults`,
and those in flight without a slot at most `faults`. The second is what makes the
first survive an admission, which sees the book and not the faults.
`RedownloadsGoFirst`: only `Admit` reserves, and it counts the redownloads waiting
first in line.

**TranscodeAdmissionProofs** (any files, slots, window, faults, leaders). A stored
status only moves on, by seq and then by rank, and every view anywhere (cache, pass,
entry, scan) is one the file once had (`ViewsPast`). So a view that shows a file in
flight elsewhere has a smaller seq than the one that shows it there. Per file,
`FileInv` says who counts it: the grant of the pass that has not told the ledger, or
an entry no view at hand may replace (`Covered`); and during a rebuild, that the
list of its phase still finds it though it moves from one to the next (`Rebuilt`).
`Fitting` bounds the files counted by either or granted. Results: `TypeCorrect`,
`SlotsNotOverrun`, `SlotsKept`.

**UsenetGrantsProofs** (any transfers, limit, share, faults, dead pods).
`EntryStaysWithinLimit`: a write was decided on the entry it replaces, since every
store sends the others back to their read, so each pending write fits (`WritesOK`).
`TransfersWithinLimit` is about `OrderlyWithinLimit`: of the transfers that never
crossed a give, one that asks has no grant and gives none back, one that gives uses
nothing, and what one uses the entry names unless it lapsed (`TakesAlone`,
`GivesUnused`, `Backed`). With the others it is false: finding 4. `TypeCorrect` comes with `EntryInv`.

*Model-checked only.* The liveness properties `DispatchCloses`, `SlotReleased`,
`UnbackedNoticed` and `ConnectionsReturn`, which need fairness and `ENABLED` and are
out of the prover's reach. The properties of the runs that expect a violation are
refuted by TLC; `FenceBeforeLapse` is proved under the condition its run breaks.

## Plan

1. `Intake`: inbox, redelivery, settlement and heartbeat; a candidate is acked
   once and only after its decision. It needs a run of its own and takes the place
   of one that can be merged.
2. Extensions of `TranscodeDispatch`: graft joins, kept copies and the crash matrix
   of a swap elsewhere. The classification of steps in its proofs is what a new
   planner row or worker step has to be added to.
3. Proofs of what the findings leave true: `FactIncorporatedOnce` without faults.
4. Lemmas that the shared parts of the proofs could rest on: a compare-and-swap
   loop as one step (`Records` to `TranscodeDispatch`), the order of views.

Runs are merged where one instance can answer two questions, so that the whole
suite stays within minutes.
