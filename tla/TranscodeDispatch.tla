------------------------- MODULE TranscodeDispatch -------------------------
(* One file's transcode dispatches: the remediation loop's pass (gather,    *)
(* plan, apply, effects), the record, the lease, the work stream and the    *)
(* pool's workers. The loop applies its status first and then runs the      *)
(* effects the status owes, one by one; a failed effect stops the batch,    *)
(* and the next pass decides again from what it reads. Operations on the    *)
(* record that retry a lost compare-and-swap (Records) are single steps;    *)
(* the loop's own request is one write at the revision it gathered.         *)
EXTENDS RecordRules, FiniteSets

CONSTANTS Workers,    \* the pool's pods
          MaxSeq,     \* bound: dispatches of the file
          MaxFaults,  \* bound: failed effects, workers stopped, leases lost
          MaxCrashes  \* bound: managers that die

ASSUME DispatchAssumption ==
    /\ MaxSeq \in Nat /\ MaxFaults \in Nat /\ MaxCrashes \in Nat
    /\ {"nobody", "cancelled"} \cap Workers = {}

VARIABLES status,     \* status.transcode, as applied
          mgr,        \* the pass under way, and the ledger's WithdrawFailed
          rec,        \* the file's record in clustarr-transcodes
          lease,      \* the file's lease
          tasks,      \* the dispatches whose task the stream stores
          delivered,  \* ... whose task was delivered at least once
          published,  \* ... whose Msg-Id the stream's Duplicates window holds
          dead,       \* the dead letter: its dispatch, and whether the file is annotated
          disk,       \* the dispatch whose output is the file, 0: the original
          planned,    \* the bytes each dispatch's task was planned from
          wk,         \* the workers
          seen,       \* the highest dispatch whose fact was incorporated, and that was given up as lost
          faults,     \* faults so far
          crashes     \* managers that died so far

vars == <<status, mgr, rec, lease, tasks, delivered, published, dead, disk, planned, wk, seen, faults, crashes>>
stream == <<tasks, delivered, published, dead>>

Seqs == 1 .. MaxSeq
Seqs0 == 0 .. MaxSeq
Values == RecordSet(Seqs) \cup {Absent}

\* Verdict stands for no block, Pending, Skipped and Failed: no dispatch is out
\* and a window grant may plan the file again. last is the file's lastSeq and
\* probed the bytes of its last probe; both outlive the block.
Phases == {"Planned", "Queued", "Running", "Swapping", "Succeeded", "Verdict"}

Statuses == [phase : Phases, seq : Seqs0, answered : Seqs0, withdrawn : BOOLEAN,
             withdrawing : BOOLEAN, to : {"Planned", "Verdict"}, probed : Seqs0, last : Seqs0]
Managers == [pc : {"idle", "plan", "record", "publish", "wrecord", "wlease", "wpurge"},
             cur : Values, fresh : BOOLEAN, gone : BOOLEAN, dead : BOOLEAN, failed : BOOLEAN]
Leases == [seq : Seqs0, by : Workers \cup {"cancelled", "nobody"}]
WorkerStates == [pc : {"idle", "check", "lease", "claim", "encode", "verified", "swap", "swapped", "fact", "answer", "found"},
                 seq : Seqs0, re : BOOLEAN]

Closings == [fact : Seqs0, lost : Seqs0]

NoLease == [seq |-> 0, by |-> "nobody"]
Resting == [pc |-> "idle", seq |-> 0, re |-> FALSE]
PassOver(failed) ==
    [pc |-> "idle", cur |-> Absent, fresh |-> FALSE, gone |-> FALSE, dead |-> FALSE, failed |-> failed]

\* One type for the loop, the buses and the workers.
TypeOK ==
    /\ status \in Statuses /\ mgr \in Managers
    /\ rec \in Values /\ lease \in Leases
    /\ tasks \in SUBSET Seqs /\ delivered \in SUBSET Seqs /\ published \in SUBSET Seqs
    /\ dead \in [seq : Seqs0, noted : BOOLEAN]
    /\ disk \in Seqs0 /\ planned \in [Seqs -> Seqs0]
    /\ wk \in [Workers -> WorkerStates]
    /\ seen \in Closings /\ faults \in 0 .. MaxFaults /\ crashes \in 0 .. MaxCrashes

Init ==
    /\ status = [phase |-> "Planned", seq |-> 0, answered |-> 0, withdrawn |-> FALSE,
                 withdrawing |-> FALSE, to |-> "Planned", probed |-> 0, last |-> 0]
    /\ mgr = PassOver(FALSE)
    /\ rec = Absent /\ lease = NoLease
    /\ tasks = {} /\ delivered = {} /\ published = {}
    /\ dead = [seq |-> 0, noted |-> FALSE]
    /\ disk = 0 /\ planned = [s \in Seqs |-> 0]
    /\ wk = [w \in Workers |-> Resting]
    /\ seen = [fact |-> 0, lost |-> 0] /\ faults = 0 /\ crashes = 0

Fault == faults < MaxFaults /\ faults' = faults + 1 /\ UNCHANGED crashes

\* A write of the record by anyone else moves its revision under the pass.
Put(r) == rec' = r /\ mgr' = [mgr EXCEPT !.fresh = FALSE]

-----------------------------------------------------------------------------
(* The pass: gather.                                                       *)

\* Gather and gatherDispatch. gone is the lost-worker evidence, read only for a
\* Running block: no task stored, and the lease missing past its grace (whether
\* the grace has passed is the clock's choice). dead is the annotation that the
\* dispatch's task was dead-lettered.
Gather ==
    /\ mgr.pc = "idle"
    /\ \E grace \in BOOLEAN :
         mgr' = [pc |-> "plan", cur |-> rec, fresh |-> TRUE, failed |-> mgr.failed,
                 dead |-> dead = [seq |-> status.seq, noted |-> TRUE],
                 gone |-> /\ grace /\ status.phase = "Running"
                          /\ lease = NoLease /\ tasks = {}]
    /\ UNCHANGED <<status, rec, lease, stream, disk, planned, wk, seen, faults, crashes>>

-----------------------------------------------------------------------------
(* The pass: the planner's rows, each followed by the apply of its status. *)

InFlightPhase == status.phase \in {"Queued", "Running"}

\* The status applied, and the first effect owed ("idle": none).
Applies(b, effect) ==
    /\ mgr.pc = "plan"
    /\ status' = b
    /\ mgr' = [PassOver(mgr.failed) EXCEPT !.pc = effect, !.fresh = (effect = "record" /\ mgr.fresh)]
    /\ UNCHANGED <<rec, lease, stream, disk, wk, faults, crashes>>

\* incorporate and applyAnswer: a fact is Swapping; another answer is planned
\* again (a retry with attempts left, a GPU fallback) or a verdict. closes is
\* the dispatch the block counts as answered.
Incorporates(fact, closes) ==
    \E phase \in IF fact THEN {"Swapping"} ELSE {"Planned", "Verdict"} :
        Applies([status EXCEPT !.phase = phase, !.withdrawn = FALSE, !.withdrawing = FALSE,
                               !.answered = IF closes > status.answered THEN closes ELSE status.answered],
                "idle")

Saw(fact) == seen' = IF fact /\ mgr.cur.seq > seen.fact THEN [seen EXCEPT !.fact = mgr.cur.seq] ELSE seen

\* factAfterWithdrawal, inside the fact window.
FactAfterWithdrawal == status.withdrawn /\ mgr.cur.seq = status.seq /\ mgr.cur.fact

IncorporateLateFact ==
    /\ FactAfterWithdrawal
    /\ Incorporates(TRUE, mgr.cur.seq) /\ Saw(TRUE)
    /\ UNCHANGED planned

\* planSwap: the probe of the output landed, with the dispatched tag or not.
PlanSwap ==
    /\ status.phase = "Swapping"
    /\ \/ Applies([status EXCEPT !.phase = "Succeeded", !.probed = disk], "idle")
       \/ Applies([status EXCEPT !.phase = "Verdict", !.probed = disk], "idle")
    /\ UNCHANGED <<planned, seen>>

\* unincorporatedFact: the record holds the fact of the block's own dispatch.
UnincorporatedFact ==
    /\ mgr.cur.fact /\ mgr.cur.seq = status.seq
    /\ status.withdrawn \/ status.seq > status.answered

\* planDispatch under a dispatch grant: never over a fact; else the block is
\* Queued at a new seq, planned from the last probe (of the bytes on disk or of
\* earlier ones), with nothing answered, and the request is owed.
Dispatch ==
    /\ status.phase = "Planned" /\ ~FactAfterWithdrawal
    /\ \/ /\ UnincorporatedFact
          /\ Incorporates(TRUE, mgr.cur.seq) /\ Saw(TRUE)
          /\ UNCHANGED planned
       \/ /\ ~UnincorporatedFact
          /\ \E n \in Seqs, bytes \in {status.probed, disk} :
               /\ NextSeq(mgr.cur.seq, status.last, n)
               /\ Applies([status EXCEPT !.phase = "Queued", !.seq = n, !.last = n, !.answered = 0,
                                         !.withdrawn = FALSE, !.probed = bytes],
                          "record")
               /\ planned' = [planned EXCEPT ![n] = bytes]
          /\ UNCHANGED seen

\* planWindow: a verdict that no longer holds, or a Succeeded file that is
\* eligible again, is Planned and carries its last dispatch.
PlanWindow ==
    /\ status.phase \in {"Verdict", "Succeeded"} /\ ~FactAfterWithdrawal
    /\ status.last < MaxSeq
    /\ Applies([status EXCEPT !.phase = "Planned"], "idle")
    /\ UNCHANGED <<planned, seen>>

\* planWindow and planInWindow for a file that stopped being eligible: the block
\* is cleared, unless keepFact keeps it for a withdrawn dispatch's fact.
LeaveWindow ==
    /\ status.phase \in {"Planned", "Verdict", "Succeeded"} /\ ~status.withdrawn
    /\ Applies([status EXCEPT !.phase = "Verdict", !.seq = 0, !.answered = 0], "idle")
    /\ UNCHANGED <<planned, seen>>

AnsweredHere == mgr.cur.seq = status.seq /\ TerminalAnswered(mgr.cur.state)

\* An answer at the seq is incorporated, even over a withdrawal.
IncorporateAnswer ==
    /\ InFlightPhase /\ AnsweredHere
    /\ Incorporates(mgr.cur.fact, status.seq) /\ Saw(mgr.cur.fact)
    /\ UNCHANGED planned

WithdrawnAt == mgr.cur.seq = status.seq /\ mgr.cur.state = "withdrawn"

\* Mutant of FinishWithdrawal: the withdrawn record alone closes the dispatch.
FinishOnRecordAlone ==
    /\ InFlightPhase /\ ~AnsweredHere
    /\ status.withdrawing /\ WithdrawnAt
    /\ Applies([status EXCEPT !.phase = status.to, !.answered = status.seq,
                              !.withdrawn = TRUE, !.withdrawing = FALSE],
               "idle")
    /\ UNCHANGED <<planned, seen>>

\* finishWithdrawal: the record is withdrawn and the ledger holds no failure.
FinishWithdrawal ==
    /\ InFlightPhase /\ ~AnsweredHere
    /\ status.withdrawing /\ WithdrawnAt /\ ~mgr.failed
    /\ Applies([status EXCEPT !.phase = status.to, !.answered = status.seq,
                              !.withdrawn = TRUE, !.withdrawing = FALSE],
               "idle")
    /\ UNCHANGED <<planned, seen>>

\* rewithdraw: still taking it back.
Rewithdraw ==
    /\ InFlightPhase /\ ~AnsweredHere
    /\ status.withdrawing /\ ~(WithdrawnAt /\ ~mgr.failed)
    /\ Applies(status, "wrecord")
    /\ UNCHANGED <<planned, seen>>

\* startWithdrawal for a withdrawCause: an intent, a profile, a directive, a
\* dead letter or new bytes may ask at any time; what the cause makes of the
\* block is written when the withdrawal finishes.
StartWithdrawal ==
    /\ InFlightPhase /\ ~AnsweredHere /\ ~status.withdrawing
    /\ \E to \in {"Planned", "Verdict"} :
         Applies([status EXCEPT !.withdrawing = TRUE, !.to = to], "wrecord")
    /\ UNCHANGED <<planned, seen>>

\* planInFlight's rows below this point need no withdrawal: none is under way,
\* and a dead letter, unlike the causes above, always asks for one.
Undisturbed == InFlightPhase /\ ~AnsweredHere /\ ~status.withdrawing /\ ~mgr.dead

FactBelow ==
    /\ status.phase = "Queued" /\ mgr.cur.fact
    /\ mgr.cur.seq < status.seq /\ mgr.cur.seq > status.answered

\* The request lost its compare-and-swap to a fact of an earlier dispatch:
\* the dispatch is closed without a record write and the fact incorporated.
IncorporateFactBelow ==
    /\ Undisturbed /\ FactBelow
    /\ Incorporates(TRUE, status.seq) /\ Saw(TRUE)
    /\ UNCHANGED planned

\* Mutant of Owe: a request that reached the record is not published again.
OweRequestOnly ==
    /\ Undisturbed /\ ~FactBelow
    /\ \/ /\ status.phase = "Queued" /\ mgr.cur.seq < status.seq
          /\ Applies(status, "record")
       \/ /\ mgr.cur = Record(status.seq, "requested", FALSE)
          /\ Applies(status, "idle")
    /\ UNCHANGED <<planned, seen>>

\* owe: the request and the publish, or the publish alone.
Owe ==
    /\ Undisturbed /\ ~FactBelow
    /\ \/ /\ status.phase = "Queued" /\ mgr.cur.seq < status.seq
          /\ Applies(status, "record")
       \/ /\ mgr.cur = Record(status.seq, "requested", FALSE)
          /\ Applies(status, "publish")
    /\ UNCHANGED <<planned, seen>>

ClaimedHere == mgr.cur = Record(status.seq, "claimed", FALSE)

\* A claimed record makes a Queued block Running.
NoteClaimed ==
    /\ Undisturbed /\ status.phase = "Queued" /\ ClaimedHere
    /\ Applies([status EXCEPT !.phase = "Running"], "idle")
    /\ UNCHANGED <<planned, seen>>

\* running: WorkerLost, with attempts left or not.
WorkerLost ==
    /\ Undisturbed /\ status.phase = "Running" /\ mgr.gone
    /\ mgr.cur.seq < status.seq \/ ClaimedHere
    /\ Incorporates(FALSE, status.seq)
    /\ seen' = [seen EXCEPT !.lost = status.seq]
    /\ UNCHANGED planned

\* A pass that finds nothing to do: no dispatch out (or no grant, or no probe
\* of the output yet), a claimed dispatch with its worker, a record that is not
\* the block's to act on.
Quiet ==
    /\ ~FactAfterWithdrawal
    /\ \/ ~InFlightPhase
       \/ /\ Undisturbed /\ ~FactBelow
          /\ \/ status.phase = "Running" /\ ~mgr.gone /\ (mgr.cur.seq < status.seq \/ ClaimedHere)
             \/ WithdrawnAt \/ mgr.cur.seq > status.seq
    /\ Applies(status, "idle")
    /\ UNCHANGED <<planned, seen>>

Plan ==
    \/ IncorporateLateFact \/ PlanSwap \/ Dispatch \/ PlanWindow \/ LeaveWindow
    \/ IncorporateAnswer \/ FinishWithdrawal \/ Rewithdraw \/ StartWithdrawal
    \/ IncorporateFactBelow \/ Owe \/ NoteClaimed \/ WorkerLost \/ Quiet

-----------------------------------------------------------------------------
(* The pass: effects, in order.                                            *)

\* Mutants of WriteRequest: the write ignores the gathered revision; a miss does
\* not stop the batch.
WriteRequestBlind ==
    /\ mgr.pc = "record"
    /\ rec' = Record(status.seq, "requested", FALSE)
    /\ mgr' = [PassOver(mgr.failed) EXCEPT !.pc = "publish"]
    /\ UNCHANGED <<status, lease, stream, disk, planned, wk, seen, faults, crashes>>

WriteRequestGoesOn ==
    /\ mgr.pc = "record"
    /\ rec' = IF mgr.fresh THEN Record(status.seq, "requested", FALSE) ELSE rec
    /\ mgr' = [PassOver(mgr.failed) EXCEPT !.pc = "publish"]
    /\ UNCHANGED <<status, lease, stream, disk, planned, wk, seen, faults, crashes>>

\* RecordWrite: one Create or Update at the gathered revision; a miss stops the
\* batch, a write owes the publish.
WriteRequest ==
    /\ mgr.pc = "record"
    /\ \/ /\ mgr.fresh
          /\ rec' = Record(status.seq, "requested", FALSE)
          /\ mgr' = [PassOver(mgr.failed) EXCEPT !.pc = "publish"]
       \/ /\ ~mgr.fresh
          /\ mgr' = PassOver(mgr.failed)
          /\ UNCHANGED rec
    /\ UNCHANGED <<status, lease, stream, disk, planned, wk, seen, faults, crashes>>

\* Publish under the dispatch's Msg-Id: a duplicate is absorbed.
PublishTask ==
    /\ mgr.pc = "publish"
    /\ tasks' = IF status.seq \in published THEN tasks ELSE tasks \cup {status.seq}
    /\ published' = published \cup {status.seq}
    /\ mgr' = PassOver(mgr.failed)
    /\ UNCHANGED <<status, rec, lease, delivered, dead, disk, planned, wk, seen, faults, crashes>>

\* Withdraw's first step, withdrawRecord: everything below the seq counts as
\* incorporated. A refusal fails the withdrawal.
WithdrawRecord ==
    /\ mgr.pc = "wrecord"
    /\ \/ /\ WithdrawWrites(rec, status.seq, status.seq - 1)
          /\ rec' = Record(status.seq, "withdrawn", FALSE)
          /\ mgr' = [mgr EXCEPT !.pc = "wlease"]
       \/ /\ WithdrawKeeps(rec, status.seq)
          /\ mgr' = [mgr EXCEPT !.pc = "wlease"]
          /\ UNCHANGED rec
       \/ /\ WithdrawRefused(rec, status.seq, status.seq - 1)
          /\ mgr' = PassOver(TRUE)
          /\ UNCHANGED rec
    /\ UNCHANGED <<status, lease, stream, disk, planned, wk, seen, faults, crashes>>

\* The second: the cancel marker, over whatever the lease is.
CancelLease ==
    /\ mgr.pc = "wlease"
    /\ lease' = [seq |-> status.seq, by |-> "cancelled"]
    /\ mgr' = [mgr EXCEPT !.pc = "wpurge"]
    /\ UNCHANGED <<status, rec, stream, disk, planned, wk, seen, faults, crashes>>

\* The third: every task of the file. The ledger learns that all went well.
PurgeTasks ==
    /\ mgr.pc = "wpurge"
    /\ tasks' = {}
    /\ mgr' = PassOver(FALSE)
    /\ UNCHANGED <<status, rec, lease, delivered, published, dead, disk, planned, wk, seen, faults, crashes>>

Effect == WriteRequest \/ PublishTask \/ WithdrawRecord \/ CancelLease \/ PurgeTasks

\* A gather, an apply or an effect fails: the rest of the pass is dropped. A
\* failed withdrawal is noted in the ledger.
PassFails ==
    /\ mgr.pc # "idle" /\ Fault
    /\ mgr' = PassOver(mgr.failed \/ mgr.pc \in {"wrecord", "wlease", "wpurge"})
    /\ UNCHANGED <<status, rec, lease, stream, disk, planned, wk, seen>>

\* The manager dies; the next one starts with an empty ledger.
ManagerCrash ==
    /\ mgr.pc # "idle" \/ mgr.failed
    /\ crashes < MaxCrashes /\ crashes' = crashes + 1
    /\ mgr' = PassOver(FALSE)
    /\ UNCHANGED <<status, rec, lease, stream, disk, planned, wk, seen, faults>>

-----------------------------------------------------------------------------
(* The worker: handle.                                                     *)

\* Where handle holds the lease it took.
Holding == {"claim", "encode", "verified", "swap", "swapped", "fact", "answer"}

Mine(w) == lease = [seq |-> wk[w].seq, by |-> w]
Rests(w) == wk' = [wk EXCEPT ![w] = Resting]
Goes(w, pc) == wk' = [wk EXCEPT ![w].pc = pc]
Release(w) == lease' = IF Mine(w) THEN NoLease ELSE lease
Ack(w) == tasks' = tasks \ {wk[w].seq} /\ UNCHANGED <<delivered, published, dead>>
Nak == UNCHANGED stream

\* Timing: from its delivery to its lease, or to the fact it finds, a worker takes
\* less than the AckWait, so the bus does not give its task up under it.
Settling(s) == \E v \in Workers : wk[v].pc \in {"check", "lease", "found"} /\ wk[v].seq = s

\* A stored task is delivered, again when it was nak'd or its AckWait passed.
Deliver(w) ==
    /\ wk[w].pc = "idle"
    /\ \E s \in tasks :
         /\ ~Settling(s)
         /\ wk' = [wk EXCEPT ![w] = [pc |-> "check", seq |-> s, re |-> s \in delivered]]
         /\ delivered' = delivered \cup {s}
    /\ UNCHANGED <<status, mgr, rec, lease, tasks, published, dead, disk, planned, seen, faults, crashes>>

\* A task whose last delivery lapsed, or was nak'd, is copied to the dead-letter
\* subject and deleted; the projector then annotates its file.
DeadLetter ==
    /\ Fault
    /\ \E s \in tasks \cap delivered :
         /\ ~Settling(s)
         /\ tasks' = tasks \ {s}
         /\ dead' = [seq |-> s, noted |-> FALSE]
    /\ UNCHANGED <<status, mgr, rec, lease, delivered, published, disk, planned, wk, seen>>

NoteDeadLetter ==
    /\ dead.seq # 0 /\ ~dead.noted
    /\ dead' = [dead EXCEPT !.noted = TRUE]
    /\ UNCHANGED <<status, mgr, rec, lease, tasks, delivered, published, disk, planned, wk, seen, faults, crashes>>

\* FactAlready: the bytes are not those the dispatch planned, and carry its tag;
\* another dispatch's output carries it when the profile did not change between
\* them (same).
SwappedAlready(w, same) ==
    LET s == wk[w].seq IN disk # planned[s] /\ (disk = s \/ same)

\* First the fact, even over a withdrawal; then Superseded.
Check(w) ==
    /\ wk[w].pc = "check"
    /\ \E same \in BOOLEAN :
         \/ SwappedAlready(w, same) /\ Goes(w, "found") /\ Nak
         \/ ~SwappedAlready(w, same) /\ Superseded(rec, wk[w].seq) /\ Rests(w) /\ Ack(w)
         \/ ~SwappedAlready(w, same) /\ ~Superseded(rec, wk[w].seq) /\ Goes(w, "lease") /\ Nak
    /\ UNCHANGED <<status, mgr, rec, lease, disk, planned, seen, faults, crashes>>

\* Mutant of LeaseFree: a lease held for the task's own dispatch is taken over.
LeaseFreeToItsDispatch(s) ==
    \/ lease = NoLease \/ (lease.by = "cancelled" /\ lease.seq < s)
    \/ lease.seq = s /\ lease.by # "cancelled"

\* claim: a free lease, or an earlier dispatch's cancel marker, is taken; a held
\* one naks; a later dispatch's lease, or this one's cancel marker, acks.
LeaseFree(s) == lease = NoLease \/ (lease.by = "cancelled" /\ lease.seq < s)
LeaseBars(s) == lease.seq > s \/ (lease.by = "cancelled" /\ lease.seq = s)

TakeLease(w) ==
    /\ wk[w].pc = "lease"
    /\ \/ /\ LeaseFree(wk[w].seq)
          /\ lease' = [seq |-> wk[w].seq, by |-> w]
          /\ Goes(w, "claim") /\ Nak
       \/ LeaseBars(wk[w].seq) /\ Rests(w) /\ Ack(w) /\ UNCHANGED lease
       \/ ~LeaseFree(wk[w].seq) /\ ~LeaseBars(wk[w].seq) /\ Rests(w) /\ Nak /\ UNCHANGED lease
    /\ UNCHANGED <<status, mgr, rec, disk, planned, seen, faults, crashes>>

\* The record's claim, a redelivery reclaiming it. NotYet naks, or acks on the
\* last delivery; a drop acks.
ClaimRecord(w) ==
    /\ wk[w].pc = "claim"
    /\ \/ /\ ClaimWrites(rec, wk[w].seq, wk[w].re, FALSE)
          /\ Put(Record(wk[w].seq, "claimed", FALSE))
          /\ Goes(w, "encode") /\ Nak /\ UNCHANGED lease
       \/ /\ ~ClaimWrites(rec, wk[w].seq, wk[w].re, FALSE)
          /\ Rests(w) /\ Release(w)
          /\ (NotYet(rec, wk[w].seq) /\ Nak) \/ Ack(w)
          /\ UNCHANGED <<rec, mgr>>
    /\ UNCHANGED <<status, disk, planned, seen, faults, crashes>>

\* Timing: a swap takes less than an encode, so an encode is not verified while
\* a worker of an earlier dispatch is still between its reassert and its rename.
SwapOutrunsEncode(w) == \A v \in Workers : wk[v].pc = "swap" => wk[v].seq >= wk[w].seq

\* The encode ends: verified against unchanged bytes, or with another answer
\* (a failure, a skip, the deadline, bytes that changed under it). A source that
\* was swapped before it began needs no encode (alreadySwappedOrChanged).
Encode(w) ==
    /\ wk[w].pc = "encode"
    /\ \/ disk = planned[wk[w].seq] /\ SwapOutrunsEncode(w) /\ Goes(w, "verified")
       \/ (\E same \in BOOLEAN : SwappedAlready(w, same)) /\ Goes(w, "swapped")
       \/ Goes(w, "answer")
    /\ UNCHANGED <<status, mgr, rec, lease, stream, disk, planned, seen, faults, crashes>>

Cancelled(w) == lease.by = "cancelled" /\ lease.seq >= wk[w].seq

\* renew finds the lease gone from under it: cancelled acks, fenced naks.
Stopped(w) ==
    /\ ~Mine(w)
    /\ Rests(w)
    /\ IF Cancelled(w) THEN Ack(w) ELSE Nak
    /\ UNCHANGED <<status, mgr, rec, lease, disk, planned, seen, faults, crashes>>

\* After the rename only a fence stops the answer: a success outranks a cancel.
\* Once Process has returned nothing renews, and nothing stops the answer.
Renew(w) ==
    \/ wk[w].pc = "encode" /\ Stopped(w)
    \/ wk[w].pc = "swapped" /\ ~Cancelled(w) /\ Stopped(w)

\* reassertBeforeSwap.
Reassert(w) ==
    /\ wk[w].pc = "verified"
    /\ \/ /\ Mine(w) /\ Goes(w, "swap")
          /\ UNCHANGED <<status, mgr, rec, lease, stream, disk, planned, seen, faults, crashes>>
       \/ Stopped(w)

\* The sidecars, the link into the bin and the rename over the source. One that
\* fails leaves the source as it was and is answered for another attempt.
Swap(w) ==
    /\ wk[w].pc = "swap"
    /\ \/ disk' = wk[w].seq /\ Goes(w, "swapped")
       \/ Goes(w, "answer") /\ UNCHANGED disk
    /\ UNCHANGED <<status, mgr, rec, lease, stream, planned, seen, faults, crashes>>

\* finish stats the output: Process returns a success, or asks for another
\* attempt although the file was replaced.
Finish(w) ==
    /\ wk[w].pc = "swapped"
    /\ Goes(w, "fact") \/ Goes(w, "answer")
    /\ UNCHANGED <<status, mgr, rec, lease, stream, disk, planned, seen, faults, crashes>>

\* Mutant of Answers: the answer is stored without moving the state.
AnswersInPlace(w, fact) ==
    \/ /\ AnswerWrites(rec, wk[w].seq, fact)
       /\ Put(Record(wk[w].seq, rec.state, fact))
    \/ ~AnswerWrites(rec, wk[w].seq, fact) /\ UNCHANGED <<rec, mgr>>

Answers(w, fact) ==
    \/ /\ AnswerWrites(rec, wk[w].seq, fact)
       /\ Put(Record(wk[w].seq, "answered", fact))
    \/ ~AnswerWrites(rec, wk[w].seq, fact) /\ UNCHANGED <<rec, mgr>>

\* settleFact: the answer, the release of a lease this delivery took, the ack.
SettleFact(w) ==
    /\ \/ wk[w].pc = "fact" /\ Release(w)
       \/ wk[w].pc = "found" /\ UNCHANGED lease
    /\ Answers(w, TRUE) /\ Ack(w) /\ Rests(w)
    /\ UNCHANGED <<status, disk, planned, seen, faults, crashes>>

\* The other answers; the last delivery's retriable one is failed, not answered.
SettleAnswer(w) ==
    /\ wk[w].pc = "answer"
    /\ Answers(w, FALSE) /\ Release(w) /\ Ack(w) /\ Rests(w)
    /\ UNCHANGED <<status, disk, planned, seen, faults, crashes>>

\* A fenced worker answers nothing, not even the swap it just made; a drained
\* one, and one whose answer could not be recorded, releases its lease; a
\* killed one leaves it.
WorkerStops(w) ==
    /\ wk[w].pc # "idle" /\ Fault
    /\ Rests(w) /\ Nak
    /\ (wk[w].pc \in Holding /\ Release(w)) \/ UNCHANGED lease
    /\ UNCHANGED <<status, mgr, rec, disk, planned, seen>>

\* The answer landed but neither the release nor the ack did.
AnswerOnly(w) ==
    /\ wk[w].pc \in {"fact", "found", "answer"} /\ Fault
    /\ Answers(w, wk[w].pc # "answer") /\ Rests(w) /\ Nak
    /\ UNCHANGED <<status, lease, disk, planned, seen>>

\* The lease's TTL. Until Process returns a live holder renews it, or stops
\* (FenceAfter) before it can lapse, and another answer takes 10 s; a cancel
\* marker, a dead holder's lease and that of a fact settleFact still retries lapse.
Leased == Holding \ {"fact"}

Holder == {w \in Workers : Mine(w) /\ wk[w].pc \in Leased}

Lapse ==
    /\ lease # NoLease /\ Holder = {}
    /\ lease' = NoLease
    /\ UNCHANGED <<status, mgr, rec, stream, disk, planned, wk, seen, faults, crashes>>

-----------------------------------------------------------------------------
Pass == Gather \/ Plan \/ Effect

Works(w) ==
    \/ Deliver(w) \/ Check(w) \/ TakeLease(w) \/ ClaimRecord(w) \/ Encode(w) \/ Renew(w)
    \/ Reassert(w) \/ Swap(w) \/ Finish(w) \/ SettleFact(w) \/ SettleAnswer(w)

Next ==
    \/ Pass \/ PassFails \/ ManagerCrash
    \/ \E w \in Workers : Works(w) \/ WorkerStops(w) \/ AnswerOnly(w)
    \/ DeadLetter \/ NoteDeadLetter \/ Lapse

Spec == Init /\ [][Next]_vars

\* The loop's passes go on (controller-runtime requeues every in-flight file),
\* a pod that can step does, a lease nobody renews lapses, and the projector
\* works through the dead letters.
FairSpec ==
    /\ Spec
    /\ WF_vars(Pass) /\ WF_vars(Lapse) /\ WF_vars(NoteDeadLetter)
    /\ \A w \in Workers : WF_vars(Works(w))

-----------------------------------------------------------------------------
(* Properties.                                                             *)

\* At most one worker of a dispatch stands between its reassert and its rename,
\* however its task was redelivered and its lease lapsed (claim, renew and
\* reassertBeforeSwap).
SwapExclusive ==
    \A v, w \in Workers :
        wk[v].pc = "swap" /\ wk[w].pc = "swap" /\ wk[v].seq = wk[w].seq => v = w

EntersSwap(w) == wk[w].pc # "swap" /\ wk'[w].pc = "swap"

\* Once the block has closed a dispatch, none of its workers gets past the
\* reassert any more: a withdrawal is closed only after its record, its cancel
\* marker and its purge, and a lost worker only without a lease.
ClosedNeverSwaps ==
    [][\A w \in Workers :
         EntersSwap(w) => wk[w].seq = status.seq /\ wk[w].seq > status.answered]_vars

\* A task is stored only for a dispatch whose request reached the record: a
\* request that missed its compare-and-swap publishes nothing.
TaskFollowsRequest == \A s \in tasks : rec.seq >= s

\* The last dispatch the loop is done with, its fact incorporated or its worker lost.
Taken == IF seen.lost > seen.fact THEN seen.lost ELSE seen.fact

\* The loop never puts a request over a fact it has not incorporated, unless it had
\* given the worker up as lost before that one answered: the write at the gathered
\* revision and planDispatch's check keep it.
RequestNeverOverFact ==
    [][rec.fact /\ rec.seq > Taken => rec'.state # "requested"]_vars

\* A fact is incorporated once: a row that takes a fact takes a new one.
FactIncorporatedOnce ==
    [][status.phase # "Swapping" /\ status'.phase = "Swapping" => seen'.fact > seen.fact]_vars

\* A dispatch the status has issued is closed in the end, whatever was lost or
\* crashed on the way: answered, withdrawn or given up as lost.
DispatchCloses == InFlightPhase ~> ~InFlightPhase

\* The record's life (RecordLife) with the loop and the workers of the transcode
\* as its callers; withdrawRecord counts everything below its seq as incorporated.
Life == INSTANCE RecordLife WITH issued <- status.last, taken <- Taken, retired <- FALSE,
                                 Heeds <- FALSE, Loses <- TRUE

\* The transcode's use of its records implements RecordLife.
ImplementsLife == Life!Spec
=============================================================================
