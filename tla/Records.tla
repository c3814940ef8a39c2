------------------------------ MODULE Records ------------------------------
(* One key of a records bucket (pkg/records): the loop's Requester, any     *)
(* number of workers' Answerers, and the bucket between them. Every         *)
(* operation reads, decides by RecordRules, and writes with a               *)
(* compare-and-swap at the revision it read; everybody else may act in      *)
(* between. The caller of the Requester follows the contract the package    *)
(* states: one issuer, status first, then the record, then the task, and    *)
(* IncorporatedThrough names only answers it has really read.               *)
EXTENDS RecordRules, FiniteSets

CONSTANTS Workers,      \* the answering pods
          MaxSeq,       \* bound: dispatches issued
          MaxRev,       \* bound: writes to the key
          CASAttempts   \* how often a write re-reads and decides again

ASSUME ConstantsAssumption ==
    MaxSeq \in Nat /\ MaxRev \in Nat \ {0} /\ CASAttempts \in Nat \ {0}

VARIABLES rec,      \* the value stored under the key, as store.get decodes it
          rev,      \* its revision, 0 when the key is absent
          lastRev,  \* the bucket's last revision
          due,      \* the clock has reached the deferred record's DeferredUntil
          status,   \* the loop's durable status of the file
          loop,     \* what the loop's current pass read
          tasks,    \* the seqs whose task the work stream stores
          wk,       \* the workers
          retired   \* the bucket's TTL has retired a value of the key

vars == <<rec, rev, lastRev, due, status, loop, tasks, wk, retired>>
bucket == <<rec, rev, lastRev, due, retired>>

Seqs == 1 .. MaxSeq
Revs == 0 .. MaxRev
Values == RecordSet(Seqs) \cup {Absent}

Status == [seq : 0 .. MaxSeq, closed : 0 .. MaxSeq, incorporated : 0 .. MaxSeq, withdrawing : BOOLEAN]
Loop == [read : BOOLEAN, cur : Values, rev : Revs]
Worker == [pc : {"idle", "read", "cas", "working"}, op : {"claim", "defer", "answer"},
           seq : 0 .. MaxSeq, re : BOOLEAN, state : {"answered", "failed"}, fact : BOOLEAN,
           rev : Revs, tries : 0 .. CASAttempts]

NotRead == [read |-> FALSE, cur |-> Absent, rev |-> 0]
Idle == [pc |-> "idle", op |-> "claim", seq |-> 0, re |-> FALSE, state |-> "failed",
         fact |-> FALSE, rev |-> 0, tries |-> 0]

\* One type for the bucket, the loop and the workers.
TypeOK ==
    /\ rec \in Values /\ rev \in Revs /\ lastRev \in Revs
    /\ due \in BOOLEAN /\ retired \in BOOLEAN
    /\ status \in Status /\ loop \in Loop
    /\ tasks \in SUBSET Seqs
    /\ wk \in [Workers -> Worker]

\* The key is absent, or holds a value no reader decodes at revision 1.
Init ==
    /\ rec = Absent /\ rev \in {0, 1} /\ lastRev = rev
    /\ due = FALSE /\ retired = FALSE
    /\ status = [seq |-> 0, closed |-> 0, incorporated |-> 0, withdrawing |-> FALSE]
    /\ loop = NotRead
    /\ tasks = {}
    /\ wk = [w \in Workers |-> Idle]

-----------------------------------------------------------------------------
(* The bucket.                                                             *)

\* Mutant of Unraced: a blind put.
BlindPut(at) == TRUE

\* write: Create at revision 0, Update otherwise; it lands only when the key is
\* still at the revision the caller read. A caller that finds ~Unraced has
\* ErrRaced.
Unraced(at) == rev = at

Store(r) ==
    /\ lastRev < MaxRev
    /\ rec' = r /\ rev' = lastRev + 1 /\ lastRev' = lastRev + 1

\* The bucket's TTL retires the value; nobody deletes it.
Retire ==
    /\ rev # 0
    /\ rec' = Absent /\ rev' = 0 /\ due' = FALSE /\ retired' = TRUE
    /\ UNCHANGED <<lastRev, status, loop, tasks, wk>>

\* Time passes a deferral's DeferredUntil.
DeferralPasses ==
    /\ rec.state = "deferred" /\ ~due
    /\ due' = TRUE
    /\ UNCHANGED <<rec, rev, lastRev, status, loop, tasks, wk, retired>>

-----------------------------------------------------------------------------
(* The loop.                                                               *)

InFlight == status.seq > status.closed

LoopGet ==
    /\ ~loop.read
    /\ loop' = [read |-> TRUE, cur |-> rec, rev |-> rev]
    /\ UNCHANGED <<bucket, status, tasks, wk>>

\* A pass that ends early, loses its leadership, or dies.
LoopRestart ==
    /\ loop.read
    /\ loop' = NotRead
    /\ UNCHANGED <<bucket, status, tasks, wk>>

\* The loop is the only issuer of Seq; the status says so before the record.
Issue ==
    /\ loop.read /\ ~InFlight
    /\ \E n \in Seqs :
         /\ NextSeq(loop.cur.seq, status.seq, n)
         /\ status' = [status EXCEPT !.seq = n]
    /\ UNCHANGED <<bucket, loop, tasks, wk>>

\* Requester.Request at the revision the pass read. A raced or refused request
\* requeues the pass.
Request ==
    /\ loop.read /\ InFlight /\ ~status.withdrawing /\ loop.cur.seq < status.seq
    /\ \/ /\ Unraced(loop.rev) /\ MayRequest(loop.cur, status.seq, status.incorporated)
          /\ Store(Record(status.seq, "requested", FALSE))
          /\ due' = FALSE
          /\ loop' = [read |-> TRUE, cur |-> rec', rev |-> rev']
          /\ UNCHANGED retired
       \/ /\ ~(Unraced(loop.rev) /\ MayRequest(loop.cur, status.seq, status.incorporated))
          /\ loop' = NotRead
          /\ UNCHANGED bucket
    /\ UNCHANGED <<status, tasks, wk>>

\* The task follows a record known to be requested; a republish stores it again.
Publish ==
    /\ loop.read /\ InFlight /\ ~status.withdrawing
    /\ loop.cur = Record(status.seq, "requested", FALSE)
    /\ tasks' = tasks \cup {status.seq}
    /\ loop' = NotRead
    /\ UNCHANGED <<bucket, status, wk>>

\* The status names the withdrawal before anything is taken back.
StartWithdraw ==
    /\ loop.read /\ InFlight /\ ~status.withdrawing
    /\ status' = [status EXCEPT !.withdrawing = TRUE]
    /\ UNCHANGED <<bucket, loop, tasks, wk>>

\* Requester.Withdraw of the dispatch in flight, then the purge of its tasks.
Withdraw ==
    /\ loop.read /\ status.withdrawing
    /\ \/ /\ Unraced(loop.rev) /\ WithdrawWrites(loop.cur, status.seq, status.incorporated)
          /\ Store(Record(status.seq, "withdrawn", FALSE))
          /\ due' = FALSE /\ tasks' = tasks \ {status.seq}
          /\ UNCHANGED retired
       \/ /\ Unraced(loop.rev) /\ WithdrawKeeps(loop.cur, status.seq)
          /\ tasks' = tasks \ {status.seq}
          /\ UNCHANGED bucket
       \/ /\ \/ ~Unraced(loop.rev)
             \/ WithdrawRefused(loop.cur, status.seq, status.incorporated)
          /\ UNCHANGED <<bucket, tasks>>
    /\ loop' = NotRead
    /\ UNCHANGED <<status, wk>>

\* The withdrawal landed: the dispatch is closed, not incorporated.
CloseWithdrawn ==
    /\ loop.read /\ status.withdrawing
    /\ loop.cur = Record(status.seq, "withdrawn", FALSE)
    /\ status' = [status EXCEPT !.closed = status.seq, !.withdrawing = FALSE]
    /\ loop' = NotRead
    /\ UNCHANGED <<bucket, tasks, wk>>

\* Mutant of Incorporate: an older answer counts for the dispatch in flight.
IncorporateForAll ==
    /\ loop.read /\ TerminalAnswered(loop.cur.state) /\ loop.cur.seq > status.incorporated
    /\ status' = [seq |-> status.seq, closed |-> status.seq, incorporated |-> status.seq, withdrawing |-> FALSE]
    /\ loop' = NotRead
    /\ UNCHANGED <<bucket, tasks, wk>>

\* An answer the pass read, at any seq not yet incorporated, is incorporated;
\* a dispatch of a higher seq stays in flight.
Incorporate ==
    /\ loop.read /\ TerminalAnswered(loop.cur.state) /\ loop.cur.seq > status.incorporated
    /\ status' = [seq |-> status.seq,
                  closed |-> IF loop.cur.seq > status.closed THEN loop.cur.seq ELSE status.closed,
                  incorporated |-> loop.cur.seq,
                  withdrawing |-> status.withdrawing /\ loop.cur.seq < status.seq]
    /\ loop' = NotRead
    /\ UNCHANGED <<bucket, tasks, wk>>

-----------------------------------------------------------------------------
(* The workers.                                                            *)

\* A delivery of a stored task: the first of its copy (re FALSE) or a
\* redelivery after AckWait. A worker claims it, or postpones it.
Deliver(w) ==
    /\ wk[w].pc = "idle"
    /\ \E s \in tasks, re \in BOOLEAN, op \in {"claim", "defer"} :
         wk' = [wk EXCEPT ![w] = [Idle EXCEPT !.pc = "read", !.op = op, !.seq = s, !.re = re]]
    /\ UNCHANGED <<bucket, status, loop, tasks>>

\* Whether the operation writes over the value it reads; now was read at or
\* before the record, so a deferral just past may still look pending (d).
Writes(w, d) ==
    \/ wk[w].op = "claim" /\ ClaimWrites(rec, wk[w].seq, wk[w].re, d)
    \/ wk[w].op = "defer" /\ DeferWrites(rec, wk[w].seq, d)
    \/ wk[w].op = "answer" /\ AnswerWrites(rec, wk[w].seq, wk[w].fact)

\* The fresh read before every write: NotYet naks, a drop acks.
Read(w) ==
    /\ wk[w].pc = "read"
    /\ \E d \in {FALSE, due} :
         \/ /\ Writes(w, d)
            /\ wk' = [wk EXCEPT ![w].pc = "cas", ![w].rev = rev]
            /\ UNCHANGED tasks
         \/ /\ ~Writes(w, d)
            /\ wk' = [wk EXCEPT ![w] = Idle]
            /\ IF NotYet(rec, wk[w].seq) THEN UNCHANGED tasks ELSE tasks' = tasks \ {wk[w].seq}
    /\ UNCHANGED <<bucket, status, loop>>

Write(w) ==
    /\ wk[w].pc = "cas" /\ Unraced(wk[w].rev)
    /\ \/ /\ wk[w].op = "claim"
          /\ Store(Record(wk[w].seq, "claimed", FALSE))
          /\ wk' = [wk EXCEPT ![w].pc = "working"]
          /\ UNCHANGED tasks
       \/ /\ wk[w].op = "defer"
          /\ Store(Record(wk[w].seq, "deferred", FALSE))
          /\ wk' = [wk EXCEPT ![w] = Idle]
          /\ UNCHANGED tasks
       \/ /\ wk[w].op = "answer"
          /\ Store(Record(wk[w].seq, wk[w].state, wk[w].fact))
          /\ wk' = [wk EXCEPT ![w] = Idle]
          /\ tasks' = tasks \ {wk[w].seq}
    /\ due' = FALSE
    /\ UNCHANGED <<status, loop, retired>>

\* A lost compare-and-swap re-reads, CASAttempts times in all; then the
\* operation fails and the task is redelivered.
Raced(w) ==
    /\ wk[w].pc = "cas" /\ ~Unraced(wk[w].rev)
    /\ wk' = [wk EXCEPT ![w] = IF wk[w].tries + 1 < CASAttempts
                               THEN [wk[w] EXCEPT !.pc = "read", !.tries = wk[w].tries + 1]
                               ELSE Idle]
    /\ UNCHANGED <<bucket, status, loop, tasks>>

\* Mutant of Finish: a failure is reported as a fact too.
FinishAnyFact(w) ==
    /\ wk[w].pc = "working"
    /\ \E st \in {"answered", "failed"}, f \in BOOLEAN :
         wk' = [wk EXCEPT ![w].pc = "read", ![w].op = "answer",
                          ![w].state = st, ![w].fact = f, ![w].tries = 0]
    /\ UNCHANGED <<bucket, status, loop, tasks>>

\* The work ends: a fact changed the file on disk already.
Finish(w) ==
    /\ wk[w].pc = "working"
    /\ \E st \in {"answered", "failed"}, f \in BOOLEAN :
         /\ f => st = "answered"
         /\ wk' = [wk EXCEPT ![w].pc = "read", ![w].op = "answer",
                             ![w].state = st, ![w].fact = f, ![w].tries = 0]
    /\ UNCHANGED <<bucket, status, loop, tasks>>

WorkerCrash(w) ==
    /\ wk[w].pc # "idle"
    /\ wk' = [wk EXCEPT ![w] = Idle]
    /\ UNCHANGED <<bucket, status, loop, tasks>>

-----------------------------------------------------------------------------
LoopNext ==
    \/ LoopGet \/ LoopRestart \/ Issue \/ Request \/ Publish
    \/ StartWithdraw \/ Withdraw \/ CloseWithdrawn \/ Incorporate

WorkerNext(w) ==
    \/ Deliver(w) \/ Read(w) \/ Write(w) \/ Raced(w) \/ Finish(w) \/ WorkerCrash(w)

Next == Retire \/ DeferralPasses \/ LoopNext \/ \E w \in Workers : WorkerNext(w)

Spec == Init /\ [][Next]_vars

-----------------------------------------------------------------------------
(* Properties.                                                             *)

Starts(w) == wk[w].pc # "working" /\ wk'[w].pc = "working"

\* Stale readers never take the key back: while a value stays stored, the
\* record's Seq only grows, whoever writes (write's compare-and-swap behind
\* every Request, Withdraw, Claim, Defer and Answer).
SeqNeverDecreases ==
    [][Ok(rec) /\ Ok(rec') => rec'.seq >= rec.seq]_vars

\* The first answer of a dispatch stands: neither a second worker's answer, a
\* withdrawal nor a late claim changes an answered record at its Seq.
FirstAnswerStands ==
    [][TerminalAnswered(rec.state) /\ Ok(rec') /\ rec'.seq = rec.seq => rec' = rec]_vars

\* A change already made on disk is never forgotten by the key before the loop
\* has incorporated it: no request, withdrawal or answer replaces an
\* unincorporated fact (refuseFact), as long as no TTL has retired a value.
FactStays ==
    [][~retired /\ rec.fact /\ rec.seq > status.incorporated => rec' = rec \/ retired']_vars

\* Of all first deliveries of a task (a republish past the duplicate window
\* stores a second copy) at most one gets to work: Claim is exclusive without
\* reclaim, unless the record was retired under its worker and requested again.
FirstClaimUnique ==
    retired \/ \A v, w \in Workers :
        /\ wk[v].pc = "working" /\ ~wk[v].re
        /\ wk[w].pc = "working" /\ ~wk[w].re
        /\ wk[v].seq = wk[w].seq
        => v = w

\* Work never starts on a dispatch the loop has closed, whatever task copies
\* are still stored or delivered.
ClosedNeverStarts ==
    [][\A w \in Workers : Starts(w) => wk[w].seq > status.closed]_vars

\* Every read, revision, retry and crash here comes down to one of the steps of the
\* record's life (RecordLife), with the file's status for the loop's memory.
Life == INSTANCE RecordLife WITH issued <- status.seq, taken <- status.incorporated,
                                 Heeds <- TRUE, Loses <- FALSE

\* The protocol of pkg/records, callers included, implements RecordLife.
ImplementsLife == Life!Spec
=============================================================================
