--------------------------- MODULE RecordsProofs ---------------------------
(* Theorems about Records for every set of workers and every bound. The     *)
(* inductive invariant says what a compare-and-swap buys: a caller whose    *)
(* revision is still current holds the current value.                       *)
EXTENDS Records, TLAPS

Open == {"requested", "claimed", "deferred"}

\* What the type leaves out: revisions are handed out once, an absent key has
\* no revision, and the seqs that get written are real ones.
Shape ==
    /\ rev <= lastRev /\ loop.rev <= lastRev
    /\ rev = 0 => rec = Absent
    /\ status.withdrawing => status.seq > status.closed
    /\ \A w \in Workers :
         /\ wk[w].rev <= lastRev
         /\ wk[w].pc # "idle" => wk[w].seq \in Seqs
         /\ wk[w].fact => wk[w].state = "answered"

\* The loop's snapshot is the stored value as long as its revision is.
LoopSnapshot ==
    loop.read => /\ loop.rev = rev => loop.cur = rec
                 /\ loop.rev = 0 => loop.cur = Absent

\* A worker about to write at the stored revision may write over what is
\* stored: the verdict it reached still stands.
MayWrite(w) ==
    /\ wk[w].op = "claim" =>
          /\ rec.seq = wk[w].seq /\ rec.state \in Open
          /\ rec.state = "claimed" => wk[w].re
    /\ wk[w].op = "defer" => rec.seq = wk[w].seq /\ rec.state \in {"requested", "deferred"}
    /\ wk[w].op = "answer" => AnswerWrites(rec, wk[w].seq, wk[w].fact)

WorkerSnapshot ==
    \A w \in Workers : wk[w].pc = "cas" =>
        /\ wk[w].rev = rev => MayWrite(w)
        /\ wk[w].op # "answer" => wk[w].rev # 0

\* Only the loop opens a record, so a pass in progress has seen it open.
OpenSeen == loop.read /\ rec.state \in Open => loop.cur.state \in Open /\ loop.cur.seq = rec.seq

\* An open record is a dispatch the loop has not closed.
OpenInFlight == rec.state \in Open => rec.seq > status.closed

\* Nothing outruns the record, until a TTL retires it: every task stored,
\* every task held and everything the loop read is at or below its seq.
NothingAhead ==
    ~retired => /\ loop.cur.seq <= rec.seq
                /\ \A s \in tasks : s <= rec.seq
                /\ \A w \in Workers : wk[w].pc # "idle" => wk[w].seq <= rec.seq

\* The record of a dispatch being worked on is past its request.
WorkClaimed ==
    ~retired => \A w \in Workers :
        wk[w].pc = "working" /\ rec.seq = wk[w].seq => rec.state \notin {"requested", "deferred"}

IInv == TypeOK /\ Shape /\ LoopSnapshot /\ WorkerSnapshot /\ OpenSeen
        /\ OpenInFlight /\ NothingAhead /\ WorkClaimed /\ FirstClaimUnique

-----------------------------------------------------------------------------

\* What a value that store.get may return looks like.
LEMMA ValueFacts ==
    ASSUME NEW r \in Values
    PROVE  /\ r.seq \in 0 .. MaxSeq
           /\ r.state # "absent" => r.seq \in Seqs
           /\ r.state = "absent" <=> r = Absent
           /\ r.fact => r.state = "answered"
<1>1. r.seq \in 0 .. MaxSeq /\ (r.state # "absent" => r.seq \in Seqs)
  BY ConstantsAssumption DEF Values, RecordSet, Absent, Seqs
<1>2. r.state = "absent" <=> r = Absent
  BY DEF Values, RecordSet, Absent, States
<1>3. r.fact => r.state = "answered"
  BY DEF Values, RecordSet, Absent
<1> QED BY <1>1, <1>2, <1>3

\* What the loop, Claim and Defer store is such a value.
LEMMA RecordFacts ==
    ASSUME NEW s \in Seqs, NEW st \in States
    PROVE  /\ Record(s, st, FALSE) \in Values
           /\ Record(s, st, FALSE).seq = s /\ Record(s, st, FALSE).state = st
BY DEF Record, Values, RecordSet

\* So is what Answer stores.
LEMMA AnswerFacts ==
    ASSUME NEW s \in Seqs, NEW st \in {"answered", "failed"}, NEW f \in BOOLEAN, f => st = "answered"
    PROVE  /\ Record(s, st, f) \in Values
           /\ Record(s, st, f).seq = s /\ Record(s, st, f).state = st
<1>1. Record(s, st, f) \in Values
  BY DEF Record, Values, RecordSet, States
<1>2. Record(s, st, f).seq = s /\ Record(s, st, f).state = st
  BY DEF Record
<1> QED BY <1>1, <1>2

\* A worker is the record of its fields.
LEMMA WorkerFields ==
    ASSUME NEW pc \in {"idle", "read", "cas", "working"}, NEW op \in {"claim", "defer", "answer"},
           NEW s \in 0 .. MaxSeq, NEW re \in BOOLEAN, NEW st \in {"answered", "failed"},
           NEW f \in BOOLEAN, NEW rv \in Revs, NEW t \in 0 .. CASAttempts
    PROVE  [pc |-> pc, op |-> op, seq |-> s, re |-> re, state |-> st,
            fact |-> f, rev |-> rv, tries |-> t] \in Worker
BY DEF Worker

\* Request keeps the invariant: what it replaces is what the pass read.
LEMMA RequestInv == IInv /\ Request => IInv'
<1> SUFFICES ASSUME IInv, Request PROVE IInv'
  OBVIOUS
<1> USE ConstantsAssumption DEF Seqs, IInv, TypeOK, Status
<1>10. status.seq \in Seqs /\ status.seq > status.closed
  BY DEF Request, InFlight
<1>11. UNCHANGED <<status, tasks, wk>>
  BY DEF Request
<1>12. UNCHANGED retired
  BY DEF Request, bucket
<1>0. status.seq \in Seqs /\ status.seq > status.closed /\ UNCHANGED <<status, tasks, wk, retired>>
  BY <1>10, <1>11, <1>12
<1>1. CASE loop' = NotRead /\ UNCHANGED bucket
  <2> USE <1>0, <1>1 DEF bucket
  <2>1. TypeOK'
    BY DEF NotRead, Loop, Values, Revs
  <2>2. Shape' /\ LoopSnapshot' /\ OpenSeen' /\ OpenInFlight'
    BY DEF Shape, NotRead, LoopSnapshot, OpenSeen, OpenInFlight, Revs
  <2>3. WorkerSnapshot' /\ WorkClaimed' /\ FirstClaimUnique'
    BY DEF WorkerSnapshot, MayWrite, WorkClaimed, FirstClaimUnique
  <2>4. NothingAhead'
    BY ValueFacts DEF NothingAhead, NotRead, Absent
  <2> QED BY <2>1, <2>2, <2>3, <2>4 DEF IInv
<1>2. CASE /\ Unraced(loop.rev) /\ Store(Record(status.seq, "requested", FALSE)) /\ due' = FALSE
           /\ loop' = [read |-> TRUE, cur |-> rec', rev |-> rev']
  <2>0. /\ rec = loop.cur /\ loop.cur.seq < status.seq
        /\ rev' = lastRev + 1 /\ lastRev' = lastRev + 1 /\ lastRev + 1 <= MaxRev
        /\ rec' \in Values /\ rec'.seq = status.seq /\ rec'.state = "requested"
        /\ loop' = [read |-> TRUE, cur |-> rec', rev |-> rev'] /\ due' = FALSE
    <3>1. rec = loop.cur /\ loop.cur.seq < status.seq
      BY <1>2 DEF Request, Unraced, LoopSnapshot
    <3>2. rev' = lastRev + 1 /\ lastRev' = lastRev + 1 /\ lastRev + 1 <= MaxRev
      BY <1>2 DEF Store, Revs
    <3>3. rec' \in Values /\ rec'.seq = status.seq /\ rec'.state = "requested"
      BY <1>0, <1>2, RecordFacts DEF Store, States
    <3> QED BY <1>2, <3>1, <3>2, <3>3
  <2> USE <1>0, <2>0
  <2>1. TypeOK'
    <3>1. loop' \in Loop
      BY DEF Loop, Revs
    <3>2. rec' \in Values /\ rev' \in Revs /\ lastRev' \in Revs
      BY DEF Revs
    <3> QED BY <3>1, <3>2
  <2>2. Shape'
    <3>1. rev' <= lastRev' /\ loop'.rev <= lastRev' /\ rev' # 0
      BY DEF Loop, Revs
    <3>2. \A w \in Workers : wk[w].rev <= lastRev'
      BY DEF Shape, Revs, Worker
    <3> QED BY <3>1, <3>2 DEF Shape
  <2>3. LoopSnapshot' /\ OpenSeen' /\ OpenInFlight'
    BY DEF LoopSnapshot, OpenSeen, OpenInFlight, Loop, Revs, Open
  <2>4. WorkerSnapshot'
    BY DEF WorkerSnapshot, Shape, Revs, Worker
  <2>5. NothingAhead'
    BY ValueFacts DEF NothingAhead, Loop, Worker
  <2>6. WorkClaimed' /\ FirstClaimUnique'
    BY ValueFacts DEF NothingAhead, WorkClaimed, FirstClaimUnique, Worker
  <2> QED BY <2>1, <2>2, <2>3, <2>4, <2>5, <2>6 DEF IInv
<1> QED BY <1>1, <1>2 DEF Request

\* Withdraw keeps the invariant.
LEMMA WithdrawInv == IInv /\ Withdraw => IInv'
<1> SUFFICES ASSUME IInv, Withdraw PROVE IInv'
  OBVIOUS
<1> USE ConstantsAssumption DEF Seqs, IInv, TypeOK, Status
<1>10. status.seq \in Seqs /\ status.seq > status.closed
  BY DEF Withdraw, Shape
<1>11. UNCHANGED <<status, wk>> /\ loop' = NotRead
  BY DEF Withdraw
<1>12. UNCHANGED retired /\ tasks' \subseteq tasks
  BY DEF Withdraw, bucket
<1>0. loop'.read = FALSE /\ loop'.cur.seq = 0 /\ loop'.rev = 0 /\ loop' \in Loop
  BY <1>11 DEF NotRead, Loop, Values, Revs, Absent
<1> USE <1>10, <1>11, <1>12, <1>0
<1>1. CASE UNCHANGED bucket
  <2> USE <1>1 DEF bucket
  <2>1. TypeOK'
    OBVIOUS
  <2>2. Shape' /\ LoopSnapshot' /\ OpenSeen' /\ OpenInFlight'
    BY DEF Shape, LoopSnapshot, OpenSeen, OpenInFlight, Revs
  <2>3. WorkerSnapshot' /\ WorkClaimed' /\ FirstClaimUnique'
    BY DEF WorkerSnapshot, MayWrite, WorkClaimed, FirstClaimUnique
  <2>4. NothingAhead'
    <3>1. loop'.cur.seq <= rec'.seq
      BY ValueFacts
    <3>2. ~retired => /\ \A s \in tasks' : s <= rec.seq
                      /\ \A w \in Workers : wk[w].pc # "idle" => wk[w].seq <= rec.seq
      BY DEF NothingAhead
    <3>3. UNCHANGED <<rec, wk, retired>>
      OBVIOUS
    <3> QED BY ONLY <3>1, <3>2, <3>3 DEF NothingAhead
  <2> QED BY <2>1, <2>2, <2>3, <2>4 DEF IInv
<1>2. CASE /\ Unraced(loop.rev) /\ WithdrawWrites(loop.cur, status.seq, status.incorporated)
           /\ Store(Record(status.seq, "withdrawn", FALSE)) /\ due' = FALSE
  <2>0. /\ rec.seq <= status.seq
        /\ rev' = lastRev + 1 /\ lastRev' = lastRev + 1 /\ lastRev + 1 <= MaxRev
        /\ rec' \in Values /\ rec'.seq = status.seq /\ rec'.state = "withdrawn" /\ due' = FALSE
    <3>1. rec.seq <= status.seq
      BY <1>2, ValueFacts DEF Withdraw, WithdrawWrites, WithdrawKeeps, Unraced, LoopSnapshot, Ok, Absent
    <3>2. rev' = lastRev + 1 /\ lastRev' = lastRev + 1 /\ lastRev + 1 <= MaxRev
      BY <1>2 DEF Store, Revs
    <3>3. rec' \in Values /\ rec'.seq = status.seq /\ rec'.state = "withdrawn"
      BY <1>2, RecordFacts DEF Store, States
    <3> QED BY <1>2, <3>1, <3>2, <3>3
  <2> USE <2>0
  <2>1. TypeOK'
    <3>2. rec' \in Values /\ rev' \in Revs /\ lastRev' \in Revs
      BY DEF Revs
    <3> QED BY <3>2
  <2>2. Shape'
    <3>1. rev' <= lastRev' /\ loop'.rev <= lastRev' /\ rev' # 0
      BY DEF Revs
    <3>2. \A w \in Workers : wk[w].rev <= lastRev'
      BY DEF Shape, Revs, Worker
    <3> QED BY <3>1, <3>2 DEF Shape
  <2>3. LoopSnapshot' /\ OpenSeen' /\ OpenInFlight'
    BY DEF LoopSnapshot, OpenSeen, OpenInFlight, Open
  <2>4. WorkerSnapshot'
    BY DEF WorkerSnapshot, Shape, Revs, Worker
  <2>5. NothingAhead'
    BY ValueFacts DEF NothingAhead, Worker
  <2>6. WorkClaimed' /\ FirstClaimUnique'
    BY DEF WorkClaimed, FirstClaimUnique
  <2> QED BY <2>1, <2>2, <2>3, <2>4, <2>5, <2>6 DEF IInv
<1> QED BY <1>1, <1>2 DEF Withdraw, bucket

\* Every step of the loop keeps the invariant.
LEMMA LoopInv == IInv /\ LoopNext => IInv'
<1> SUFFICES ASSUME IInv, LoopNext PROVE IInv'
  OBVIOUS
<1> USE ConstantsAssumption
<1>1. CASE Request
  BY <1>1, RequestInv
<1>2. CASE Withdraw
  BY <1>2, WithdrawInv
<1> USE DEF Seqs, IInv, TypeOK, bucket
<1>3. CASE LoopGet
  <2> USE <1>3 DEF LoopGet
  <2>1. TypeOK'
    BY DEF Loop
  <2>2. Shape' /\ LoopSnapshot' /\ WorkerSnapshot'
    BY DEF Shape, LoopSnapshot, WorkerSnapshot, MayWrite
  <2>3. OpenSeen' /\ OpenInFlight' /\ WorkClaimed' /\ FirstClaimUnique'
    BY DEF OpenSeen, OpenInFlight, WorkClaimed, FirstClaimUnique
  <2>4. NothingAhead'
    BY ValueFacts DEF NothingAhead
  <2> QED BY <2>1, <2>2, <2>3, <2>4 DEF IInv
<1>4. CASE LoopRestart \/ Publish \/ CloseWithdrawn \/ Incorporate
  <2>0. loop' = NotRead /\ loop'.read = FALSE /\ loop'.cur.seq = 0 /\ loop'.rev = 0 /\ loop' \in Loop
    <3>1. loop' = NotRead
      BY <1>4 DEF LoopRestart, Publish, CloseWithdrawn, Incorporate
    <3> QED BY <3>1 DEF NotRead, Loop, Values, Revs, Absent
  <2>1. UNCHANGED <<bucket, wk>>
    BY <1>4 DEF LoopRestart, Publish, CloseWithdrawn, Incorporate
  <2>2. /\ tasks' \in SUBSET Seqs
        /\ ~retired => \A s \in tasks' : s <= rec.seq
    <3>1. CASE UNCHANGED tasks
      BY <3>1 DEF NothingAhead
    <3>2. CASE Publish
      <4>1. status.seq \in Seqs /\ tasks' = tasks \cup {status.seq} /\ loop.cur.seq = status.seq
        BY <3>2 DEF Publish, InFlight, Status, Record
      <4> QED BY <4>1 DEF NothingAhead
    <3> QED BY <1>4, <3>1, <3>2 DEF LoopRestart, CloseWithdrawn, Incorporate
  <2>3. /\ status' \in Status
        /\ status'.withdrawing => status'.seq > status'.closed
        /\ rec.state \in Open => rec.seq > status'.closed
    <3>1. CASE UNCHANGED status
      BY <3>1 DEF Shape, OpenInFlight
    <3>2. CASE CloseWithdrawn
      <4>1. loop.cur.state = "withdrawn" /\ loop.read
        BY <3>2 DEF CloseWithdrawn, Record
      <4>2. rec.state \notin Open
        BY <4>1 DEF OpenSeen, Open
      <4>3. status' \in Status /\ ~status'.withdrawing
        BY <3>2 DEF CloseWithdrawn, Status
      <4> QED BY <4>2, <4>3
    <3>3. CASE Incorporate
      <4>1. TerminalAnswered(loop.cur.state) /\ loop.read
        BY <3>3 DEF Incorporate
      <4>2. rec.state \notin Open
        BY <4>1 DEF OpenSeen, Open, TerminalAnswered
      <4>3. loop.cur.seq \in 0 .. MaxSeq
        BY ValueFacts DEF Loop
      <4>4. status' \in Status
        BY <3>3, <4>3 DEF Incorporate, Status
      <4>5. status'.withdrawing => status'.seq > status'.closed
        BY <3>3, <4>3 DEF Incorporate, Shape, Status
      <4> QED BY <4>2, <4>4, <4>5
    <3> QED BY <1>4, <3>1, <3>2, <3>3 DEF LoopRestart, Publish
  <2> USE <2>0, <2>1, <2>2, <2>3
  <2>4. TypeOK'
    OBVIOUS
  <2>5. Shape' /\ LoopSnapshot'
    BY DEF Shape, LoopSnapshot, Revs
  <2>6. OpenSeen' /\ OpenInFlight' /\ WorkClaimed' /\ FirstClaimUnique'
    BY DEF OpenSeen, OpenInFlight, WorkClaimed, FirstClaimUnique
  <2>7. WorkerSnapshot'
    BY DEF WorkerSnapshot, MayWrite
  <2>8. NothingAhead'
    BY ValueFacts DEF NothingAhead
  <2> QED BY <2>4, <2>5, <2>6, <2>7, <2>8 DEF IInv
<1>5. CASE Issue \/ StartWithdraw
  <2>1. UNCHANGED <<bucket, loop, tasks, wk>>
    BY <1>5 DEF Issue, StartWithdraw
  <2>2. /\ status' \in Status /\ status'.closed = status.closed
        /\ status'.withdrawing => status'.seq > status'.closed
    <3>1. CASE Issue
      BY <3>1 DEF Issue, InFlight, Status, Shape, NextSeq
    <3>2. CASE StartWithdraw
      BY <3>2 DEF StartWithdraw, InFlight, Status
    <3> QED BY <1>5, <3>1, <3>2
  <2> USE <2>1, <2>2
  <2>3. TypeOK'
    OBVIOUS
  <2>4. Shape' /\ LoopSnapshot' /\ WorkerSnapshot'
    BY DEF Shape, LoopSnapshot, WorkerSnapshot, MayWrite
  <2>5. OpenSeen' /\ OpenInFlight' /\ NothingAhead' /\ WorkClaimed' /\ FirstClaimUnique'
    BY DEF OpenSeen, OpenInFlight, NothingAhead, WorkClaimed, FirstClaimUnique
  <2> QED BY <2>3, <2>4, <2>5 DEF IInv
<1> QED BY <1>1, <1>2, <1>3, <1>4, <1>5 DEF LoopNext

\* Every step of a worker keeps the invariant: a write lands only over a value
\* its verdict still stands for.
LEMMA WorkerInv == ASSUME NEW w \in Workers, IInv, WorkerNext(w) PROVE IInv'
<1> USE ConstantsAssumption DEF IInv, TypeOK, Seqs, bucket
<1>0. /\ UNCHANGED <<status, loop, retired>> /\ tasks' \subseteq tasks
      /\ \A v \in Workers \ {w} : wk'[v] = wk[v]
  <2>1. UNCHANGED <<status, loop, retired>>
    BY DEF WorkerNext, Deliver, Read, Write, Raced, Finish, WorkerCrash
  <2>2. tasks' \subseteq tasks
    BY DEF WorkerNext, Deliver, Read, Write, Raced, Finish, WorkerCrash
  <2>3. \A v \in Workers \ {w} : wk'[v] = wk[v]
    BY DEF WorkerNext, Deliver, Read, Write, Raced, Finish, WorkerCrash
  <2> QED BY <2>1, <2>2, <2>3
<1>1. CASE /\ UNCHANGED bucket
           /\ wk' \in [Workers -> Worker]
           /\ wk'[w].rev <= lastRev
           /\ wk'[w].fact => wk'[w].state = "answered"
           /\ wk'[w].pc # "idle" => wk'[w].seq \in Seqs /\ (~retired => wk'[w].seq <= rec.seq)
           /\ wk'[w].pc = "cas" => (wk'[w].rev = rev => MayWrite(w)') /\ (wk'[w].op # "answer" => wk'[w].rev # 0)
           /\ wk'[w].pc # "working"
  <2> USE <1>0, <1>1
  <2>1. TypeOK'
    OBVIOUS
  <2>2. Shape'
    BY DEF Shape
  <2>3. LoopSnapshot' /\ OpenSeen' /\ OpenInFlight'
    BY DEF LoopSnapshot, OpenSeen, OpenInFlight
  <2>4. WorkerSnapshot'
    BY DEF WorkerSnapshot, MayWrite
  <2>5. NothingAhead' /\ WorkClaimed' /\ FirstClaimUnique'
    BY DEF NothingAhead, WorkClaimed, FirstClaimUnique
  <2> QED BY <2>1, <2>2, <2>3, <2>4, <2>5 DEF IInv
<1>2. ASSUME wk' = [wk EXCEPT ![w] = Idle], UNCHANGED bucket PROVE IInv'
  <2>1. wk'[w] = Idle /\ wk' \in [Workers -> Worker]
    BY <1>2 DEF Idle, Worker, Revs
  <2> QED BY <1>1, <1>2, <2>1 DEF Idle, Revs
<1>3. CASE Deliver(w)
  <2>1. PICK s \in tasks, re \in BOOLEAN, op \in {"claim", "defer"} :
          wk' = [wk EXCEPT ![w] = [Idle EXCEPT !.pc = "read", !.op = op, !.seq = s, !.re = re]]
    BY <1>3 DEF Deliver
  <2>2. wk'[w] = [Idle EXCEPT !.pc = "read", !.op = op, !.seq = s, !.re = re]
    BY <2>1
  <2>3. wk' \in [Workers -> Worker]
    <3>1. wk'[w] = [pc |-> "read", op |-> op, seq |-> s, re |-> re, state |-> "failed",
                    fact |-> FALSE, rev |-> 0, tries |-> 0]
      BY <2>2 DEF Idle
    <3>2. /\ s \in 0 .. MaxSeq /\ 0 \in Revs /\ 0 \in 0 .. CASAttempts
          /\ "read" \in {"idle", "read", "cas", "working"} /\ "failed" \in {"answered", "failed"}
          /\ op \in {"claim", "defer", "answer"}
      BY DEF Revs
    <3>3. [pc |-> "read", op |-> op, seq |-> s, re |-> re, state |-> "failed",
           fact |-> FALSE, rev |-> 0, tries |-> 0] \in Worker
      BY <3>2, WorkerFields, Zenon
    <3>4. wk'[w] \in Worker
      BY <3>1, <3>3
    <3> QED BY <2>1, <3>4
  <2> QED BY <1>1, <1>3, <2>2, <2>3 DEF Deliver, Idle, Revs, NothingAhead
<1>4. CASE Read(w)
  <2>1. CASE wk' = [wk EXCEPT ![w].pc = "cas", ![w].rev = rev] /\ \E d \in BOOLEAN : Writes(w, d)
    <3>1. wk'[w] = [wk[w] EXCEPT !.pc = "cas", !.rev = rev]
      BY <2>1
    <3>2. wk'[w] \in Worker
      BY <3>1 DEF Worker
    <3>3. wk[w].pc # "idle" /\ UNCHANGED bucket
      BY <1>4 DEF Read
    <3>4. MayWrite(w)' /\ (wk[w].op # "answer" => rev # 0)
      <4>1. MayWrite(w) /\ (wk[w].op # "answer" => rec.state # "absent")
        <5>1. CASE wk[w].op = "claim"
          BY <2>1, <5>1, ValueFacts DEF MayWrite, Writes, ClaimWrites, Progresses, NotYet, Superseded, Open, Ok, TerminalAnswered, Worker
        <5>2. CASE wk[w].op = "defer"
          BY <2>1, <5>2, ValueFacts DEF MayWrite, Writes, DeferWrites, Progresses, NotYet, Superseded, Open, Ok, TerminalAnswered, Worker
        <5>3. CASE wk[w].op = "answer"
          BY <2>1, <5>3 DEF MayWrite, Writes
        <5> QED BY <5>1, <5>2, <5>3 DEF Worker
      <4>2. MayWrite(w)' <=> MayWrite(w)
        BY <3>1, <3>3 DEF MayWrite, Worker
      <4> QED BY <4>1, <4>2, ValueFacts DEF Shape
    <3> QED BY <1>1, <2>1, <3>1, <3>2, <3>3, <3>4 DEF Shape, NothingAhead, Worker
  <2>2. CASE wk' = [wk EXCEPT ![w] = Idle]
    BY <1>2, <1>4, <2>2 DEF Read
  <2> QED BY <1>4, <2>1, <2>2 DEF Read
<1>5. CASE Raced(w)
  <2>1. CASE wk[w].tries + 1 < CASAttempts
    <3>1. wk'[w] = [wk[w] EXCEPT !.pc = "read", !.tries = wk[w].tries + 1]
      BY <1>5, <2>1 DEF Raced
    <3>2. wk'[w] \in Worker
      <4>1. wk[w].tries + 1 \in 0 .. CASAttempts
        BY <2>1 DEF Worker
      <4> QED BY <3>1, <4>1, Zenon DEF Worker
    <3>3. wk[w].pc # "idle" /\ UNCHANGED bucket /\ wk' \in [Workers -> Worker]
      BY <1>5, <3>2 DEF Raced
    <3> QED BY <1>1, <3>1, <3>3 DEF Shape, NothingAhead, Worker
  <2>2. CASE ~(wk[w].tries + 1 < CASAttempts)
    BY <1>2, <1>5, <2>2 DEF Raced
  <2> QED BY <2>1, <2>2
<1>6. CASE Finish(w)
  <2>1. PICK st \in {"answered", "failed"}, f \in BOOLEAN :
          /\ f => st = "answered"
          /\ wk' = [wk EXCEPT ![w].pc = "read", ![w].op = "answer",
                              ![w].state = st, ![w].fact = f, ![w].tries = 0]
    BY <1>6 DEF Finish
  <2>2. wk'[w] = [wk[w] EXCEPT !.pc = "read", !.op = "answer", !.state = st, !.fact = f, !.tries = 0]
    BY <2>1
  <2>3. wk'[w] \in Worker
    <3>1. wk[w] = [pc |-> wk[w].pc, op |-> wk[w].op, seq |-> wk[w].seq, re |-> wk[w].re, state |-> wk[w].state,
                   fact |-> wk[w].fact, rev |-> wk[w].rev, tries |-> wk[w].tries]
      BY DEF Worker
    <3>2. wk'[w] = [pc |-> "read", op |-> "answer", seq |-> wk[w].seq, re |-> wk[w].re, state |-> st,
                    fact |-> f, rev |-> wk[w].rev, tries |-> 0]
      BY <2>2, <3>1
    <3>3. /\ wk[w].seq \in 0 .. MaxSeq /\ wk[w].rev \in Revs /\ 0 \in 0 .. CASAttempts
          /\ "read" \in {"idle", "read", "cas", "working"} /\ "answer" \in {"claim", "defer", "answer"}
      BY DEF Worker
    <3>4. wk[w].re \in BOOLEAN
      BY Zenon DEF Worker
    <3>5. [pc |-> "read", op |-> "answer", seq |-> wk[w].seq, re |-> wk[w].re, state |-> st,
           fact |-> f, rev |-> wk[w].rev, tries |-> 0] \in Worker
      BY <3>3, <3>4, WorkerFields, Zenon
    <3> QED BY <3>2, <3>5
  <2>4. wk[w].pc # "idle" /\ UNCHANGED bucket /\ wk' \in [Workers -> Worker]
    BY <1>6, <2>1, <2>3 DEF Finish
  <2>5. /\ wk'[w].pc = "read" /\ wk'[w].seq = wk[w].seq /\ wk'[w].rev = wk[w].rev
        /\ wk'[w].fact = f /\ wk'[w].state = st
    BY <2>2 DEF Worker
  <2>6. wk[w].rev <= lastRev /\ wk[w].seq \in Seqs BY <2>4 DEF Shape
  <2>7. ~retired => wk[w].seq <= rec.seq BY <2>4 DEF NothingAhead
  <2> QED BY <1>1, <2>1, <2>4, <2>5, <2>6, <2>7
<1>7. CASE Write(w)
  <2>0. PICK r \in Values : /\ Store(r) /\ r.seq = wk[w].seq /\ r.state # "absent"
                            /\ \/ wk[w].op = "claim" /\ r.state = "claimed" /\ wk' = [wk EXCEPT ![w].pc = "working"]
                               \/ wk[w].op = "defer" /\ r.state = "deferred" /\ wk' = [wk EXCEPT ![w] = Idle]
                               \/ wk[w].op = "answer" /\ r.state \notin Open /\ wk' = [wk EXCEPT ![w] = Idle]
    <3>1. wk[w].seq \in Seqs /\ wk[w].state \in {"answered", "failed"} /\ wk[w].fact \in BOOLEAN
          /\ (wk[w].fact => wk[w].state = "answered")
      BY <1>7 DEF Write, Shape, Worker
    <3>2. CASE wk[w].op = "claim" /\ Store(Record(wk[w].seq, "claimed", FALSE)) /\ wk' = [wk EXCEPT ![w].pc = "working"]
      <4>1. /\ Record(wk[w].seq, "claimed", FALSE) \in Values
            /\ Record(wk[w].seq, "claimed", FALSE).seq = wk[w].seq
            /\ Record(wk[w].seq, "claimed", FALSE).state = "claimed"
        BY <3>1, RecordFacts DEF States
      <4> QED BY <3>2, <4>1
    <3>3. CASE wk[w].op = "defer" /\ Store(Record(wk[w].seq, "deferred", FALSE)) /\ wk' = [wk EXCEPT ![w] = Idle]
      <4>1. /\ Record(wk[w].seq, "deferred", FALSE) \in Values
            /\ Record(wk[w].seq, "deferred", FALSE).seq = wk[w].seq
            /\ Record(wk[w].seq, "deferred", FALSE).state = "deferred"
        BY <3>1, RecordFacts DEF States
      <4> QED BY <3>3, <4>1
    <3>4. CASE wk[w].op = "answer" /\ Store(Record(wk[w].seq, wk[w].state, wk[w].fact)) /\ wk' = [wk EXCEPT ![w] = Idle]
      BY <3>1, <3>4, AnswerFacts DEF Open
    <3> QED BY <1>7, <3>2, <3>3, <3>4 DEF Write
  <2>1. /\ wk[w].pc = "cas" /\ wk[w].rev = rev /\ MayWrite(w) /\ wk[w].seq \in Seqs
        /\ rec' = r /\ rev' = lastRev + 1 /\ lastRev' = lastRev + 1 /\ lastRev + 1 <= MaxRev /\ due' = FALSE
    BY <1>7, <2>0 DEF Write, Unraced, WorkerSnapshot, Store, Shape, Revs
  <2>2. wk' \in [Workers -> Worker] /\ wk'[w].rev <= lastRev /\ wk'[w].pc \in {"idle", "working"}
        /\ (wk'[w].fact => wk'[w].state = "answered")
        /\ (wk'[w].pc = "working" => wk'[w].seq = wk[w].seq /\ wk[w].op = "claim" /\ wk'[w].re = wk[w].re)
    <3>1. CASE wk' = [wk EXCEPT ![w] = Idle]
      BY <3>1 DEF Idle, Worker, Revs
    <3>2. CASE wk[w].op = "claim" /\ wk' = [wk EXCEPT ![w].pc = "working"]
      <4>1. wk'[w] = [wk[w] EXCEPT !.pc = "working"]
        BY <3>2
      <4>2. wk'[w] \in Worker
        BY <4>1 DEF Worker
      <4> QED BY <3>2, <4>1, <4>2 DEF Shape, Worker
    <3> QED BY <2>0, <3>1, <3>2
  <2>3. rec.seq <= r.seq
    BY <2>0, <2>1, ValueFacts DEF MayWrite, AnswerWrites, Ok, Absent, Worker
  <2> USE <1>0, <2>1
  <2>4. TypeOK'
    <3>1. rev' \in Revs /\ lastRev' \in Revs
      BY DEF Revs
    <3>2. rec' \in Values
      BY <2>0
    <3> QED BY <2>2, <3>1, <3>2
  <2>5. Shape'
    <3>1. rev' <= lastRev' /\ loop'.rev <= lastRev' /\ rev' # 0
      BY DEF Revs, Shape, Loop
    <3>2. \A v \in Workers : wk'[v].rev <= lastRev'
      BY <2>2 DEF Shape, Revs, Worker
    <3> QED BY <2>2, <3>1, <3>2 DEF Shape
  <2>6. LoopSnapshot'
    BY DEF LoopSnapshot, Shape, Revs, Loop
  <2>7. OpenSeen' /\ OpenInFlight'
    BY <2>0 DEF OpenSeen, OpenInFlight, MayWrite, Open
  <2>8. WorkerSnapshot'
    BY <2>2 DEF WorkerSnapshot, Shape, Revs, Worker
  <2>9. NothingAhead'
    BY <2>0, <2>2, <2>3, ValueFacts DEF NothingAhead, Worker, Loop
  <2>10. WorkClaimed'
    BY <2>0, <2>2, <2>3, ValueFacts DEF WorkClaimed, MayWrite, Open, Worker
  <2>11. FirstClaimUnique'
    BY <2>0, <2>2 DEF WorkClaimed, MayWrite, Open, FirstClaimUnique
  <2> QED BY <2>4, <2>5, <2>6, <2>7, <2>8, <2>9, <2>10, <2>11 DEF IInv
<1> QED BY <1>2, <1>3, <1>4, <1>5, <1>6, <1>7 DEF WorkerNext, WorkerCrash

\* The invariant holds before anything is stored.
LEMMA InitInv == Init => IInv
<1> SUFFICES ASSUME Init PROVE IInv
  OBVIOUS
<1> USE ConstantsAssumption DEF Init, Seqs
<1>1. TypeOK
  <2>1. rec \in Values /\ rev \in Revs /\ lastRev \in Revs /\ tasks \in SUBSET Seqs
    BY DEF Values, Revs
  <2>2. status \in Status /\ loop \in Loop
    BY DEF Values, Revs, Status, Loop, NotRead
  <2>3. Idle \in Worker
    BY DEF Revs, Worker, Idle
  <2> QED BY <2>1, <2>2, <2>3 DEF TypeOK
<1>2. Shape /\ LoopSnapshot /\ WorkerSnapshot
  BY DEF Shape, LoopSnapshot, WorkerSnapshot, NotRead, Idle
<1>3. OpenSeen /\ OpenInFlight /\ NothingAhead /\ WorkClaimed /\ FirstClaimUnique
  BY DEF OpenSeen, OpenInFlight, NothingAhead, WorkClaimed, FirstClaimUnique, Open, Absent, NotRead, Idle
<1> QED BY <1>1, <1>2, <1>3 DEF IInv

\* Every step keeps the invariant.
LEMMA NextInv == IInv /\ [Next]_vars => IInv'
<1> SUFFICES ASSUME IInv, [Next]_vars PROVE IInv'
  OBVIOUS
<1> USE ConstantsAssumption
<1>1. CASE LoopNext
  BY <1>1, LoopInv
<1>2. ASSUME NEW w \in Workers, WorkerNext(w) PROVE IInv'
  BY <1>2, WorkerInv
<1> USE DEF IInv, TypeOK
<1>3. CASE Retire
  <2> USE <1>3 DEF Retire
  <2>1. TypeOK'
    <3>1. rec' \in Values /\ rev' \in Revs
      BY DEF Values, Revs
    <3> QED BY <3>1
  <2>2. Shape'
    BY DEF Shape, Revs
  <2>3. LoopSnapshot' /\ OpenSeen' /\ OpenInFlight' /\ NothingAhead' /\ WorkClaimed' /\ FirstClaimUnique'
    BY DEF LoopSnapshot, OpenSeen, OpenInFlight, NothingAhead, WorkClaimed, FirstClaimUnique, Open, Absent
  <2>4. WorkerSnapshot'
    <3>1. ~Ok(rec')
      BY DEF Ok, Absent
    <3> QED BY <3>1 DEF WorkerSnapshot, MayWrite, AnswerWrites, Worker
  <2> QED BY <2>1, <2>2, <2>3, <2>4 DEF IInv
<1>4. CASE DeferralPasses
  BY <1>4 DEF DeferralPasses, Shape, LoopSnapshot, WorkerSnapshot, MayWrite, OpenSeen, OpenInFlight,
              NothingAhead, WorkClaimed, FirstClaimUnique
<1>5. CASE UNCHANGED vars
  BY <1>5 DEF vars, Shape, LoopSnapshot, WorkerSnapshot, MayWrite, OpenSeen, OpenInFlight,
              NothingAhead, WorkClaimed, FirstClaimUnique
<1> QED BY <1>1, <1>2, <1>3, <1>4, <1>5 DEF Next

\* The inductive invariant holds in every state of every behaviour of the
\* record protocol.
THEOREM Invariance == Spec => []IInv
BY InitInv, NextInv, PTL DEF Spec

\* Type correctness of the bucket key, the loop and the workers.
THEOREM TypeCorrect == Spec => []TypeOK
<1>1. IInv => TypeOK
  BY DEF IInv
<1> QED BY <1>1, Invariance, PTL

\* Answerer.Claim without reclaim is exclusive: of all first deliveries of a
\* task at most one worker is at work (until a TTL retires the record).
THEOREM ClaimsExclusive == Spec => []FirstClaimUnique
<1>1. IInv => FirstClaimUnique
  BY DEF IInv
<1> QED BY <1>1, Invariance, PTL

\* The only steps that change the stored value, and what each may replace.
LEMMA StepOfRecord ==
    ASSUME IInv, [Next]_vars, rec' # rec
    PROVE  \/ rec' = Absent /\ retired'
           \/ /\ rec'.seq = status.seq /\ rec'.state = "requested"
              /\ ~RefuseFact(rec, status.incorporated) /\ rec.seq < status.seq
           \/ /\ rec'.seq = status.seq /\ rec'.state = "withdrawn"
              /\ WithdrawWrites(rec, status.seq, status.incorporated)
           \/ \E w \in Workers : /\ wk[w].pc = "cas" /\ MayWrite(w) /\ rec'.seq = wk[w].seq
                                 /\ rec'.state \notin Open => wk[w].op = "answer"
<1> USE DEF IInv
<1>1. CASE Retire
  BY <1>1 DEF Retire
<1>2. CASE Request
  BY <1>2 DEF Request, Unraced, MayRequest, Store, Record, LoopSnapshot, bucket
<1>3. CASE Withdraw
  BY <1>3 DEF Withdraw, Unraced, Store, Record, LoopSnapshot, bucket
<1>4. CASE \E w \in Workers : Write(w)
  BY <1>4 DEF Write, Unraced, Store, Record, WorkerSnapshot, Open
<1>5. CASE UNCHANGED rec
  BY <1>5
<1> QED
  BY <1>1, <1>2, <1>3, <1>4, <1>5
  DEF Next, vars, LoopNext, WorkerNext, DeferralPasses, LoopGet, LoopRestart, Issue, Publish, StartWithdraw,
      CloseWithdrawn, Incorporate, Deliver, Read, Raced, Finish, WorkerCrash, bucket

\* A stale reader never takes the key back to an earlier dispatch (store.write's
\* compare-and-swap under every operation).
THEOREM SeqMonotone == Spec => SeqNeverDecreases
<1>1. IInv /\ [Next]_vars => [Ok(rec) /\ Ok(rec') => rec'.seq >= rec.seq]_vars
  <2> SUFFICES ASSUME IInv, [Next]_vars, Ok(rec), Ok(rec') PROVE rec'.seq >= rec.seq
    OBVIOUS
  <2> USE DEF IInv
  <2>0. rec.seq \in Int /\ status.seq \in Int /\ \A w \in Workers : wk[w].seq \in Int
    BY ValueFacts DEF TypeOK, Status, Worker
  <2>1. CASE rec' = rec
    BY <2>0, <2>1
  <2>2. CASE rec' # rec
    BY <2>0, <2>2, StepOfRecord DEF Ok, Absent, MayWrite, AnswerWrites, WithdrawWrites, WithdrawKeeps, TypeOK, Worker
  <2> QED BY <2>1, <2>2
<1> QED BY <1>1, Invariance, PTL DEF Spec, SeqNeverDecreases

\* The first answer of a dispatch stands against every later Answer, Claim,
\* Defer and Withdraw.
THEOREM AnswerStands == Spec => FirstAnswerStands
<1>1. IInv /\ [Next]_vars =>
        [TerminalAnswered(rec.state) /\ Ok(rec') /\ rec'.seq = rec.seq => rec' = rec]_vars
  <2> SUFFICES ASSUME IInv, [Next]_vars, TerminalAnswered(rec.state), Ok(rec'), rec'.seq = rec.seq, rec' # rec
               PROVE  FALSE
    OBVIOUS
  <2> USE DEF IInv
  <2>0. rec.seq \in Int /\ Ok(rec) /\ \A w \in Workers : wk[w].op \in {"claim", "defer", "answer"}
    BY ValueFacts DEF TypeOK, Ok, TerminalAnswered, Worker
  <2> QED
    BY <2>0, StepOfRecord
    DEF Ok, Absent, MayWrite, Open, AnswerWrites, WithdrawWrites, WithdrawKeeps, TerminalAnswered
<1> QED BY <1>1, Invariance, PTL DEF Spec, FirstAnswerStands

\* refuseFact with an honest IncorporatedThrough, and the order status, record,
\* task, keep every unincorporated fact until a TTL retires a value.
THEOREM FactsStay == Spec => FactStays
<1>1. IInv /\ [Next]_vars =>
        [~retired /\ rec.fact /\ rec.seq > status.incorporated => rec' = rec \/ retired']_vars
  <2> SUFFICES ASSUME IInv, [Next]_vars, ~retired, rec.fact, rec.seq > status.incorporated, rec' # rec, ~retired'
               PROVE  FALSE
    OBVIOUS
  <2> USE DEF IInv
  <2>0. rec.seq \in Int /\ rec.state = "answered" /\ \A w \in Workers : wk[w] \in Worker /\ wk[w].seq \in Int
    BY ValueFacts DEF TypeOK, Worker
  <2>1. RefuseFact(rec, status.incorporated) /\ status.seq \in Int
    BY <2>0 DEF RefuseFact, Ok, TerminalAnswered, TypeOK, Status
  <2>2. ~WithdrawWrites(rec, status.seq, status.incorporated)
    BY <2>0, <2>1 DEF WithdrawWrites, WithdrawKeeps, WithdrawRefused, Ok, TerminalAnswered
  <2>3. \A w \in Workers : wk[w].pc = "cas" => ~MayWrite(w)
    BY <2>0 DEF MayWrite, Open, AnswerWrites, NothingAhead, Ok, TerminalAnswered, Worker
  <2> QED BY <2>1, <2>2, <2>3, StepOfRecord
<1> QED BY <1>1, Invariance, PTL DEF Spec, FactStays

\* No worker starts a dispatch the loop has closed.
THEOREM ClosedStaysClosed == Spec => ClosedNeverStarts
<1>1. IInv /\ [Next]_vars => [\A w \in Workers : Starts(w) => wk[w].seq > status.closed]_vars
  <2> SUFFICES ASSUME IInv, [Next]_vars, NEW w \in Workers, Starts(w) PROVE wk[w].seq > status.closed
    OBVIOUS
  <2>1. Write(w) /\ wk[w].op = "claim"
    <3>1. PICK v \in Workers : WorkerNext(v)
      BY DEF Starts, Next, vars, LoopNext, Retire, DeferralPasses, LoopGet, LoopRestart, Issue, Request, Publish,
             StartWithdraw, Withdraw, CloseWithdrawn, Incorporate
    <3>2. v = w
      BY <3>1 DEF Starts, WorkerNext, Deliver, Read, Write, Raced, Finish, WorkerCrash, IInv, TypeOK
    <3>3. wk \in [Workers -> Worker]
      BY DEF IInv, TypeOK
    <3>10. wk' # [wk EXCEPT ![w] = Idle]
      BY <3>3 DEF Starts, Idle
    <3>11. ASSUME NEW x, wk' = [wk EXCEPT ![w].pc = "cas", ![w].rev = x] PROVE FALSE
      BY <3>3, <3>11 DEF Starts, Worker
    <3>4. ~Read(w) /\ ~WorkerCrash(w)
      BY <3>10, <3>11 DEF Read, WorkerCrash
    <3>12. ~Raced(w)
      <4> SUFFICES ASSUME Raced(w), wk[w].tries + 1 < CASAttempts PROVE FALSE
        BY <3>10 DEF Raced
      <4>1. wk'[w] = [wk[w] EXCEPT !.pc = "read", !.tries = wk[w].tries + 1]
        BY <3>3 DEF Raced
      <4> QED BY <3>3, <4>1 DEF Starts, Worker
    <3>5. ~Deliver(w)
      BY <3>3 DEF Starts, Deliver, Idle
    <3>6. ~Finish(w)
      BY DEF Starts, Finish
    <3>7. Write(w) => wk[w].op = "claim"
      BY <3>10 DEF Write
    <3> QED BY <3>1, <3>2, <3>4, <3>12, <3>5, <3>6, <3>7 DEF WorkerNext
  <2>2. MayWrite(w)
    BY <2>1 DEF Write, Unraced, IInv, WorkerSnapshot
  <2> QED BY <2>1, <2>2 DEF MayWrite, IInv, OpenInFlight
<1> QED BY <1>1, Invariance, PTL DEF Spec, ClosedNeverStarts

-----------------------------------------------------------------------------
(* Refinement: Records implements RecordLife.                              *)

\* The status runs ahead of everything: no record, task or worker is at a
\* dispatch the loop has not issued.
StatusFirst ==
    /\ rec.seq <= status.seq /\ loop.cur.seq <= status.seq
    /\ \A s \in tasks : s <= status.seq
    /\ \A w \in Workers : wk[w].seq <= status.seq

\* An answer a pass has read is still stored, or a later dispatch is.
ReadStands ==
    ~retired /\ loop.read /\ TerminalAnswered(loop.cur.state)
        => rec = loop.cur \/ rec.seq > loop.cur.seq

LInv == IInv /\ StatusFirst /\ ReadStands

\* The numbers the steps compare are integers.
LEMMA SeqsAreInts ==
    ASSUME IInv
    PROVE  /\ rec.seq \in Int /\ loop.cur.seq \in Int
           /\ status.seq \in Nat /\ status.incorporated \in Nat /\ status.closed \in Nat
           /\ \A s \in tasks : s \in Int
           /\ \A w \in Workers : wk[w] \in Worker /\ wk[w].seq \in Int
<1>1. rec.seq \in Int /\ loop.cur.seq \in Int
  BY ValueFacts DEF IInv, TypeOK, Loop
<1>2. status.seq \in Nat /\ status.incorporated \in Nat /\ status.closed \in Nat
  BY DEF IInv, TypeOK, Status
<1>3. \A s \in tasks : s \in Int
  BY DEF IInv, TypeOK, Seqs
<1>4. \A w \in Workers : wk[w] \in Worker /\ wk[w].seq \in Int
  BY DEF IInv, TypeOK, Worker
<1> QED BY <1>1, <1>2, <1>3, <1>4

\* Only Issue moves the status's seq, and upwards; the rest copies what is at or
\* below it.
LEMMA StatusFirstStep == IInv /\ StatusFirst /\ [Next]_vars => StatusFirst'
<1> SUFFICES ASSUME IInv, StatusFirst, [Next]_vars PROVE StatusFirst'
  OBVIOUS
<1>0. wk \in [Workers -> Worker] /\ status \in Status
  BY DEF IInv, TypeOK
<1>8. /\ rec.seq \in Int /\ loop.cur.seq \in Int /\ status.seq \in Nat
      /\ \A s \in tasks : s \in Int
      /\ \A w \in Workers : wk[w].seq \in Int
  BY SeqsAreInts
<1>9. /\ rec.seq <= status.seq /\ loop.cur.seq <= status.seq
      /\ \A s \in tasks : s <= status.seq
      /\ \A w \in Workers : wk[w].seq <= status.seq
  BY DEF StatusFirst
<1>1. CASE Retire
  <2>1. rec'.seq <= status'.seq
    BY <1>1, <1>8 DEF Retire, Absent
  <2> QED BY <1>1, <1>9, <2>1 DEF Retire, StatusFirst
<1>2. CASE UNCHANGED <<rec, status, wk>> /\ (loop' = loop \/ loop'.cur \in {rec, Absent})
                 /\ tasks' \subseteq tasks \cup {status.seq}
  <2>1. loop'.cur.seq <= status.seq
    BY <1>2, <1>8, <1>9 DEF Absent
  <2>2. \A s \in tasks' : s <= status.seq
    BY <1>2, <1>8, <1>9
  <2> QED BY <1>2, <1>9, <2>1, <2>2 DEF StatusFirst
<1>3. CASE UNCHANGED <<rec, tasks, wk>> /\ status'.seq \in Nat /\ status'.seq >= status.seq
                 /\ (loop' = loop \/ loop'.cur = Absent)
  <2>1. \A n \in Int : n <= status.seq => n <= status'.seq
    BY <1>3, <1>8
  <2>2. loop'.cur.seq <= status'.seq
    BY <1>3, <1>8, <1>9, <2>1 DEF Absent
  <2> QED BY <1>3, <1>8, <1>9, <2>1, <2>2 DEF StatusFirst
<1>4. CASE UNCHANGED <<status, wk>> /\ (rec' = rec \/ rec'.seq = status.seq) /\ tasks' \subseteq tasks
                 /\ (loop'.cur = rec' \/ loop'.cur = Absent)
  <2>1. rec'.seq <= status.seq
    BY <1>4, <1>8, <1>9
  <2>2. loop'.cur.seq <= status.seq
    BY <1>4, <1>8, <2>1 DEF Absent
  <2> QED BY <1>4, <1>9, <2>1, <2>2 DEF StatusFirst
<1>5. CASE LoopNext
  <2>1. CASE LoopGet
    BY <1>2, <2>1 DEF LoopGet, bucket
  <2>6. CASE LoopRestart
    BY <1>2, <2>6 DEF LoopRestart, NotRead, bucket
  <2>7. CASE Publish
    BY <1>2, <2>7 DEF Publish, NotRead, bucket
  <2>2. CASE Issue
    BY <1>0, <1>3, <1>8, <2>2 DEF Issue, NextSeq, Status, Seqs, bucket
  <2>3. CASE Request
    BY <1>4, <2>3 DEF Request, Store, Record, NotRead, bucket
  <2>4. CASE Withdraw
    BY <1>4, <2>4 DEF Withdraw, Store, Record, NotRead, bucket
  <2>5. CASE StartWithdraw
    BY <1>0, <1>3, <1>8, <2>5 DEF StartWithdraw, Status, bucket
  <2>8. CASE CloseWithdrawn
    BY <1>0, <1>3, <1>8, <2>8 DEF CloseWithdrawn, Status, NotRead, bucket
  <2>9. CASE Incorporate
    BY <1>0, <1>3, <1>8, <2>9 DEF Incorporate, Status, NotRead, bucket
  <2> QED BY <1>5, <2>1, <2>2, <2>3, <2>4, <2>5, <2>6, <2>7, <2>8, <2>9 DEF LoopNext
<1>6. CASE DeferralPasses \/ UNCHANGED vars
  BY <1>2, <1>6 DEF DeferralPasses, vars
<1>7. ASSUME NEW w \in Workers, WorkerNext(w) PROVE StatusFirst'
  <2>1. wk'[w].seq = wk[w].seq \/ wk'[w].seq = 0 \/ wk'[w].seq \in tasks
    <3>1. CASE Deliver(w)
      BY <1>0, <3>1 DEF Deliver, Idle
    <3>2. CASE Read(w)
      BY <1>0, <3>2 DEF Read, Idle, Worker
    <3>3. CASE Write(w)
      <4>1. wk' = [wk EXCEPT ![w].pc = "working"] \/ wk' = [wk EXCEPT ![w] = Idle]
        BY <3>3 DEF Write
      <4> QED BY <1>0, <4>1 DEF Idle, Worker
    <3>4. CASE Raced(w)
      BY <1>0, <3>4 DEF Raced, Idle, Worker
    <3>5. CASE Finish(w)
      BY <1>0, <3>5 DEF Finish, Worker
    <3>6. CASE WorkerCrash(w)
      BY <1>0, <3>6 DEF WorkerCrash, Idle
    <3> QED BY <1>7, <3>1, <3>2, <3>3, <3>4, <3>5, <3>6 DEF WorkerNext
  <2>2. \A v \in Workers \ {w} : wk'[v] = wk[v]
    BY <1>0, <1>7 DEF WorkerNext, Deliver, Read, Write, Raced, Finish, WorkerCrash
  <2>3. UNCHANGED <<status, loop>> /\ tasks' \subseteq tasks
    BY <1>7 DEF WorkerNext, Deliver, Read, Write, Raced, Finish, WorkerCrash
  <2>4. rec' = rec \/ rec'.seq = wk[w].seq
    <3>1. CASE Write(w)
      BY <3>1 DEF Write, Store, Record
    <3>2. CASE UNCHANGED bucket
      BY <3>2 DEF bucket
    <3> QED BY <1>7, <3>1, <3>2 DEF WorkerNext, Deliver, Read, Raced, Finish, WorkerCrash
  <2>5. \A v \in Workers : wk'[v].seq <= status.seq
    BY <1>8, <1>9, <2>1, <2>2
  <2> QED BY <1>9, <2>3, <2>4, <2>5 DEF StatusFirst
<1> QED BY <1>1, <1>5, <1>6, <1>7 DEF Next

\* Nothing that is written takes the record back.
LEMMA NeverBack ==
    ASSUME IInv, [Next]_vars, rec' # rec, ~retired'
    PROVE  rec'.seq >= rec.seq
<1>0. /\ rec.seq \in Int /\ status.seq \in Nat
      /\ \A w \in Workers : wk[w].seq \in Int /\ wk[w].op \in {"claim", "defer", "answer"}
  BY SeqsAreInts DEF Worker
<1>1. rec \in Values /\ (~Ok(rec) => rec.seq = 0) /\ \A w \in Workers : wk[w].seq >= 0
  BY ValueFacts DEF IInv, TypeOK, Worker, Ok, Absent
<1> QED
  BY <1>0, <1>1, StepOfRecord DEF MayWrite, AnswerWrites, WithdrawWrites, WithdrawKeeps, Ok

\* Whatever is written over an answer is of a later dispatch.
LEMMA AnswerOutlived ==
    ASSUME IInv, [Next]_vars, TerminalAnswered(rec.state), rec' # rec, ~retired'
    PROVE  rec'.seq > rec.seq
<1>0. /\ rec.seq \in Int /\ status.seq \in Nat
      /\ \A w \in Workers : wk[w].seq \in Int /\ wk[w].op \in {"claim", "defer", "answer"}
  BY SeqsAreInts DEF Worker
<1>1. rec.state \notin Open /\ Ok(rec)
  BY DEF TerminalAnswered, Open, Ok
<1> QED
  BY <1>0, <1>1, StepOfRecord
  DEF MayWrite, Open, AnswerWrites, WithdrawWrites, WithdrawKeeps, TerminalAnswered, Ok

\* A step keeps what a pass has read in place, or moves past it.
LEMMA ReadStandsStep == IInv /\ ReadStands /\ [Next]_vars => ReadStands'
<1> SUFFICES ASSUME IInv, ReadStands, [Next]_vars,
                    ~retired', loop'.read, TerminalAnswered(loop'.cur.state)
             PROVE  rec' = loop'.cur \/ rec'.seq > loop'.cur.seq
  BY DEF ReadStands
<1>1. ~retired
  BY DEF Next, vars, Retire, DeferralPasses, LoopNext, LoopGet, LoopRestart, Issue, Request, Publish, StartWithdraw,
         Withdraw, CloseWithdrawn, Incorporate, WorkerNext, Deliver, Read, Write, Raced, Finish, WorkerCrash, bucket
<1>2. loop' = loop \/ loop'.cur = rec'
  <2>1. CASE LoopGet
    BY <2>1 DEF LoopGet, bucket
  <2>2. CASE Request
    <3>1. loop' = [read |-> TRUE, cur |-> rec', rev |-> rev'] \/ loop' = NotRead
      BY <2>2 DEF Request
    <3> QED BY <3>1 DEF NotRead
  <2>3. CASE loop' = NotRead
    BY <2>3 DEF NotRead
  <2> QED
    BY <2>1, <2>2, <2>3
    DEF Next, vars, Retire, DeferralPasses, LoopNext, LoopRestart, Issue, Publish, StartWithdraw, Withdraw,
        CloseWithdrawn, Incorporate, WorkerNext, Deliver, Read, Write, Raced, Finish, WorkerCrash
<1>3. CASE loop' = loop
  <2>1. rec = loop.cur \/ rec.seq > loop.cur.seq
    BY <1>1, <1>3 DEF ReadStands
  <2>2. CASE rec' = rec
    BY <1>3, <2>1, <2>2
  <2>3. CASE rec' # rec /\ rec = loop.cur
    BY <1>3, <2>3, AnswerOutlived
  <2>4. CASE rec' # rec /\ rec.seq > loop.cur.seq
    <3>1. rec.seq \in Int /\ loop.cur.seq \in Int /\ rec'.seq \in Int
      BY SeqsAreInts, StepOfRecord, <2>4
    <3>2. rec'.seq >= rec.seq
      BY <2>4, NeverBack
    <3> QED BY <1>3, <2>4, <3>1, <3>2
  <2> QED BY <2>1, <2>2, <2>3, <2>4
<1> QED BY <1>2, <1>3

\* A request that lands opens the dispatch the status issued.
LEMMA RequestIsLife == ASSUME LInv, Request PROVE Life!Request \/ UNCHANGED Life!life
<1>0. rec.seq \in Int /\ status.seq \in Nat /\ status.incorporated \in Nat /\ rec \in Values
  BY SeqsAreInts DEF LInv, IInv, TypeOK
<1>1. CASE UNCHANGED bucket
  BY <1>1 DEF Request, bucket, Life!life
<1>2. CASE ~UNCHANGED bucket
  <2>1. /\ Unraced(loop.rev) /\ MayRequest(loop.cur, status.seq, status.incorporated)
        /\ Store(Record(status.seq, "requested", FALSE)) /\ UNCHANGED <<retired, status>>
        /\ loop.read /\ loop.cur.seq < status.seq
    BY <1>2 DEF Request
  <2>2. loop.cur = rec
    BY <2>1 DEF LInv, IInv, LoopSnapshot, Unraced
  <2>3. rec.seq < status.seq /\ ~RefuseFact(rec, status.incorporated)
    BY <2>1, <2>2 DEF MayRequest
  <2>4. ~Life!Unread
    BY <1>0, <2>3, ValueFacts DEF Life!Unread, RefuseFact, Ok, TerminalAnswered
  <2> QED BY <2>1, <2>3, <2>4 DEF Life!Request, Life!Record, Store, Record
<1> QED BY <1>1, <1>2

\* A withdrawal that lands ends a dispatch that is out, and no fact is lost to it.
LEMMA WithdrawIsLife == ASSUME LInv, Withdraw PROVE Life!Withdraw \/ UNCHANGED Life!life
<1>0. rec.seq \in Int /\ status.seq \in Nat /\ status.incorporated \in Nat /\ rec \in Values
  BY SeqsAreInts DEF LInv, IInv, TypeOK
<1>1. CASE UNCHANGED bucket
  BY <1>1 DEF Withdraw, bucket, Life!life
<1>2. CASE ~UNCHANGED bucket
  <2>1. /\ Unraced(loop.rev) /\ WithdrawWrites(loop.cur, status.seq, status.incorporated)
        /\ Store(Record(status.seq, "withdrawn", FALSE)) /\ UNCHANGED <<retired, status>>
        /\ loop.read
    BY <1>2 DEF Withdraw
  <2>2. loop.cur = rec
    BY <2>1 DEF LInv, IInv, LoopSnapshot, Unraced
  <2>3. WithdrawWrites(rec, status.seq, status.incorporated) /\ rec.seq <= status.seq
    BY <2>1, <2>2 DEF LInv, StatusFirst
  <2>6. status.seq > 0
    BY SeqsAreInts DEF Withdraw, LInv, IInv, Shape
  <2>4. rec.seq = status.seq => Life!Live
    BY <1>0, <2>3, <2>6, ValueFacts
    DEF Life!Live, WithdrawWrites, WithdrawKeeps, Ok, TerminalAnswered, Values, RecordSet, States, Absent
  <2>5. rec.seq < status.seq => ~Life!Unread
    BY <1>0, <2>3, ValueFacts
    DEF Life!Unread, WithdrawWrites, WithdrawRefused, RefuseFact, Ok, TerminalAnswered
  <2> QED BY <1>0, <2>1, <2>3, <2>4, <2>5 DEF Life!Withdraw, Life!Record, Store, Record
<1> QED BY <1>1, <1>2

\* A worker's write goes on with the dispatch the record is at, or answers it.
LEMMA WriteIsLife == ASSUME LInv, NEW w \in Workers, Write(w) PROVE Life!Progress \/ Life!Answer
<1>0. /\ rec.seq \in Int /\ status.seq \in Nat /\ rec \in Values
      /\ wk[w] \in Worker /\ wk[w].seq \in Seqs /\ wk[w].seq <= status.seq
      /\ wk[w].fact => wk[w].state = "answered"
  BY SeqsAreInts DEF LInv, IInv, TypeOK, Shape, StatusFirst, Write
<1>1. MayWrite(w) /\ UNCHANGED <<retired, status>>
  BY DEF Write, LInv, IInv, WorkerSnapshot, Unraced
<1>2. CASE wk[w].op = "claim"
  <2>1. rec' = Record(wk[w].seq, "claimed", FALSE)
    BY <1>2 DEF Write, Store
  <2> QED BY <1>1, <1>2, <2>1 DEF MayWrite, Open, Life!Progress, Life!Live, Life!Record, Record
<1>3. CASE wk[w].op = "defer"
  <2>1. rec' = Record(wk[w].seq, "deferred", FALSE)
    BY <1>3 DEF Write, Store
  <2> QED BY <1>1, <1>3, <2>1 DEF MayWrite, Life!Progress, Life!Live, Life!Record, Record
<1>4. CASE wk[w].op = "answer"
  <2>1. rec' = Record(wk[w].seq, wk[w].state, wk[w].fact)
    BY <1>4 DEF Write, Store
  <2>2. wk[w].seq \in 1 .. status.seq /\ wk[w].state \in {"answered", "failed"} /\ wk[w].fact \in BOOLEAN
    BY <1>0 DEF Seqs, Worker
  <2>3. AnswerWrites(rec, wk[w].seq, wk[w].fact) /\ (~retired => wk[w].seq <= rec.seq)
    BY <1>1, <1>4 DEF MayWrite, LInv, IInv, NothingAhead, Write
  <2>4. \/ rec.seq = wk[w].seq /\ (Life!Live \/ (rec.state = "withdrawn" /\ wk[w].fact))
        \/ rec.seq < wk[w].seq /\ retired
    BY <1>0, <2>2, <2>3, ValueFacts
    DEF AnswerWrites, Life!Live, Ok, TerminalAnswered, Values, RecordSet, States, Absent
  <2> QED BY <1>0, <1>1, <2>1, <2>2, <2>4 DEF Life!Answer, Life!Record, Record
<1> QED BY <1>0, <1>2, <1>3, <1>4 DEF Worker

\* What the loop incorporates is an answer that stands, or that was outlived.
LEMMA IncorporateIsLife == ASSUME LInv, Incorporate PROVE Life!Take
<1>0. /\ rec.seq \in Int /\ status.seq \in Nat /\ status.incorporated \in Nat
      /\ status \in Status /\ loop.cur \in Values
  BY SeqsAreInts DEF LInv, IInv, TypeOK, Loop
<1>1. loop.cur.seq \in 1 .. status.seq
  BY <1>0, ValueFacts DEF Incorporate, LInv, StatusFirst, Status
<1>2. retired \/ rec.seq > loop.cur.seq \/ (rec.seq = loop.cur.seq /\ TerminalAnswered(rec.state))
  BY DEF Incorporate, LInv, ReadStands
<1>3. /\ loop.cur.seq > status.incorporated /\ status'.incorporated = loop.cur.seq /\ status'.seq = status.seq
      /\ UNCHANGED <<rec, retired>>
  BY <1>0 DEF Incorporate, bucket
<1> QED BY <1>1, <1>2, <1>3 DEF Life!Take, Life!TerminalAnswered, TerminalAnswered

\* Every step of Records is a step of RecordLife, or leaves it alone.
LEMMA LifeStep == LInv /\ [Next]_vars => [Life!Next]_(Life!life)
<1> SUFFICES ASSUME LInv, [Next]_vars PROVE Life!Next \/ UNCHANGED Life!life
  OBVIOUS
<1>1. CASE Retire
  BY <1>1 DEF Retire, Life!Next, Life!Retire, Life!Absent, Absent
<1>2. CASE Issue
  <2>1. /\ \E n \in Seqs : n > status.seq /\ status' = [status EXCEPT !.seq = n]
        /\ UNCHANGED <<rec, retired>>
    BY <1>2 DEF Issue, NextSeq, bucket
  <2>2. status \in Status
    BY DEF LInv, IInv, TypeOK
  <2> QED BY <2>1, <2>2 DEF Life!Next, Life!Issue, Seqs, Status
<1>3. CASE Request
  BY <1>3, RequestIsLife DEF Life!Next
<1>4. CASE Withdraw
  BY <1>4, WithdrawIsLife DEF Life!Next
<1>5. CASE Incorporate
  BY <1>5, IncorporateIsLife DEF Life!Next
<1>6. CASE \E w \in Workers : Write(w)
  BY <1>6, WriteIsLife DEF Life!Next
<1>7. CASE StartWithdraw \/ CloseWithdrawn
  <2>1. status \in Status
    BY DEF LInv, IInv, TypeOK
  <2> QED BY <1>7, <2>1 DEF StartWithdraw, CloseWithdrawn, Status, bucket, Life!life
<1>8. CASE UNCHANGED <<rec, retired, status>>
  BY <1>8 DEF Life!life
<1> QED
  BY <1>1, <1>2, <1>3, <1>4, <1>5, <1>6, <1>7, <1>8
  DEF Next, vars, LoopNext, WorkerNext, DeferralPasses, LoopGet, LoopRestart, Publish,
      Deliver, Read, Raced, Finish, WorkerCrash, bucket

\* The record protocol, with its reads, revisions, retries and crashes, implements
\* the life of a record: for any workers, any number of dispatches and attempts.
THEOREM RefinesLife == Spec => ImplementsLife
<1>1. Init => LInv
  <2>1. Init => StatusFirst
    BY DEF Init, StatusFirst, NotRead, Idle, Absent
  <2>2. Init => ReadStands
    BY DEF Init, ReadStands, NotRead
  <2> QED BY <2>1, <2>2, InitInv DEF LInv
<1>2. LInv /\ [Next]_vars => LInv'
  BY NextInv, StatusFirstStep, ReadStandsStep DEF LInv
<1>3. Init => Life!Init
  BY DEF Init, Life!Init, Life!Absent, Absent
<1> QED BY <1>1, <1>2, <1>3, LifeStep, PTL DEF Spec, ImplementsLife, Life!Spec
=============================================================================
