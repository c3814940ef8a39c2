---------------------------- MODULE RecordRules ----------------------------
(* The decision tables of pkg/records, as operators on the value a caller  *)
(* read: what Request, Withdraw, Claim, Defer and Answer do with it. The   *)
(* compare-and-swap that follows a "Wrote" decision belongs to the modules *)
(* that keep the bucket (Records, TranscodeDispatch).                      *)
EXTENDS Integers

\* The states of a records-bucket value.
States == {"requested", "withdrawn", "claimed", "deferred", "answered", "failed"}

\* What store.get returns with ok = FALSE: the key is absent, or its value is
\* undecodable, of another schema, or filed under another key.
Absent == [seq |-> 0, state |-> "absent", fact |-> FALSE]

Record(seq, state, fact) == [seq |-> seq, state |-> state, fact |-> fact]

Ok(cur) == cur.state # "absent"

TerminalAnswered(state) == state \in {"answered", "failed"}

\* A value that a Spec with a Fact predicate may hold: only an answered record
\* can be a fact (it records a change already made on disk).
RecordSet(Seqs) ==
    {r \in [seq : Seqs, state : States, fact : BOOLEAN] : r.fact => r.state = "answered"}

\* NextSeq: above the record's and the status's, never below the clock. The
\* clock may be anywhere, so any number above both can be issued.
NextSeq(recordSeq, statusSeq, n) == n > recordSeq /\ n > statusSeq

-----------------------------------------------------------------------------
(* The loop's half: Requester.                                             *)

\* Mutant of RefuseFact: the fact one dispatch above the caller's mark passes.
RefuseFactOffByOne(cur, incorporated) ==
    Ok(cur) /\ TerminalAnswered(cur.state) /\ cur.fact /\ cur.seq > incorporated + 1

\* refuseFact: an answered fact above what the caller incorporated.
RefuseFact(cur, incorporated) ==
    Ok(cur) /\ TerminalAnswered(cur.state) /\ cur.fact /\ cur.seq > incorporated

MayRequest(cur, seq, incorporated) ==
    /\ Ok(cur) => seq > cur.seq
    /\ ~RefuseFact(cur, incorporated)

\* Withdraw has three outcomes over cur: it leaves the record alone, it refuses
\* (ErrUnincorporatedFact), or it stores withdrawn{seq}.
WithdrawKeeps(cur, seq) ==
    /\ Ok(cur)
    /\ \/ cur.seq > seq
       \/ cur.seq = seq /\ (cur.state = "withdrawn" \/ TerminalAnswered(cur.state))

WithdrawRefused(cur, seq, incorporated) ==
    (Ok(cur) => cur.seq < seq) /\ RefuseFact(cur, incorporated)

WithdrawWrites(cur, seq, incorporated) ==
    ~WithdrawKeeps(cur, seq) /\ ~WithdrawRefused(cur, seq, incorporated)

-----------------------------------------------------------------------------
(* The workers' half: Answerer.                                            *)

Superseded(cur, seq) ==
    /\ Ok(cur)
    /\ \/ cur.seq > seq
       \/ cur.seq = seq /\ (cur.state = "withdrawn" \/ TerminalAnswered(cur.state))

\* progress, behind Claim and Defer: NotYet when the record is absent or older
\* than the task; written over requested and over what the operation allows
\* besides (may); dropped otherwise.
NotYet(cur, seq) == ~Ok(cur) \/ cur.seq < seq

\* Mutant of Progresses: any state of the task's own seq will do.
ProgressesOnSeqAlone(cur, seq, may) == ~NotYet(cur, seq) /\ cur.seq = seq

Progresses(cur, seq, may) ==
    /\ ~NotYet(cur, seq) /\ ~Superseded(cur, seq)
    /\ cur.state = "requested" \/ may

\* Mutant of ClaimWrites: a claimed record needs no reclaim.
ClaimWritesAlways(cur, seq, reclaim, due) ==
    Progresses(cur, seq, \/ cur.state = "claimed"
                         \/ cur.state = "deferred" /\ due)

\* due: the clock has reached the record's DeferredUntil. reclaim: a redelivery
\* with no live lease.
ClaimWrites(cur, seq, reclaim, due) ==
    Progresses(cur, seq, \/ cur.state = "claimed" /\ reclaim
                         \/ cur.state = "deferred" /\ due)

DeferWrites(cur, seq, due) == Progresses(cur, seq, cur.state = "deferred" /\ due)

\* Mutants of AnswerWrites: any answer overwrites a withdrawal; a second answer
\* overwrites the first.
AnswerWritesWithdrawn(cur, seq, fact) ==
    Ok(cur) => cur.seq < seq \/ (cur.seq = seq /\ ~TerminalAnswered(cur.state))

AnswerWritesTwice(cur, seq, fact) ==
    Ok(cur) => \/ cur.seq < seq
               \/ cur.seq = seq /\ (cur.state = "withdrawn" => fact)

\* Answer is dropped (DroppedFact, a logged drop, when it is a fact) over a
\* newer record, over an answer at its seq, and, unless it is a fact, over a
\* withdrawal at its seq; it is written over everything else.
AnswerWrites(cur, seq, fact) ==
    Ok(cur) => \/ cur.seq < seq
               \/ /\ cur.seq = seq /\ ~TerminalAnswered(cur.state)
                  /\ cur.state = "withdrawn" => fact
=============================================================================
