---------------------------- MODULE RecordLife ----------------------------
(* What pkg/records promises of one key, without readers, revisions, tasks *)
(* or workers: the record goes from dispatch to dispatch in one order, an  *)
(* answer ends a dispatch, and a fact waits until the loop has taken it in. *)
(* Records and TranscodeDispatch implement it.                             *)
EXTENDS RecordRules

CONSTANTS MaxSeq,  \* bound: dispatches issued
          Heeds,   \* whether a withdrawal heeds the fact of an earlier dispatch
          Loses    \* whether the loop may give a dispatch up before it is answered

VARIABLES rec,      \* the record
          issued,   \* the last dispatch the loop's status issued
          taken,    \* the last dispatch whose answer the loop's status has incorporated, or given up
          retired   \* the bucket's TTL has retired a value

life == <<rec, issued, taken, retired>>

Init == rec = Absent /\ issued = 0 /\ taken = 0 /\ retired = FALSE

\* Dispatched, and neither answered nor withdrawn.
Live == rec.state \in {"requested", "claimed", "deferred"}

\* A fact nobody has taken in.
Unread == rec.fact /\ rec.seq > taken

Issue ==
    /\ \E n \in 1 .. MaxSeq : n > issued /\ issued' = n
    /\ UNCHANGED <<rec, taken, retired>>

\* Requester.Request.
Request ==
    /\ rec.seq < issued /\ ~Unread
    /\ rec' = Record(issued, "requested", FALSE)
    /\ UNCHANGED <<issued, taken, retired>>

\* Requester.Withdraw.
Withdraw ==
    /\ (rec.seq = issued /\ Live) \/ (rec.seq < issued /\ (Heeds => ~Unread))
    /\ rec' = Record(issued, "withdrawn", FALSE)
    /\ UNCHANGED <<issued, taken, retired>>

\* Answerer.Claim and Answerer.Defer: of the dispatch the record is at.
Progress ==
    /\ \/ Live /\ rec' = Record(rec.seq, "claimed", FALSE)
       \/ Live /\ rec.state # "claimed" /\ rec' = Record(rec.seq, "deferred", FALSE)
    /\ UNCHANGED <<issued, taken, retired>>

\* Answerer.Answer: of the dispatch the record is at; a fact over its withdrawal
\* too; over an older record only once a value was retired.
Answer ==
    /\ \E s \in 1 .. issued, state \in {"answered", "failed"}, fact \in BOOLEAN :
         /\ fact => state = "answered"
         /\ \/ rec.seq = s /\ (Live \/ (rec.state = "withdrawn" /\ fact))
            \/ rec.seq < s /\ retired
         /\ rec' = Record(s, state, fact)
    /\ UNCHANGED <<issued, taken, retired>>

Retire ==
    /\ rec' = Absent /\ retired' = TRUE
    /\ UNCHANGED <<issued, taken>>

\* The loop's status incorporates an answer. The record is still that answer, or
\* has gone on to a later dispatch.
Take ==
    /\ \E s \in 1 .. issued :
         /\ s > taken /\ taken' = s
         /\ retired \/ rec.seq > s \/ (rec.seq = s /\ TerminalAnswered(rec.state))
    /\ UNCHANGED <<rec, issued, retired>>

\* It gives up the dispatch it issued last: nothing waits for its answer any more.
GiveUp ==
    /\ Loses /\ taken < issued /\ taken' = issued
    /\ UNCHANGED <<rec, issued, retired>>

Next == Issue \/ Request \/ Withdraw \/ Progress \/ Answer \/ Retire \/ Take \/ GiveUp

Spec == Init /\ [][Next]_life
=============================================================================
