---------------------- MODULE TranscodeDispatchProofs ----------------------
(* Proofs about TranscodeDispatch, for any workers, dispatches and faults:  *)
(* the task follows its request, a dispatch's swap is exclusive, the loop   *)
(* requests over no fact it has not incorporated, the record's life is that *)
(* of RecordLife, and, as long as no manager dies, no closed dispatch swaps. *)
EXTENDS TranscodeDispatch, TLAPS

-----------------------------------------------------------------------------
(* Types.                                                                  *)

Busy(w) == wk[w].pc # "idle"

\* The dispatch in flight is the last one issued and has no answer; out of
\* flight nothing is left unanswered. Effects belong to a dispatch in flight.
StatusInv ==
    /\ mgr.pc \notin {"idle", "plan"} => InFlightPhase
    /\ InFlightPhase => /\ status.seq = status.last /\ status.seq \in Seqs
                        /\ status.answered = 0 /\ ~status.withdrawn
    /\ status.seq \in {0, status.last}
    /\ ~InFlightPhase => status.seq <= status.answered

\* A worker is busy with a dispatch, or with none.
WorkerInv == \A w \in Workers : IF Busy(w) THEN wk[w].seq \in Seqs ELSE wk[w].seq = 0

TypeInv == TypeOK /\ StatusInv /\ WorkerInv

LEMMA NoPassType ==
    ASSUME NEW failed \in BOOLEAN
    PROVE  /\ PassOver(failed) \in Managers
           /\ PassOver(failed).pc = "idle" /\ PassOver(failed).failed = failed
           /\ PassOver(failed).fresh = FALSE
<1>1. Absent \in Values
  BY DEF Values
<1> QED BY <1>1 DEF PassOver, Managers

LEMMA RecordType ==
    ASSUME NEW s \in Seqs, NEW state \in States, NEW fact \in BOOLEAN, fact => state = "answered"
    PROVE  /\ Record(s, state, fact) \in Values
           /\ Record(s, state, fact).seq = s /\ Record(s, state, fact).state = state
           /\ Record(s, state, fact).fact = fact
  BY DEF Record, Values, RecordSet

\* What a value of the bucket looks like; the bound's range.
LEMMA ValueFacts ==
    ASSUME NEW r \in Values
    PROVE  /\ r.seq \in Seqs0 /\ r.fact \in BOOLEAN
           /\ r.state \in States \cup {"absent"}
           /\ Ok(r) => r.seq \in Seqs /\ r.state \in States
           /\ ~Ok(r) => r = Absent /\ r.seq = 0 /\ r.state = "absent" /\ r.fact = FALSE
           /\ r.fact => r.state = "answered" /\ Ok(r)
<1>0. Seqs \in SUBSET Seqs0 /\ 0 \in Seqs0
  BY DispatchAssumption DEF Seqs, Seqs0
<1>1. CASE r = Absent
  BY <1>0, <1>1 DEF Absent, Ok
<1>2. CASE r \in RecordSet(Seqs)
  <2>1. r \in [seq : Seqs, state : States, fact : BOOLEAN] /\ (r.fact => r.state = "answered")
    BY <1>2 DEF RecordSet
  <2>2. r.seq \in Seqs /\ r.state \in States /\ r.fact \in BOOLEAN
    BY <2>1
  <2>3. Ok(r)
    BY <2>2 DEF Ok, States
  <2> QED BY <1>0, <2>1, <2>2, <2>3
<1> QED BY <1>1, <1>2 DEF Values

LEMMA SeqFacts ==
    /\ Seqs \in SUBSET Seqs0 /\ 0 \in Seqs0
    /\ \A s \in Seqs0 : s \in Int /\ s >= 0 /\ s <= MaxSeq /\ (s > 0 => s \in Seqs)
    /\ \A s \in Seqs : s \in Int /\ s > 0
  BY DispatchAssumption DEF Seqs, Seqs0

\* Components of the state, for the provers.
LEMMA Fields ==
    ASSUME TypeOK
    PROVE  /\ status.phase \in Phases /\ status.seq \in Seqs0 /\ status.answered \in Seqs0
           /\ status.withdrawn \in BOOLEAN /\ status.withdrawing \in BOOLEAN
           /\ status.to \in {"Planned", "Verdict"} /\ status.probed \in Seqs0 /\ status.last \in Seqs0
           /\ mgr.cur \in Values /\ mgr.fresh \in BOOLEAN /\ mgr.gone \in BOOLEAN
           /\ mgr.failed \in BOOLEAN /\ mgr.dead \in BOOLEAN
           /\ rec \in Values /\ lease.seq \in Seqs0
           /\ \A w \in Workers : wk[w] \in WorkerStates /\ wk[w].seq \in Seqs0 /\ wk[w].re \in BOOLEAN
  BY DEF TypeOK, Statuses, Managers, Leases, WorkerStates

LEMMA WorkerTypes ==
    ASSUME TypeInv, NEW w \in Workers
    PROVE  /\ Resting \in WorkerStates /\ Resting.pc = "idle" /\ Resting.seq = 0
           /\ \A pc \in {"lease", "claim", "encode", "verified", "swap", "swapped", "fact", "answer", "found"} :
                /\ [wk[w] EXCEPT !.pc = pc] \in WorkerStates
                /\ [wk[w] EXCEPT !.pc = pc].pc = pc
                /\ [wk[w] EXCEPT !.pc = pc].seq = wk[w].seq
                /\ [wk[w] EXCEPT !.pc = pc].re = wk[w].re
<1>1. wk[w] \in WorkerStates
  BY Fields DEF TypeInv
<1> QED BY <1>1, SeqFacts DEF Resting, WorkerStates

\* A worker that goes on, and one that rests; nobody else moves.
LEMMA GoesFacts ==
    ASSUME TypeInv, NEW w \in Workers,
           NEW pc \in {"lease", "claim", "encode", "verified", "swap", "swapped", "fact", "answer", "found"},
           Goes(w, pc)
    PROVE  /\ wk'[w].pc = pc /\ wk'[w].seq = wk[w].seq /\ wk'[w].re = wk[w].re
           /\ \A v \in Workers \ {w} : wk'[v] = wk[v]
           /\ wk' \in [Workers -> WorkerStates]
<1>1. wk \in [Workers -> WorkerStates]
  BY DEF TypeInv, TypeOK
<1>2. wk' = [wk EXCEPT ![w] = [wk[w] EXCEPT !.pc = pc]]
  BY DEF Goes
<1> QED BY <1>1, <1>2, WorkerTypes

LEMMA RestsFacts ==
    ASSUME TypeInv, NEW w \in Workers, Rests(w)
    PROVE  /\ wk'[w].pc = "idle" /\ wk'[w].seq = 0
           /\ \A v \in Workers \ {w} : wk'[v] = wk[v]
           /\ wk' \in [Workers -> WorkerStates]
<1>1. wk \in [Workers -> WorkerStates]
  BY DEF TypeInv, TypeOK
<1> QED BY <1>1, WorkerTypes DEF Rests

-----------------------------------------------------------------------------
(* The planner's rows, by what they do to the fields the invariants name.   *)

SameDispatch ==
    /\ status'.seq = status.seq /\ status'.last = status.last
    /\ status'.answered = status.answered /\ status'.withdrawn = status.withdrawn

\* Quiet, Owe, Rewithdraw and StartWithdrawal.
Keeps ==
    /\ SameDispatch /\ status'.phase = status.phase /\ status'.probed = status.probed
    /\ UNCHANGED <<planned, seen>>
    /\ \/ mgr'.pc = "idle"
       \/ /\ mgr'.pc = "record" /\ status.phase = "Queued"
          /\ mgr.cur.seq < status.seq /\ ~FactBelow
       \/ mgr'.pc = "publish" /\ InFlightPhase /\ mgr.cur.seq = status.seq
       \/ mgr'.pc = "wrecord" /\ InFlightPhase

\* NoteClaimed.
NotesClaim ==
    /\ SameDispatch /\ status'.probed = status.probed
    /\ status.phase = "Queued" /\ status'.phase = "Running"
    /\ mgr.cur.seq = status.seq /\ mgr'.pc = "idle"
    /\ UNCHANGED <<planned, seen>>

\* An answer is incorporated.
TakesIn ==
    /\ TerminalAnswered(mgr.cur.state)
    /\ mgr.cur.seq = status.seq \/ (mgr.cur.seq < status.seq /\ mgr.cur.fact)
    /\ status'.phase \in {"Swapping", "Planned", "Verdict"}
    /\ status'.seq = status.seq /\ status'.last = status.last /\ status'.probed = status.probed
    /\ status'.answered >= status.seq /\ status'.withdrawn = FALSE
    /\ Saw(mgr.cur.fact) /\ mgr'.pc = "idle" /\ UNCHANGED planned

\* WorkerLost.
GivesUp ==
    /\ status.phase = "Running" /\ mgr.gone
    /\ mgr.cur.seq < status.seq \/ ClaimedHere
    /\ status'.phase \in {"Planned", "Verdict"}
    /\ status'.seq = status.seq /\ status'.last = status.last /\ status'.probed = status.probed
    /\ status'.answered >= status.seq /\ status'.withdrawn = FALSE
    /\ seen' = [seen EXCEPT !.lost = status.seq] /\ mgr'.pc = "idle" /\ UNCHANGED planned

\* Dispatch, when it issues one.
Issues ==
    /\ status.phase = "Planned" /\ ~UnincorporatedFact
    /\ status'.seq \in Seqs /\ status'.seq > mgr.cur.seq /\ status'.seq > status.last
    /\ status'.last = status'.seq /\ status'.answered = 0 /\ status'.withdrawn = FALSE
    /\ status'.phase = "Queued" /\ status'.probed \in {status.probed, disk}
    /\ planned' = [planned EXCEPT ![status'.seq] = status'.probed]
    /\ mgr'.pc = "record" /\ UNCHANGED seen

\* PlanSwap and PlanWindow.
MovesOn ==
    /\ SameDispatch /\ status'.probed \in {status.probed, disk}
    /\ ~InFlightPhase /\ status'.phase \in {"Planned", "Verdict", "Succeeded"}
    /\ mgr'.pc = "idle" /\ UNCHANGED <<planned, seen>>

\* LeaveWindow.
Forgets ==
    /\ ~InFlightPhase /\ ~status.withdrawn /\ status'.phase = "Verdict"
    /\ status'.seq = 0 /\ status'.answered = 0 /\ status'.withdrawn = FALSE
    /\ status'.last = status.last /\ status'.probed = status.probed
    /\ mgr'.pc = "idle" /\ UNCHANGED <<planned, seen>>

\* FinishWithdrawal.
Closes ==
    /\ InFlightPhase /\ WithdrawnAt /\ ~mgr.failed
    /\ status'.phase \in {"Planned", "Verdict"}
    /\ status'.seq = status.seq /\ status'.last = status.last /\ status'.probed = status.probed
    /\ status'.answered = status.seq /\ status'.withdrawn = TRUE
    /\ mgr'.pc = "idle" /\ UNCHANGED <<planned, seen>>

PlanStep ==
    /\ mgr.pc = "plan" /\ mgr'.failed = mgr.failed /\ (mgr'.fresh => mgr.fresh)
    /\ UNCHANGED <<rec, lease, tasks, delivered, disk, wk>>
    /\ Keeps \/ NotesClaim \/ TakesIn \/ GivesUp \/ Issues \/ MovesOn \/ Forgets \/ Closes

LEMMA AppliesFacts ==
    ASSUME TypeOK, NEW STATE b, NEW effect \in {"idle", "record", "publish", "wrecord"}, Applies(b, effect)
    PROVE  /\ mgr.pc = "plan" /\ status' = b
           /\ mgr' \in Managers /\ mgr'.pc = effect /\ mgr'.failed = mgr.failed
           /\ mgr'.fresh => mgr.fresh
           /\ UNCHANGED <<rec, lease, tasks, delivered, disk, wk>>
           /\ UNCHANGED <<published, dead, faults, crashes>>
<1> DEFINE fresh == effect = "record" /\ mgr.fresh
<1>1. mgr.failed \in BOOLEAN /\ fresh \in BOOLEAN
  BY Fields
<1>2. mgr' = [PassOver(mgr.failed) EXCEPT !.pc = effect, !.fresh = fresh]
  BY DEF Applies
<1>3. fresh => mgr.fresh
  OBVIOUS
<1> HIDE DEF fresh
<1>4. mgr' \in Managers /\ mgr'.pc = effect /\ mgr'.failed = mgr.failed /\ mgr'.fresh = fresh
  <2>1. PassOver(mgr.failed) \in Managers /\ PassOver(mgr.failed).failed = mgr.failed
    BY <1>1, NoPassType
  <2> QED BY <1>1, <1>2, <2>1 DEF Managers
<1> QED BY <1>3, <1>4 DEF Applies, stream

LEMMA IncorporatesFacts ==
    ASSUME TypeOK, NEW fact \in BOOLEAN, NEW closes \in Seqs0, Incorporates(fact, closes)
    PROVE  /\ mgr.pc = "plan" /\ status' \in Statuses
           /\ mgr' \in Managers /\ mgr'.pc = "idle" /\ mgr'.failed = mgr.failed
           /\ mgr'.fresh => mgr.fresh
           /\ UNCHANGED <<rec, lease, tasks, delivered, disk, wk>>
           /\ UNCHANGED <<published, dead, faults, crashes>>
           /\ status'.phase \in {"Swapping", "Planned", "Verdict"}
           /\ ~fact => status'.phase \in {"Planned", "Verdict"}
           /\ status'.seq = status.seq /\ status'.last = status.last /\ status'.probed = status.probed
           /\ status'.answered >= closes /\ status'.withdrawn = FALSE
<1> DEFINE a == IF closes > status.answered THEN closes ELSE status.answered
           B(phase) == [status EXCEPT !.phase = phase, !.withdrawn = FALSE, !.withdrawing = FALSE,
                                      !.answered = a]
<1>1. PICK phase \in {"Swapping", "Planned", "Verdict"} :
        (~fact => phase \in {"Planned", "Verdict"}) /\ Applies(B(phase), "idle")
  BY DEF Incorporates
<1>2. status \in Statuses /\ a \in Seqs0 /\ a >= closes
  BY Fields, SeqFacts DEF TypeOK
<1> HIDE DEF a
<1>3. /\ B(phase) \in Statuses /\ B(phase).phase = phase /\ B(phase).withdrawn = FALSE
      /\ B(phase).seq = status.seq /\ B(phase).last = status.last /\ B(phase).probed = status.probed
      /\ B(phase).answered >= closes
  BY <1>2 DEF Statuses, Phases
<1> HIDE DEF B
<1> QED BY <1>1, <1>3, AppliesFacts

\* Every row is one of these steps, and keeps the types.
LEMMA PlanSteps ==
    ASSUME TypeInv, Plan
    PROVE  /\ PlanStep /\ status' \in Statuses /\ mgr' \in Managers
           /\ planned' \in [Seqs -> Seqs0] /\ seen' \in Closings
           /\ UNCHANGED <<published, dead, faults, crashes>>
<1> DEFINE Goal == /\ PlanStep /\ status' \in Statuses /\ mgr' \in Managers
                   /\ planned' \in [Seqs -> Seqs0] /\ seen' \in Closings
                   /\ UNCHANGED <<published, dead, faults, crashes>>
<1>t. /\ TypeOK /\ status \in Statuses /\ planned \in [Seqs -> Seqs0] /\ seen \in Closings /\ disk \in Seqs0
      /\ mgr.cur.seq \in Seqs0 /\ mgr.cur.fact \in BOOLEAN
      /\ mgr.cur.fact => TerminalAnswered(mgr.cur.state)
  BY Fields, ValueFacts DEF TypeInv, TypeOK, TerminalAnswered
<1>f. status.seq \in Seqs0 /\ status.probed \in Seqs0 /\ status.last \in Seqs0
  BY <1>t, Fields
<1>s. ASSUME NEW fact \in BOOLEAN, Saw(fact) PROVE seen' \in Closings
  BY <1>s, <1>t, SeqFacts DEF Saw, Closings
<1> HIDE DEF Goal
\* Answers taken in.
<1>1. ASSUME NEW closes \in Seqs0, closes >= status.seq, Incorporates(mgr.cur.fact, closes),
             TerminalAnswered(mgr.cur.state), Saw(mgr.cur.fact), UNCHANGED planned,
             mgr.cur.seq = status.seq \/ (mgr.cur.seq < status.seq /\ mgr.cur.fact)
      PROVE  Goal
  <2>1. /\ mgr.pc = "plan" /\ status' \in Statuses /\ mgr' \in Managers /\ mgr'.failed = mgr.failed
        /\ (mgr'.fresh => mgr.fresh) /\ UNCHANGED <<rec, lease, tasks, delivered, disk, wk>>
        /\ UNCHANGED <<published, dead, faults, crashes>>
    BY <1>1, <1>t, IncorporatesFacts
  <2>2. TakesIn
    <3>1. status'.answered >= closes /\ status'.answered \in Int /\ closes \in Int /\ status.seq \in Int
      BY <1>1, <1>t, <1>f, IncorporatesFacts, SeqFacts DEF Statuses
    <3>2. /\ status'.phase \in {"Swapping", "Planned", "Verdict"} /\ mgr'.pc = "idle"
          /\ status'.seq = status.seq /\ status'.last = status.last /\ status'.probed = status.probed
          /\ status'.withdrawn = FALSE
      BY <1>1, <1>t, IncorporatesFacts
    <3> QED BY <1>1, <3>1, <3>2 DEF TakesIn
  <2> QED BY <1>1, <1>s, <1>t, <2>1, <2>2 DEF Goal, PlanStep
<1>2. ASSUME IncorporateLateFact PROVE Goal
  <2>1. mgr.cur.fact = TRUE /\ mgr.cur.seq = status.seq
    BY <1>2, <1>t DEF IncorporateLateFact, FactAfterWithdrawal
  <2>2. Incorporates(mgr.cur.fact, mgr.cur.seq) /\ Saw(mgr.cur.fact) /\ UNCHANGED planned
    BY <1>2, <2>1 DEF IncorporateLateFact
  <2> QED BY <1>1, <1>t, <1>f, <2>1, <2>2, SeqFacts
<1>3. ASSUME Dispatch, UnincorporatedFact PROVE Goal
  <2>1. mgr.cur.fact = TRUE /\ mgr.cur.seq = status.seq
    BY <1>3, <1>t DEF UnincorporatedFact
  <2>2. Incorporates(mgr.cur.fact, mgr.cur.seq) /\ Saw(mgr.cur.fact) /\ UNCHANGED planned
    BY <1>3, <2>1 DEF Dispatch
  <2> QED BY <1>1, <1>t, <1>f, <2>1, <2>2, SeqFacts
<1>4. ASSUME IncorporateAnswer PROVE Goal
  BY <1>1, <1>4, <1>t, <1>f, SeqFacts DEF IncorporateAnswer, AnsweredHere
<1>5. ASSUME IncorporateFactBelow PROVE Goal
  <2>1. mgr.cur.fact = TRUE /\ mgr.cur.seq < status.seq
    BY <1>5, <1>t DEF IncorporateFactBelow, FactBelow
  <2>2. Incorporates(mgr.cur.fact, status.seq) /\ Saw(mgr.cur.fact) /\ UNCHANGED planned
    BY <1>5, <2>1 DEF IncorporateFactBelow
  <2> QED BY <1>1, <1>t, <1>f, <2>1, <2>2, SeqFacts
\* A dispatch issued.
<1>6. ASSUME Dispatch, ~UnincorporatedFact PROVE Goal
  <2>1. PICK n \in Seqs, bytes \in {status.probed, disk} :
          /\ NextSeq(mgr.cur.seq, status.last, n)
          /\ Applies([status EXCEPT !.phase = "Queued", !.seq = n, !.last = n, !.answered = 0,
                                    !.withdrawn = FALSE, !.probed = bytes], "record")
          /\ planned' = [planned EXCEPT ![n] = bytes]
    BY <1>6 DEF Dispatch
  <2>2. n \in Seqs0 /\ bytes \in Seqs0 /\ 0 \in Seqs0
    BY <1>t, <1>f, SeqFacts
  <2>3. status' = [status EXCEPT !.phase = "Queued", !.seq = n, !.last = n, !.answered = 0,
                                 !.withdrawn = FALSE, !.probed = bytes]
    BY <2>1 DEF Applies
  <2>4. /\ status' \in Statuses /\ status'.phase = "Queued" /\ status'.seq = n /\ status'.last = n
        /\ status'.answered = 0 /\ status'.withdrawn = FALSE /\ status'.probed = bytes
    BY <1>t, <2>2, <2>3 DEF Statuses, Phases
  <2>5. /\ mgr.pc = "plan" /\ mgr' \in Managers /\ mgr'.pc = "record" /\ mgr'.failed = mgr.failed
        /\ (mgr'.fresh => mgr.fresh) /\ UNCHANGED <<rec, lease, tasks, delivered, disk, wk>>
        /\ UNCHANGED <<published, dead, faults, crashes>>
    BY <1>t, <2>1, AppliesFacts
  <2>6. planned' \in [Seqs -> Seqs0]
    BY <1>t, <2>1, <2>2
  <2>7. Issues
    BY <1>6, <2>1, <2>4, <2>5 DEF Issues, Dispatch, NextSeq
  <2> QED BY <1>6, <1>t, <2>4, <2>5, <2>6, <2>7 DEF Goal, PlanStep, Dispatch
\* The status kept, with an effect owed or none.
<1>7. ASSUME NEW effect \in {"idle", "record", "publish", "wrecord"}, Applies(status, effect),
             UNCHANGED <<planned, seen>>,
             \/ effect = "idle"
             \/ effect = "record" /\ status.phase = "Queued" /\ mgr.cur.seq < status.seq /\ ~FactBelow
             \/ effect = "publish" /\ InFlightPhase /\ mgr.cur.seq = status.seq
             \/ effect = "wrecord" /\ InFlightPhase
      PROVE  Goal
  <2>1. /\ mgr.pc = "plan" /\ status' = status /\ mgr' \in Managers /\ mgr'.pc = effect
        /\ mgr'.failed = mgr.failed /\ (mgr'.fresh => mgr.fresh)
        /\ UNCHANGED <<rec, lease, tasks, delivered, disk, wk>>
        /\ UNCHANGED <<published, dead, faults, crashes>>
    BY <1>7, <1>t, AppliesFacts
  <2>2. Keeps
    BY <1>7, <2>1 DEF Keeps, SameDispatch
  <2> QED BY <1>7, <1>t, <2>1, <2>2 DEF Goal, PlanStep
<1>8. ASSUME Quiet PROVE Goal
  BY <1>7, <1>8 DEF Quiet
<1>9. ASSUME Owe PROVE Goal
  BY <1>7, <1>9, RecordType DEF Owe, Undisturbed, Record
<1>10. ASSUME Rewithdraw PROVE Goal
  BY <1>7, <1>10 DEF Rewithdraw
<1>11. ASSUME StartWithdrawal PROVE Goal
  <2>1. PICK to \in {"Planned", "Verdict"} :
          Applies([status EXCEPT !.withdrawing = TRUE, !.to = to], "wrecord")
    BY <1>11 DEF StartWithdrawal
  <2>2. status' = [status EXCEPT !.withdrawing = TRUE, !.to = to]
    BY <2>1 DEF Applies
  <2>3. /\ status' \in Statuses /\ SameDispatch
        /\ status'.phase = status.phase /\ status'.probed = status.probed
    BY <1>t, <2>2 DEF Statuses, SameDispatch
  <2>4. /\ mgr.pc = "plan" /\ mgr' \in Managers /\ mgr'.pc = "wrecord" /\ mgr'.failed = mgr.failed
        /\ (mgr'.fresh => mgr.fresh) /\ UNCHANGED <<rec, lease, tasks, delivered, disk, wk>>
        /\ UNCHANGED <<published, dead, faults, crashes>>
    BY <1>t, <2>1, AppliesFacts
  <2>5. Keeps
    BY <1>11, <2>3, <2>4 DEF Keeps, StartWithdrawal
  <2> QED BY <1>11, <1>t, <2>3, <2>4, <2>5 DEF Goal, PlanStep, StartWithdrawal
<1>12. ASSUME NoteClaimed PROVE Goal
  <2>1. Applies([status EXCEPT !.phase = "Running"], "idle")
    BY <1>12 DEF NoteClaimed
  <2>2. status' = [status EXCEPT !.phase = "Running"]
    BY <2>1 DEF Applies
  <2>3. /\ status' \in Statuses /\ SameDispatch
        /\ status'.phase = "Running" /\ status'.probed = status.probed
    BY <1>t, <2>2 DEF Statuses, SameDispatch, Phases
  <2>4. /\ mgr.pc = "plan" /\ mgr' \in Managers /\ mgr'.pc = "idle" /\ mgr'.failed = mgr.failed
        /\ (mgr'.fresh => mgr.fresh) /\ UNCHANGED <<rec, lease, tasks, delivered, disk, wk>>
        /\ UNCHANGED <<published, dead, faults, crashes>>
    BY <1>t, <2>1, AppliesFacts
  <2>5. NotesClaim
    BY <1>12, <2>3, <2>4 DEF NotesClaim, NoteClaimed, ClaimedHere, Record
  <2> QED BY <1>12, <1>t, <2>3, <2>4, <2>5 DEF Goal, PlanStep, NoteClaimed
<1>13. ASSUME WorkerLost PROVE Goal
  <2>1. Incorporates(FALSE, status.seq) /\ seen' = [seen EXCEPT !.lost = status.seq] /\ UNCHANGED planned
    BY <1>13 DEF WorkerLost
  <2>2. /\ mgr.pc = "plan" /\ status' \in Statuses /\ mgr' \in Managers /\ mgr'.failed = mgr.failed
        /\ (mgr'.fresh => mgr.fresh) /\ UNCHANGED <<rec, lease, tasks, delivered, disk, wk>>
        /\ UNCHANGED <<published, dead, faults, crashes>>
    BY <2>1, <1>t, <1>f, IncorporatesFacts
  <2>3. GivesUp
    BY <1>13, <1>t, <1>f, <2>1, IncorporatesFacts DEF GivesUp, WorkerLost
  <2>4. seen' \in Closings
    BY <1>t, <1>f, <2>1 DEF Closings
  <2> QED BY <1>t, <2>1, <2>2, <2>3, <2>4 DEF Goal, PlanStep
\* The rows out of flight, and the end of a withdrawal.
<1>14. ASSUME PlanSwap \/ PlanWindow PROVE Goal
  <2>1. PICK phase \in {"Planned", "Verdict", "Succeeded"}, bytes \in {status.probed, disk} :
          Applies([status EXCEPT !.phase = phase, !.probed = bytes], "idle")
    <3>1. [status EXCEPT !.phase = "Planned"] = [status EXCEPT !.phase = "Planned", !.probed = status.probed]
      BY <1>t DEF Statuses
    <3> QED BY <1>14, <3>1 DEF PlanSwap, PlanWindow
  <2>2. status' = [status EXCEPT !.phase = phase, !.probed = bytes] /\ bytes \in Seqs0
    BY <2>1, <1>t, <1>f DEF Applies
  <2>3. /\ status' \in Statuses /\ SameDispatch
        /\ status'.phase = phase /\ status'.probed = bytes
    BY <1>t, <2>2 DEF Statuses, SameDispatch, Phases
  <2>4. /\ mgr.pc = "plan" /\ mgr' \in Managers /\ mgr'.pc = "idle" /\ mgr'.failed = mgr.failed
        /\ (mgr'.fresh => mgr.fresh) /\ UNCHANGED <<rec, lease, tasks, delivered, disk, wk>>
        /\ UNCHANGED <<published, dead, faults, crashes>>
    BY <1>t, <2>1, AppliesFacts
  <2>5. MovesOn
    BY <1>14, <2>1, <2>3, <2>4 DEF MovesOn, PlanSwap, PlanWindow, InFlightPhase
  <2> QED BY <1>14, <1>t, <2>3, <2>4, <2>5 DEF Goal, PlanStep, PlanSwap, PlanWindow
<1>15. ASSUME LeaveWindow PROVE Goal
  <2>1. Applies([status EXCEPT !.phase = "Verdict", !.seq = 0, !.answered = 0], "idle")
    BY <1>15 DEF LeaveWindow
  <2>2. status' = [status EXCEPT !.phase = "Verdict", !.seq = 0, !.answered = 0] /\ 0 \in Seqs0
    BY <2>1, SeqFacts DEF Applies
  <2>3. /\ status' \in Statuses /\ status'.phase = "Verdict" /\ status'.seq = 0 /\ status'.answered = 0
        /\ status'.last = status.last /\ status'.probed = status.probed
        /\ status'.withdrawn = status.withdrawn /\ status.withdrawn \in BOOLEAN
    BY <1>t, <2>2 DEF Statuses, Phases
  <2>4. /\ mgr.pc = "plan" /\ mgr' \in Managers /\ mgr'.pc = "idle" /\ mgr'.failed = mgr.failed
        /\ (mgr'.fresh => mgr.fresh) /\ UNCHANGED <<rec, lease, tasks, delivered, disk, wk>>
        /\ UNCHANGED <<published, dead, faults, crashes>>
    BY <1>t, <2>1, AppliesFacts
  <2>5. Forgets
    BY <1>15, <2>3, <2>4 DEF Forgets, LeaveWindow, InFlightPhase
  <2> QED BY <1>15, <1>t, <2>3, <2>4, <2>5 DEF Goal, PlanStep, LeaveWindow
<1>16. ASSUME FinishWithdrawal PROVE Goal
  <2>1. Applies([status EXCEPT !.phase = status.to, !.answered = status.seq,
                              !.withdrawn = TRUE, !.withdrawing = FALSE], "idle")
    BY <1>16 DEF FinishWithdrawal
  <2>2. status' = [status EXCEPT !.phase = status.to, !.answered = status.seq,
                              !.withdrawn = TRUE, !.withdrawing = FALSE]
    BY <2>1 DEF Applies
  <2>3. /\ status' \in Statuses /\ status'.phase \in {"Planned", "Verdict"} /\ status'.seq = status.seq
        /\ status'.answered = status.seq /\ status'.withdrawn = TRUE
        /\ status'.last = status.last /\ status'.probed = status.probed
    BY <1>t, <2>2 DEF Statuses, Phases
  <2>4. /\ mgr.pc = "plan" /\ mgr' \in Managers /\ mgr'.pc = "idle" /\ mgr'.failed = mgr.failed
        /\ (mgr'.fresh => mgr.fresh) /\ UNCHANGED <<rec, lease, tasks, delivered, disk, wk>>
        /\ UNCHANGED <<published, dead, faults, crashes>>
    BY <1>t, <2>1, AppliesFacts
  <2>5. Closes
    BY <1>16, <2>3, <2>4 DEF Closes, FinishWithdrawal
  <2> QED BY <1>16, <1>t, <2>3, <2>4, <2>5 DEF Goal, PlanStep, FinishWithdrawal
<1> QED BY <1>2, <1>3, <1>4, <1>5, <1>6, <1>8, <1>9, <1>10, <1>11, <1>12, <1>13, <1>14, <1>15, <1>16
        DEF Plan, Goal

-----------------------------------------------------------------------------
(* The workers' steps, in the same way.                                    *)

Over(s) == Superseded(rec, s)

\* Deliver.
Delivers(w) ==
    /\ wk[w].pc = "idle" /\ wk'[w].pc = "check" /\ wk'[w].seq \in tasks
    /\ ~Settling(wk'[w].seq)
    /\ ~wk'[w].re => wk'[w].seq \notin delivered
    /\ delivered' = delivered \cup {wk'[w].seq}
    /\ UNCHANGED <<rec, lease, tasks, disk>>

\* Every way to rest that says nothing to the record; it acks only a dispatch
\* that is over, or one another delivery claimed.
Drops(w) ==
    /\ Busy(w) /\ wk'[w].pc = "idle" /\ wk'[w].seq = 0
    /\ lease' = lease \/ (Mine(w) /\ lease' = NoLease)
    /\ \/ tasks' = tasks
       \/ /\ tasks' = tasks \ {wk[w].seq}
          /\ \/ Over(wk[w].seq)
             \/ lease.seq > wk[w].seq
             \/ lease.by = "cancelled" /\ lease.seq = wk[w].seq
             \/ wk[w].pc = "claim" /\ ~ClaimWrites(rec, wk[w].seq, wk[w].re, FALSE)
    /\ UNCHANGED <<rec, delivered, disk>>

\* Check, Encode, Reassert, Finish, and a Swap that fails.
Advances(w) ==
    /\ wk'[w].seq = wk[w].seq /\ wk'[w].re = wk[w].re
    /\ \/ wk[w].pc = "check" /\ wk'[w].pc = "lease"
       \/ wk[w].pc = "check" /\ wk'[w].pc = "found" /\ disk # planned[wk[w].seq]
       \/ /\ wk[w].pc = "encode" /\ wk'[w].pc = "verified"
          /\ disk = planned[wk[w].seq] /\ SwapOutrunsEncode(w)
       \/ wk[w].pc = "encode" /\ wk'[w].pc = "swapped" /\ disk # planned[wk[w].seq]
       \/ wk[w].pc \in {"encode", "swap", "swapped"} /\ wk'[w].pc = "answer"
       \/ wk[w].pc = "verified" /\ wk'[w].pc = "swap" /\ Mine(w)
       \/ wk[w].pc = "swapped" /\ wk'[w].pc = "fact"
    /\ UNCHANGED <<rec, lease, tasks, delivered, disk>>

\* TakeLease, when it gets it.
Takes(w) ==
    /\ wk[w].pc = "lease" /\ wk'[w].pc = "claim"
    /\ wk'[w].seq = wk[w].seq /\ wk'[w].re = wk[w].re
    /\ LeaseFree(wk[w].seq) /\ lease' = [seq |-> wk[w].seq, by |-> w]
    /\ UNCHANGED <<rec, tasks, delivered, disk>>

\* ClaimRecord, when it writes.
Claims(w) ==
    /\ wk[w].pc = "claim" /\ wk'[w].pc = "encode"
    /\ wk'[w].seq = wk[w].seq /\ wk'[w].re = wk[w].re
    /\ ClaimWrites(rec, wk[w].seq, wk[w].re, FALSE)
    /\ rec' = Record(wk[w].seq, "claimed", FALSE)
    /\ UNCHANGED <<lease, tasks, delivered, disk>>

\* Swap.
Renames(w) ==
    /\ wk[w].pc = "swap" /\ wk'[w].pc = "swapped"
    /\ wk'[w].seq = wk[w].seq /\ wk'[w].re = wk[w].re
    /\ disk' = wk[w].seq
    /\ UNCHANGED <<rec, lease, tasks, delivered>>

\* SettleFact, SettleAnswer and AnswerOnly.
Settles(w) ==
    /\ wk[w].pc \in {"fact", "found", "answer"} /\ wk'[w].pc = "idle" /\ wk'[w].seq = 0
    /\ \E fact \in BOOLEAN :
         /\ fact <=> wk[w].pc # "answer"
         /\ \/ /\ AnswerWrites(rec, wk[w].seq, fact)
               /\ rec' = Record(wk[w].seq, "answered", fact)
            \/ ~AnswerWrites(rec, wk[w].seq, fact) /\ rec' = rec
    /\ lease' = lease \/ (Mine(w) /\ lease' = NoLease)
    /\ tasks' \in {tasks, tasks \ {wk[w].seq}}
    /\ UNCHANGED <<delivered, disk>>

\* The pass under way learns of a write only when it writes.
PassKept ==
    /\ mgr'.pc = mgr.pc /\ mgr'.cur = mgr.cur /\ mgr'.gone = mgr.gone /\ mgr'.failed = mgr.failed
    /\ mgr'.fresh => mgr.fresh /\ rec' = rec

WorkerStep(w) ==
    /\ UNCHANGED <<status, planned, seen>> /\ PassKept
    /\ \A v \in Workers \ {w} : wk'[v] = wk[v]
    /\ \/ Delivers(w) \/ Drops(w) \/ Advances(w) \/ Takes(w) \/ Claims(w) \/ Renames(w) \/ Settles(w)

WorkerTyped ==
    /\ mgr' \in Managers /\ rec' \in Values /\ lease' \in Leases
    /\ tasks' \in SUBSET Seqs /\ delivered' \in SUBSET Seqs /\ UNCHANGED <<published, dead>>
    /\ disk' \in Seqs0 /\ wk' \in [Workers -> WorkerStates]
    /\ UNCHANGED <<faults, crashes>> \/ Fault

LEMMA PutFacts ==
    ASSUME TypeOK
    PROVE  /\ UNCHANGED mgr /\ UNCHANGED rec => mgr' \in Managers /\ PassKept
           /\ \A r : Put(r) => mgr' \in Managers /\ PassKept /\ rec' = r
<1>1. mgr \in Managers
  BY DEF TypeOK
<1>2. ASSUME UNCHANGED mgr, UNCHANGED rec PROVE mgr' \in Managers /\ PassKept
  BY <1>1, <1>2 DEF PassKept
<1>3. ASSUME NEW r, Put(r) PROVE mgr' \in Managers /\ PassKept /\ rec' = r
  <2>1. mgr' = [mgr EXCEPT !.fresh = FALSE] /\ rec' = r
    BY <1>3 DEF Put
  <2> QED BY <1>1, <2>1 DEF PassKept, Managers
<1> QED BY <1>2, <1>3

LEMMA LeaseFacts ==
    /\ NoLease \in Leases /\ NoLease.seq = 0 /\ NoLease.by = "nobody"
    /\ \A s \in Seqs0, b \in Workers \cup {"cancelled", "nobody"} :
         /\ [seq |-> s, by |-> b] \in Leases
         /\ [seq |-> s, by |-> b].seq = s /\ [seq |-> s, by |-> b].by = b
  BY SeqFacts DEF NoLease, Leases

\* Every step of a worker is one of these, and keeps the types.
LEMMA WorkerSteps ==
    ASSUME TypeInv, NEW w \in Workers, Works(w) \/ WorkerStops(w) \/ AnswerOnly(w)
    PROVE  WorkerStep(w) /\ WorkerTyped
<1>t. /\ TypeOK /\ rec \in Values /\ lease \in Leases /\ tasks \in SUBSET Seqs
      /\ delivered \in SUBSET Seqs /\ disk \in Seqs0 /\ wk \in [Workers -> WorkerStates]
      /\ wk[w] \in WorkerStates /\ wk[w].seq \in Seqs0 /\ (Busy(w) => wk[w].seq \in Seqs)
      /\ wk[w].re \in BOOLEAN
  BY Fields DEF TypeInv, TypeOK, WorkerInv
<1>r. ASSUME Release(w)
      PROVE  (lease' = lease \/ (Mine(w) /\ lease' = NoLease)) /\ lease' \in Leases
  BY <1>r, <1>t, LeaseFacts DEF Release
<1>k. ASSUME Ack(w) \/ Nak
      PROVE  /\ tasks' \in {tasks, tasks \ {wk[w].seq}} /\ tasks' \in SUBSET Seqs
             /\ UNCHANGED <<delivered, published, dead>> /\ delivered' \in SUBSET Seqs
             /\ Nak => tasks' = tasks
  BY <1>k, <1>t DEF Ack, Nak, stream
\* Rests without an answer.
<1>1. ASSUME Busy(w), Rests(w), lease' = lease \/ Release(w),
             Nak \/ (/\ Ack(w)
                     /\ \/ Over(wk[w].seq) \/ lease.seq > wk[w].seq
                        \/ lease.by = "cancelled" /\ lease.seq = wk[w].seq
                        \/ wk[w].pc = "claim" /\ ~ClaimWrites(rec, wk[w].seq, wk[w].re, FALSE)),
             UNCHANGED <<status, mgr, rec, disk, planned, seen>>,
             UNCHANGED <<faults, crashes>> \/ Fault
      PROVE  WorkerStep(w) /\ WorkerTyped
  <2>1. Drops(w)
    BY <1>1, <1>k, <1>r, RestsFacts DEF Drops
  <2>2. mgr' \in Managers /\ PassKept
    BY <1>1, <1>t, PutFacts
  <2>3. (\A v \in Workers \ {w} : wk'[v] = wk[v]) /\ wk' \in [Workers -> WorkerStates]
    BY <1>1, RestsFacts
  <2> QED BY <1>1, <1>k, <1>r, <1>t, <2>1, <2>2, <2>3 DEF WorkerStep, WorkerTyped
\* Goes on and touches nothing else.
<1>2. ASSUME NEW pc \in {"lease", "found", "verified", "answer", "swap", "swapped", "fact"}, Goes(w, pc),
             \/ wk[w].pc = "check" /\ pc = "lease"
             \/ wk[w].pc = "check" /\ pc = "found" /\ disk # planned[wk[w].seq]
             \/ /\ wk[w].pc = "encode" /\ pc = "verified"
                /\ disk = planned[wk[w].seq] /\ SwapOutrunsEncode(w)
             \/ wk[w].pc = "encode" /\ pc = "swapped" /\ disk # planned[wk[w].seq]
             \/ wk[w].pc \in {"encode", "swap", "swapped"} /\ pc = "answer"
             \/ wk[w].pc = "verified" /\ pc = "swap" /\ Mine(w)
             \/ wk[w].pc = "swapped" /\ pc = "fact",
             Nak, UNCHANGED <<status, mgr, rec, lease, disk, planned, seen, faults, crashes>>
      PROVE  WorkerStep(w) /\ WorkerTyped
  <2>1. Advances(w)
    BY <1>2, <1>k, GoesFacts DEF Advances
  <2>2. mgr' \in Managers /\ PassKept
    BY <1>2, <1>t, PutFacts
  <2>3. (\A v \in Workers \ {w} : wk'[v] = wk[v]) /\ wk' \in [Workers -> WorkerStates]
    BY <1>2, GoesFacts
  <2> QED BY <1>2, <1>k, <1>t, <2>1, <2>2, <2>3 DEF WorkerStep, WorkerTyped
\* Answers and rests.
<1>3. ASSUME NEW fact \in BOOLEAN, fact <=> wk[w].pc # "answer",
             wk[w].pc \in {"fact", "found", "answer"}, Rests(w), Answers(w, fact),
             lease' = lease \/ Release(w), Ack(w) \/ Nak, UNCHANGED <<status, disk, planned, seen>>,
             UNCHANGED <<faults, crashes>> \/ Fault
      PROVE  WorkerStep(w) /\ WorkerTyped
  <2>1. wk[w].seq \in Seqs
    BY <1>3, <1>t DEF Busy
  <2>2. Record(wk[w].seq, "answered", fact) \in Values
    BY <2>1, RecordType DEF States
  <2>3. /\ mgr' \in Managers /\ PassKept /\ rec' \in Values
        /\ \/ AnswerWrites(rec, wk[w].seq, fact) /\ rec' = Record(wk[w].seq, "answered", fact)
           \/ ~AnswerWrites(rec, wk[w].seq, fact) /\ rec' = rec
    BY <1>3, <1>t, <2>2, PutFacts DEF Answers
  <2>4. Settles(w)
    BY <1>3, <1>k, <1>r, <2>3, RestsFacts DEF Settles
  <2>5. (\A v \in Workers \ {w} : wk'[v] = wk[v]) /\ wk' \in [Workers -> WorkerStates]
    BY <1>3, RestsFacts
  <2> QED BY <1>3, <1>k, <1>r, <1>t, <2>3, <2>4, <2>5 DEF WorkerStep, WorkerTyped
<1>4. ASSUME Deliver(w) PROVE WorkerStep(w) /\ WorkerTyped
  <2>1. PICK s \in tasks :
          /\ ~Settling(s)
          /\ wk' = [wk EXCEPT ![w] = [pc |-> "check", seq |-> s, re |-> s \in delivered]]
          /\ delivered' = delivered \cup {s}
    BY <1>4 DEF Deliver
  <2>2. s \in Seqs /\ s \in Seqs0
    BY <1>t, SeqFacts
  <2>3. /\ wk'[w] = [pc |-> "check", seq |-> s, re |-> s \in delivered]
        /\ \A v \in Workers \ {w} : wk'[v] = wk[v]
    BY <1>t, <2>1
  <2>4. [pc |-> "check", seq |-> s, re |-> s \in delivered] \in WorkerStates
    BY <2>2 DEF WorkerStates
  <2>5. wk' \in [Workers -> WorkerStates]
    BY <1>t, <2>1, <2>4
  <2>6. Delivers(w)
    <3>1. wk'[w].pc = "check" /\ wk'[w].seq = s /\ wk'[w].re = (s \in delivered)
      BY <2>3
    <3>2. ~wk'[w].re => s \notin delivered
      BY <3>1, Zenon
    <3> QED BY <1>4, <2>1, <3>1, <3>2 DEF Delivers, Deliver
  <2>7. mgr' \in Managers /\ PassKept
    BY <1>4, <1>t, PutFacts DEF Deliver
  <2> QED BY <1>4, <1>t, <2>1, <2>2, <2>3, <2>5, <2>6, <2>7 DEF WorkerStep, WorkerTyped, Deliver
<1>5. ASSUME Check(w) PROVE WorkerStep(w) /\ WorkerTyped
  BY <1>1, <1>2, <1>5 DEF Check, SwappedAlready, Over, Busy
<1>6. ASSUME TakeLease(w), LeaseFree(wk[w].seq), Goes(w, "claim"),
             lease' = [seq |-> wk[w].seq, by |-> w], Nak
      PROVE  WorkerStep(w) /\ WorkerTyped
  <2>1. Takes(w)
    BY <1>6, <1>k, GoesFacts DEF Takes, TakeLease
  <2>2. mgr' \in Managers /\ PassKept
    BY <1>6, <1>t, PutFacts DEF TakeLease
  <2>3. (\A v \in Workers \ {w} : wk'[v] = wk[v]) /\ wk' \in [Workers -> WorkerStates]
    BY <1>6, GoesFacts
  <2>4. lease' \in Leases
    BY <1>6, <1>t, LeaseFacts
  <2> QED BY <1>6, <1>k, <1>t, <2>1, <2>2, <2>3, <2>4 DEF WorkerStep, WorkerTyped, TakeLease
<1>7. ASSUME TakeLease(w), ~(LeaseFree(wk[w].seq) /\ lease' = [seq |-> wk[w].seq, by |-> w]
                             /\ Goes(w, "claim") /\ Nak)
      PROVE  WorkerStep(w) /\ WorkerTyped
  BY <1>1, <1>7 DEF TakeLease, LeaseBars, Busy
<1>8. ASSUME ClaimRecord(w), ClaimWrites(rec, wk[w].seq, wk[w].re, FALSE)
      PROVE  WorkerStep(w) /\ WorkerTyped
  <2>1. /\ wk[w].pc = "claim" /\ Put(Record(wk[w].seq, "claimed", FALSE))
        /\ Goes(w, "encode") /\ Nak /\ UNCHANGED lease
        /\ UNCHANGED <<status, disk, planned, seen, faults, crashes>>
    BY <1>8 DEF ClaimRecord
  <2>2. mgr' \in Managers /\ PassKept /\ rec' = Record(wk[w].seq, "claimed", FALSE)
    BY <2>1, <1>t, PutFacts
  <2>3. Claims(w)
    BY <1>8, <1>k, <2>1, <2>2, GoesFacts DEF Claims
  <2>4. (\A v \in Workers \ {w} : wk'[v] = wk[v]) /\ wk' \in [Workers -> WorkerStates]
    BY <2>1, GoesFacts
  <2>5. rec' \in Values
    BY <1>t, <2>1, <2>2, RecordType DEF Busy, States
  <2> QED BY <1>k, <1>t, <2>1, <2>2, <2>3, <2>4, <2>5 DEF WorkerStep, WorkerTyped
<1>9. ASSUME ClaimRecord(w), ~ClaimWrites(rec, wk[w].seq, wk[w].re, FALSE)
      PROVE  WorkerStep(w) /\ WorkerTyped
  BY <1>1, <1>9 DEF ClaimRecord, Busy
<1>10. ASSUME Encode(w) PROVE WorkerStep(w) /\ WorkerTyped
  BY <1>2, <1>10 DEF Encode, SwappedAlready, Nak
<1>11. ASSUME Stopped(w), Busy(w) PROVE WorkerStep(w) /\ WorkerTyped
  <2>1. Cancelled(w) => lease.seq > wk[w].seq \/ (lease.by = "cancelled" /\ lease.seq = wk[w].seq)
    BY <1>t, Fields, SeqFacts DEF Cancelled
  <2> QED BY <1>1, <1>11, <2>1 DEF Stopped
<1>12. ASSUME Renew(w) \/ Reassert(w) PROVE WorkerStep(w) /\ WorkerTyped
  BY <1>2, <1>11, <1>12 DEF Renew, Reassert, Busy, Nak
<1>13. ASSUME Swap(w), disk' = wk[w].seq, Goes(w, "swapped") PROVE WorkerStep(w) /\ WorkerTyped
  <2>1. Renames(w)
    BY <1>13, GoesFacts DEF Renames, Swap, stream
  <2>2. mgr' \in Managers /\ PassKept
    BY <1>13, <1>t, PutFacts DEF Swap
  <2>3. (\A v \in Workers \ {w} : wk'[v] = wk[v]) /\ wk' \in [Workers -> WorkerStates]
    BY <1>13, GoesFacts DEF Swap
  <2> QED BY <1>13, <1>t, <2>1, <2>2, <2>3 DEF WorkerStep, WorkerTyped, Swap, stream, Busy
<1>18. ASSUME Swap(w), ~(disk' = wk[w].seq /\ Goes(w, "swapped")) PROVE WorkerStep(w) /\ WorkerTyped
  BY <1>2, <1>18 DEF Swap, Nak
<1>19. ASSUME Finish(w) PROVE WorkerStep(w) /\ WorkerTyped
  BY <1>2, <1>19 DEF Finish, Nak
<1>14. ASSUME SettleFact(w) PROVE WorkerStep(w) /\ WorkerTyped
  BY <1>3, <1>14 DEF SettleFact
<1>15. ASSUME SettleAnswer(w) PROVE WorkerStep(w) /\ WorkerTyped
  BY <1>3, <1>15 DEF SettleAnswer
<1>16. ASSUME AnswerOnly(w) PROVE WorkerStep(w) /\ WorkerTyped
  BY <1>3, <1>16 DEF AnswerOnly
<1>17. ASSUME WorkerStops(w) PROVE WorkerStep(w) /\ WorkerTyped
  BY <1>1, <1>17 DEF WorkerStops, Busy
<1> QED BY <1>4, <1>5, <1>6, <1>7, <1>8, <1>9, <1>10, <1>12, <1>13, <1>14, <1>15, <1>16, <1>17,
        <1>18, <1>19
        DEF Works, TakeLease

-----------------------------------------------------------------------------
(* The rest of the pass, and what happens to tasks and leases by themselves. *)

Gathers ==
    /\ mgr.pc = "idle" /\ mgr'.pc = "plan" /\ mgr'.cur = rec /\ mgr'.failed = mgr.failed
    /\ mgr'.gone => status.phase = "Running" /\ lease = NoLease /\ tasks = {}
    /\ UNCHANGED <<rec, lease, tasks>>

Requests ==
    /\ mgr.pc = "record" /\ mgr'.failed = mgr.failed
    /\ \/ mgr.fresh /\ rec' = Record(status.seq, "requested", FALSE) /\ mgr'.pc = "publish"
       \/ mgr'.pc = "idle" /\ rec' = rec
    /\ UNCHANGED <<lease, tasks>>

Publishes ==
    /\ mgr.pc = "publish" /\ mgr'.failed = mgr.failed /\ mgr'.pc = "idle"
    /\ tasks' \in {tasks, tasks \cup {status.seq}}
    /\ UNCHANGED <<rec, lease>>

Withdraws ==
    /\ mgr.pc = "wrecord"
    /\ \/ /\ WithdrawWrites(rec, status.seq, status.seq - 1)
          /\ rec' = Record(status.seq, "withdrawn", FALSE)
          /\ mgr'.pc = "wlease" /\ mgr'.failed = mgr.failed
       \/ WithdrawKeeps(rec, status.seq) /\ rec' = rec /\ mgr'.pc = "wlease" /\ mgr'.failed = mgr.failed
       \/ rec' = rec /\ mgr'.pc = "idle" /\ mgr'.failed = TRUE
    /\ UNCHANGED <<lease, tasks>>

Cancels ==
    /\ mgr.pc = "wlease" /\ mgr'.pc = "wpurge" /\ mgr'.failed = mgr.failed
    /\ lease' = [seq |-> status.seq, by |-> "cancelled"]
    /\ UNCHANGED <<rec, tasks>>

Purges ==
    /\ mgr.pc = "wpurge" /\ mgr'.pc = "idle" /\ tasks' = {}
    /\ UNCHANGED <<rec, lease>>

Breaks ==
    /\ mgr'.pc = "idle" /\ UNCHANGED <<rec, lease, tasks>>
    /\ \/ ~mgr'.failed => ~mgr.failed /\ mgr.pc \notin {"wrecord", "wlease", "wpurge"}
       \/ MaxCrashes # 0

LoopStep ==
    /\ UNCHANGED <<status, planned, seen, disk, wk, delivered>>
    /\ Gathers \/ Requests \/ Publishes \/ Withdraws \/ Cancels \/ Purges \/ Breaks

\* DeadLetter, NoteDeadLetter and Lapse.
Buries == /\ tasks' = tasks \/ \E s \in tasks : tasks' = tasks \ {s} /\ ~Settling(s)
          /\ UNCHANGED lease
Lapses == lease' = NoLease /\ Holder = {} /\ UNCHANGED tasks

BusStep ==
    /\ UNCHANGED <<status, planned, seen, disk, wk, delivered, rec, mgr>>
    /\ Buries \/ Lapses

OtherTyped ==
    /\ mgr' \in Managers /\ rec' \in Values /\ lease' \in Leases /\ tasks' \in SUBSET Seqs
    /\ published' \in SUBSET Seqs /\ dead' \in [seq : Seqs0, noted : BOOLEAN]
    /\ faults' \in 0 .. MaxFaults /\ crashes' \in 0 .. MaxCrashes

LEMMA LoopSteps ==
    ASSUME TypeInv, Gather \/ Effect \/ PassFails \/ ManagerCrash
    PROVE  LoopStep /\ OtherTyped
<1>t. /\ TypeOK /\ mgr \in Managers /\ rec \in Values /\ lease \in Leases /\ tasks \in SUBSET Seqs
      /\ published \in SUBSET Seqs /\ dead \in [seq : Seqs0, noted : BOOLEAN]
      /\ faults \in 0 .. MaxFaults /\ crashes \in 0 .. MaxCrashes
      /\ mgr.failed \in BOOLEAN /\ Absent \in Values /\ status.seq \in Seqs0
      /\ MaxFaults \in Nat /\ MaxCrashes \in Nat
  BY Fields, DispatchAssumption DEF TypeInv, TypeOK, Values
<1>s. mgr.pc \notin {"idle", "plan"} => status.seq \in Seqs
  BY DEF TypeInv, StatusInv
<1>p. ASSUME NEW failed \in BOOLEAN
      PROVE  /\ PassOver(failed) \in Managers /\ PassOver(failed).pc = "idle"
             /\ PassOver(failed).failed = failed
  BY NoPassType
<1>1. ASSUME Gather PROVE LoopStep /\ OtherTyped
  <2>1. PICK grace \in BOOLEAN :
          mgr' = [pc |-> "plan", cur |-> rec, fresh |-> TRUE, failed |-> mgr.failed,
                  dead |-> dead = [seq |-> status.seq, noted |-> TRUE],
                  gone |-> /\ grace /\ status.phase = "Running"
                           /\ lease = NoLease /\ tasks = {}]
    BY <1>1 DEF Gather
  <2>2. /\ mgr'.pc = "plan" /\ mgr'.cur = rec /\ mgr'.failed = mgr.failed /\ mgr'.fresh = TRUE
        /\ mgr'.gone = (grace /\ status.phase = "Running" /\ lease = NoLease /\ tasks = {})
    BY <2>1
  <2>3. mgr'.gone => status.phase = "Running" /\ lease = NoLease /\ tasks = {}
    BY <2>2, Zenon
  <2>4. mgr' \in Managers
    BY <1>t, <2>1 DEF Managers
  <2> QED BY <1>1, <1>t, <2>2, <2>3, <2>4 DEF Gather, LoopStep, OtherTyped, Gathers, stream
<1>2. ASSUME WriteRequest PROVE LoopStep /\ OtherTyped
  <2>1. status.seq \in Seqs /\ Record(status.seq, "requested", FALSE) \in Values
    BY <1>2, <1>s, RecordType DEF WriteRequest, States
  <2>2. [PassOver(mgr.failed) EXCEPT !.pc = "publish"] \in Managers
        /\ [PassOver(mgr.failed) EXCEPT !.pc = "publish"].pc = "publish"
        /\ [PassOver(mgr.failed) EXCEPT !.pc = "publish"].failed = mgr.failed
    <3>1. PassOver(mgr.failed) \in Managers /\ PassOver(mgr.failed).failed = mgr.failed
      BY <1>p, <1>t
    <3> QED BY <3>1 DEF Managers
  <2>3. /\ mgr' \in Managers /\ rec' \in Values /\ mgr'.failed = mgr.failed
        /\ \/ mgr.fresh /\ rec' = Record(status.seq, "requested", FALSE) /\ mgr'.pc = "publish"
           \/ mgr'.pc = "idle" /\ rec' = rec
    BY <1>2, <1>p, <1>t, <2>1, <2>2 DEF WriteRequest
  <2> QED BY <1>2, <1>t, <2>3 DEF WriteRequest, LoopStep, OtherTyped, Requests, stream
<1>3. ASSUME PublishTask PROVE LoopStep /\ OtherTyped
  <2>1. status.seq \in Seqs
    BY <1>3, <1>s DEF PublishTask
  <2>2. mgr' \in Managers /\ mgr'.pc = "idle" /\ mgr'.failed = mgr.failed
    BY <1>3, <1>p, <1>t DEF PublishTask
  <2> QED BY <1>3, <1>t, <2>1, <2>2 DEF PublishTask, LoopStep, OtherTyped, Publishes
<1>4. ASSUME WithdrawRecord PROVE LoopStep /\ OtherTyped
  <2>1. status.seq \in Seqs /\ Record(status.seq, "withdrawn", FALSE) \in Values
    BY <1>4, <1>s, RecordType DEF WithdrawRecord, States
  <2>2. [mgr EXCEPT !.pc = "wlease"] \in Managers /\ [mgr EXCEPT !.pc = "wlease"].pc = "wlease"
        /\ [mgr EXCEPT !.pc = "wlease"].failed = mgr.failed
    BY <1>t DEF Managers
  <2>3. /\ mgr' \in Managers /\ rec' \in Values
        /\ Withdraws
    BY <1>4, <1>p, <1>t, <2>1, <2>2 DEF WithdrawRecord, Withdraws, stream
  <2> QED BY <1>4, <1>t, <2>3 DEF WithdrawRecord, LoopStep, OtherTyped, stream
<1>5. ASSUME CancelLease PROVE LoopStep /\ OtherTyped
  <2>1. mgr' \in Managers /\ mgr'.pc = "wpurge" /\ mgr'.failed = mgr.failed
    BY <1>5, <1>t DEF CancelLease, Managers
  <2>2. lease' \in Leases
    BY <1>5, <1>t, LeaseFacts DEF CancelLease
  <2> QED BY <1>5, <1>t, <2>1, <2>2 DEF CancelLease, LoopStep, OtherTyped, Cancels, stream
<1>6. ASSUME PurgeTasks PROVE LoopStep /\ OtherTyped
  <2>1. mgr' \in Managers /\ mgr'.pc = "idle"
    BY <1>6, <1>p DEF PurgeTasks
  <2> QED BY <1>6, <1>t, <2>1 DEF PurgeTasks, LoopStep, OtherTyped, Purges
<1>7. ASSUME PassFails PROVE LoopStep /\ OtherTyped
  <2> DEFINE f == mgr.failed \/ mgr.pc \in {"wrecord", "wlease", "wpurge"}
  <2>1. f \in BOOLEAN /\ (~f => ~mgr.failed /\ mgr.pc \notin {"wrecord", "wlease", "wpurge"})
    OBVIOUS
  <2>2. mgr' = PassOver(f)
    BY <1>7 DEF PassFails
  <2> HIDE DEF f
  <2>3. mgr' \in Managers /\ mgr'.pc = "idle" /\ mgr'.failed = f
    BY <1>p, <2>1, <2>2
  <2>4. faults' \in 0 .. MaxFaults /\ crashes' = crashes
    BY <1>7, <1>t DEF PassFails, Fault
  <2> QED BY <1>7, <1>t, <2>1, <2>3, <2>4 DEF PassFails, LoopStep, OtherTyped, Breaks, stream
<1>8. ASSUME ManagerCrash PROVE LoopStep /\ OtherTyped
  <2>1. mgr' \in Managers /\ mgr'.pc = "idle"
    BY <1>8, <1>p DEF ManagerCrash
  <2>2. MaxCrashes # 0 /\ crashes' \in 0 .. MaxCrashes
    BY <1>8, <1>t DEF ManagerCrash
  <2> QED BY <1>8, <1>t, <2>1, <2>2 DEF ManagerCrash, LoopStep, OtherTyped, Breaks, stream
<1> QED BY <1>1, <1>2, <1>3, <1>4, <1>5, <1>6, <1>7, <1>8 DEF Effect

LEMMA BusSteps ==
    ASSUME TypeInv, DeadLetter \/ NoteDeadLetter \/ Lapse
    PROVE  BusStep /\ OtherTyped
<1>t. /\ mgr \in Managers /\ rec \in Values /\ lease \in Leases /\ tasks \in SUBSET Seqs
      /\ published \in SUBSET Seqs /\ dead \in [seq : Seqs0, noted : BOOLEAN]
      /\ faults \in 0 .. MaxFaults /\ crashes \in 0 .. MaxCrashes
      /\ MaxFaults \in Nat /\ MaxCrashes \in Nat
  BY DispatchAssumption DEF TypeInv, TypeOK
<1>1. ASSUME DeadLetter PROVE BusStep /\ OtherTyped
  <2>1. PICK s \in tasks \cap delivered :
          ~Settling(s) /\ tasks' = tasks \ {s} /\ dead' = [seq |-> s, noted |-> FALSE]
    BY <1>1 DEF DeadLetter
  <2>2. s \in tasks /\ s \in Seqs0 /\ dead' \in [seq : Seqs0, noted : BOOLEAN]
    BY <1>t, <2>1, SeqFacts
  <2>3. faults' \in 0 .. MaxFaults /\ crashes' = crashes
    BY <1>1, <1>t DEF DeadLetter, Fault
  <2> QED BY <1>1, <1>t, <2>1, <2>2, <2>3 DEF DeadLetter, BusStep, Buries, OtherTyped
<1>2. ASSUME NoteDeadLetter PROVE BusStep /\ OtherTyped
  BY <1>2, <1>t DEF NoteDeadLetter, BusStep, Buries, OtherTyped
<1>3. ASSUME Lapse PROVE BusStep /\ OtherTyped
  BY <1>3, <1>t, LeaseFacts DEF Lapse, BusStep, Lapses, OtherTyped, stream
<1> QED BY <1>1, <1>2, <1>3

\* A step of the specification is a step of one of the four kinds, or none.
AnyStep == PlanStep \/ (\E w \in Workers : WorkerStep(w)) \/ LoopStep \/ BusStep \/ UNCHANGED vars

LEMMA Steps == ASSUME TypeInv, [Next]_vars PROVE AnyStep /\ TypeOK'
<1>t. TypeOK
  BY DEF TypeInv
<1>1. ASSUME Plan PROVE AnyStep /\ TypeOK'
  <2>1. PlanStep
    BY <1>1, PlanSteps
  <2>2. /\ status' \in Statuses /\ mgr' \in Managers /\ planned' \in [Seqs -> Seqs0] /\ seen' \in Closings
        /\ UNCHANGED <<published, dead, faults, crashes>>
    BY <1>1, PlanSteps
  <2> QED BY <1>t, <2>1, <2>2 DEF TypeOK, AnyStep, PlanStep
<1>2. ASSUME NEW w \in Workers, Works(w) \/ WorkerStops(w) \/ AnswerOnly(w) PROVE AnyStep /\ TypeOK'
  <2>1. WorkerStep(w) /\ WorkerTyped
    BY <1>2, WorkerSteps
  <2>2. faults' \in 0 .. MaxFaults /\ crashes' \in 0 .. MaxCrashes
    BY <1>t, <2>1, DispatchAssumption DEF WorkerTyped, Fault, TypeOK
  <2>3. UNCHANGED <<status, planned, seen>>
    BY <2>1 DEF WorkerStep
  <2> QED BY <1>t, <2>1, <2>2, <2>3 DEF TypeOK, AnyStep, WorkerTyped
<1>3. ASSUME Gather \/ Effect \/ PassFails \/ ManagerCrash PROVE AnyStep /\ TypeOK'
  <2>1. LoopStep /\ OtherTyped
    BY <1>3, LoopSteps
  <2> QED BY <1>t, <2>1 DEF TypeOK, AnyStep, LoopStep, OtherTyped
<1>4. ASSUME DeadLetter \/ NoteDeadLetter \/ Lapse PROVE AnyStep /\ TypeOK'
  <2>1. BusStep /\ OtherTyped
    BY <1>4, BusSteps
  <2> QED BY <1>t, <2>1 DEF TypeOK, AnyStep, BusStep, OtherTyped
<1>5. ASSUME UNCHANGED vars PROVE AnyStep /\ TypeOK'
  BY <1>5, <1>t DEF vars, TypeOK, AnyStep
<1> QED BY <1>1, <1>2, <1>3, <1>4, <1>5 DEF Next, Pass

LEMMA TypeInit == Init => TypeInv
<1> SUFFICES ASSUME Init PROVE TypeInv
  OBVIOUS
<1>1. 0 \in Seqs0 /\ Absent \in Values /\ MaxFaults \in Nat /\ MaxCrashes \in Nat
  BY SeqFacts, DispatchAssumption DEF Values
<1>2. status \in Statuses /\ status.phase = "Planned" /\ status.seq = 0 /\ status.last = 0 /\ status.answered = 0
  BY <1>1 DEF Init, Statuses, Phases
<1>3. mgr \in Managers /\ mgr.pc = "idle"
  BY NoPassType DEF Init
<1>4. lease \in Leases
  BY LeaseFacts DEF Init
<1>5. /\ wk \in [Workers -> WorkerStates]
      /\ \A w \in Workers : wk[w].pc = "idle" /\ wk[w].seq = 0
  BY <1>1 DEF Init, Resting, WorkerStates
<1>6. dead \in [seq : Seqs0, noted : BOOLEAN] /\ planned \in [Seqs -> Seqs0]
  BY <1>1 DEF Init
<1>7. TypeOK
  <2>1. rec \in Values /\ disk \in Seqs0 /\ seen \in Closings
    BY <1>1 DEF Init, Closings
  <2>2. tasks \in SUBSET Seqs /\ delivered \in SUBSET Seqs /\ published \in SUBSET Seqs
    BY DEF Init
  <2>3. faults \in 0 .. MaxFaults /\ crashes \in 0 .. MaxCrashes
    BY <1>1 DEF Init
  <2> QED BY <1>2, <1>3, <1>4, <1>5, <1>6, <2>1, <2>2, <2>3 DEF TypeOK
<1> QED BY <1>2, <1>3, <1>5, <1>7 DEF TypeInv, StatusInv, WorkerInv, InFlightPhase, Busy

LEMMA TypeStep == ASSUME TypeInv, [Next]_vars PROVE TypeInv'
<1>t. TypeOK /\ StatusInv /\ WorkerInv /\ TypeOK' /\ AnyStep
  BY Steps DEF TypeInv
<1>f. /\ status.seq \in Int /\ status.last \in Int /\ status.answered \in Int
      /\ status'.seq \in Int /\ status'.last \in Int /\ status'.answered \in Int
      /\ status.withdrawn \in BOOLEAN /\ status'.withdrawn \in BOOLEAN
      /\ tasks \in SUBSET Seqs
  <2>1. status \in Statuses /\ status' \in Statuses /\ tasks \in SUBSET Seqs
    BY <1>t DEF TypeOK
  <2> QED BY <2>1, SeqFacts DEF Statuses
<1>1. CASE PlanStep
  <2>1. WorkerInv'
    BY <1>1, <1>t DEF PlanStep, WorkerInv, Busy
  <2>2. mgr.pc = "plan" /\ (mgr'.pc = "idle" \/ status'.phase \in {"Queued", "Running"})
    BY <1>1 DEF PlanStep, Keeps, NotesClaim, TakesIn, GivesUp, Issues, MovesOn, Forgets, Closes, InFlightPhase
  <2>3. StatusInv'
    <3>1. CASE Keeps \/ MovesOn
      BY <2>2, <3>1, <1>t, <1>f DEF Keeps, MovesOn, SameDispatch, StatusInv, InFlightPhase
    <3>2. CASE NotesClaim
      BY <2>2, <3>2, <1>t, <1>f DEF NotesClaim, SameDispatch, StatusInv, InFlightPhase
    <3>3. CASE TakesIn \/ GivesUp
      BY <2>2, <3>3, <1>t, <1>f DEF TakesIn, GivesUp, StatusInv, InFlightPhase
    <3>4. CASE Issues
      BY <2>2, <3>4, <1>t, <1>f DEF Issues, StatusInv, InFlightPhase
    <3>5. CASE Forgets
      BY <2>2, <3>5, <1>t, <1>f DEF Forgets, StatusInv, InFlightPhase
    <3>6. CASE Closes
      BY <2>2, <3>6, <1>t, <1>f DEF Closes, StatusInv, InFlightPhase
    <3> QED BY <1>1, <3>1, <3>2, <3>3, <3>4, <3>5, <3>6 DEF PlanStep
  <2> QED BY <1>t, <2>1, <2>3 DEF TypeInv
<1>2. ASSUME NEW w \in Workers, WorkerStep(w) PROVE TypeInv'
  <2>1. StatusInv'
    BY <1>2, <1>t DEF WorkerStep, PassKept, StatusInv, InFlightPhase
  <2>2. \A v \in Workers \ {w} : wk'[v] = wk[v]
    BY <1>2 DEF WorkerStep
  <2>3. IF wk'[w].pc # "idle" THEN wk'[w].seq \in Seqs ELSE wk'[w].seq = 0
    BY <1>2, <1>t, <1>f DEF WorkerStep, Delivers, Drops, Advances, Takes, Claims, Renames, Settles,
                        WorkerInv, Busy
  <2>4. WorkerInv'
    BY <1>t, <2>2, <2>3 DEF WorkerInv, Busy
  <2> QED BY <1>t, <2>1, <2>4 DEF TypeInv
<1>3. CASE LoopStep
  <2>1. mgr'.pc \notin {"idle", "plan"} => mgr.pc \notin {"idle", "plan"}
    BY <1>3 DEF LoopStep, Gathers, Requests, Publishes, Withdraws, Cancels, Purges, Breaks
  <2> QED BY <1>3, <1>t, <2>1 DEF LoopStep, TypeInv, StatusInv, WorkerInv, Busy, InFlightPhase
<1>4. CASE BusStep
  BY <1>4, <1>t DEF BusStep, TypeInv, StatusInv, WorkerInv, Busy, InFlightPhase
<1>5. CASE UNCHANGED vars
  BY <1>5, <1>t DEF vars, TypeInv, StatusInv, WorkerInv, Busy, InFlightPhase
<1> QED BY <1>t, <1>1, <1>2, <1>3, <1>4, <1>5 DEF AnyStep

\* The loop, the record, the buses and the workers keep their types.
THEOREM TypeCorrect == Spec => []TypeOK
<1>1. TypeInv => TypeOK
  BY DEF TypeInv
<1> QED BY <1>1, TypeInit, TypeStep, PTL DEF Spec

-----------------------------------------------------------------------------
(* The record. Only the loop moves it to another dispatch, so what a pass   *)
(* gathered still tells where it is; a task, and a worker, never outrun it.  *)

RecInv ==
    /\ rec.seq <= status.last /\ rec.state # "deferred"
    /\ TaskFollowsRequest
    /\ \A w \in Workers : Busy(w) => wk[w].seq <= rec.seq
    /\ status.phase = "Running" => rec.seq = status.seq
    /\ status.withdrawn => rec.seq = status.seq /\ Over(status.seq)

PassInv ==
    /\ mgr.pc = "plan" =>
         /\ rec.seq = mgr.cur.seq
         /\ TerminalAnswered(mgr.cur.state) => rec = mgr.cur
         /\ mgr.cur.state = "withdrawn" => rec.state \in {"withdrawn", "answered"}
         /\ mgr.fresh => rec = mgr.cur
    /\ mgr.pc = "record" /\ mgr.fresh => rec.seq < status.seq
    /\ mgr.pc = "publish" => rec.seq = status.seq
    /\ mgr.pc \in {"wlease", "wpurge"} => Over(status.seq)

RecordInv == TypeInv /\ RecInv /\ PassInv

\* The numbers and flags of a state, for the provers.
LEMMA Numbers ==
    ASSUME TypeInv
    PROVE  /\ status.seq \in Int /\ status.last \in Int /\ status.answered \in Int /\ status.probed \in Int
           /\ rec.seq \in Int /\ mgr.cur.seq \in Int /\ lease.seq \in Int /\ disk \in Int
           /\ seen.fact \in Int /\ seen.lost \in Int /\ 0 <= seen.fact /\ 0 <= seen.lost
           /\ 0 <= rec.seq /\ 0 <= mgr.cur.seq /\ 0 <= lease.seq /\ 0 <= status.seq
           /\ (~Ok(rec) => rec.seq = 0) /\ (rec.seq > 0 => Ok(rec))
           /\ rec.fact \in BOOLEAN /\ (rec.fact => rec.state = "answered")
           /\ \A w \in Workers : wk[w].seq \in Int
           /\ \A w \in Workers : Busy(w) => wk[w].seq > 0
           /\ \A s \in tasks : s \in Int /\ s > 0
<1>1. /\ rec \in Values /\ mgr.cur \in Values /\ seen \in Closings /\ disk \in Seqs0
      /\ tasks \in SUBSET Seqs
  BY Fields DEF TypeInv, TypeOK
<1>2. rec.seq \in Seqs0 /\ mgr.cur.seq \in Seqs0
  BY <1>1, ValueFacts
<1>3. (~Ok(rec) => rec.seq = 0) /\ rec.fact \in BOOLEAN /\ (rec.fact => rec.state = "answered")
  BY <1>1, ValueFacts
<1>4. /\ status.seq \in Seqs0 /\ status.last \in Seqs0 /\ status.answered \in Seqs0
      /\ status.probed \in Seqs0 /\ lease.seq \in Seqs0 /\ \A w \in Workers : wk[w].seq \in Seqs0
  BY Fields DEF TypeInv
<1>5. \A w \in Workers : Busy(w) => wk[w].seq > 0
  BY SeqFacts DEF TypeInv, WorkerInv
<1>6. seen.fact \in Seqs0 /\ seen.lost \in Seqs0
  BY <1>1 DEF Closings
<1> QED BY <1>1, <1>2, <1>3, <1>4, <1>5, <1>6, SeqFacts

\* A worker's write stays at the record's dispatch, and none goes over an answer.
LEMMA WorkerWrites ==
    ASSUME RecordInv, NEW w \in Workers, WorkerStep(w)
    PROVE  /\ rec'.seq = rec.seq /\ rec'.state # "deferred"
           /\ rec' = rec \/ (rec'.seq = wk[w].seq /\ rec'.state \in {"claimed", "answered"})
           /\ TerminalAnswered(rec.state) => rec' = rec
           /\ rec.state = "withdrawn" => rec'.state \in {"withdrawn", "answered"}
           /\ \A s \in Int : Over(s) => Over(s)'
           /\ \A s \in Int : Settles(w) /\ s = wk[w].seq => Over(s)'
<1>n. /\ rec.seq \in Int /\ (rec.seq > 0 => Ok(rec)) /\ wk[w].seq \in Int
      /\ Busy(w) => wk[w].seq > 0 /\ wk[w].seq <= rec.seq
      /\ rec.state # "deferred"
  BY Numbers DEF RecordInv, RecInv
<1>1. CASE Claims(w)
  <2>1. /\ rec'.seq = wk[w].seq /\ rec'.state = "claimed" /\ ~TerminalAnswered(rec.state)
        /\ rec.seq = wk[w].seq /\ rec.state # "withdrawn"
    BY <1>1, <1>n DEF Claims, ClaimWrites, Progresses, NotYet, Superseded, Busy, Record
  <2>2. \A s \in Int : Over(s) => s < rec.seq
    BY <1>n, <2>1 DEF Over, Superseded
  <2>3. \A s \in Int : s < rec'.seq => Over(s)'
    BY <2>1 DEF Over, Superseded, Ok
  <2>4. ~Settles(w)
    BY <1>1 DEF Settles, Claims
  <2> QED BY <2>1, <2>2, <2>3, <2>4
<1>2. CASE Settles(w)
  <2>1. PICK fact \in BOOLEAN :
          \/ /\ AnswerWrites(rec, wk[w].seq, fact)
             /\ rec' = Record(wk[w].seq, "answered", fact)
          \/ ~AnswerWrites(rec, wk[w].seq, fact) /\ rec' = rec
    BY <1>2 DEF Settles
  <2>2. Busy(w)
    BY <1>2 DEF Settles, Busy
  <2>3. CASE AnswerWrites(rec, wk[w].seq, fact) /\ rec' = Record(wk[w].seq, "answered", fact)
    <3>1. /\ rec'.seq = wk[w].seq /\ rec'.state = "answered" /\ ~TerminalAnswered(rec.state)
          /\ rec.seq = wk[w].seq
      BY <1>n, <2>2, <2>3 DEF AnswerWrites, Record
    <3>2. \A s \in Int : s <= rec'.seq => Over(s)'
      BY <3>1, <1>n DEF Over, Superseded, Ok, TerminalAnswered
    <3>3. \A s \in Int : Over(s) => s <= rec.seq
      BY <1>n DEF Over, Superseded
    <3> QED BY <1>n, <3>1, <3>2, <3>3
  <2>4. CASE ~AnswerWrites(rec, wk[w].seq, fact) /\ rec' = rec
    <3>1. Over(wk[w].seq)
      BY <1>n, <2>2, <2>4 DEF AnswerWrites, Over, Superseded
    <3> QED BY <1>n, <2>4, <3>1 DEF Over
  <2> QED BY <2>1, <2>3, <2>4
<1>3. CASE ~Claims(w) /\ ~Settles(w)
  <2>1. rec' = rec
    BY <1>3 DEF WorkerStep, Delivers, Drops, Advances, Takes, Renames
  <2> QED BY <1>3, <1>n, <2>1 DEF Over
<1> QED BY <1>1, <1>2, <1>3

\* The loop's writes go forward: to a dispatch the record is not at yet, or from
\* its own live dispatch to withdrawn.
LEMMA LoopWrites ==
    ASSUME RecordInv, LoopStep
    PROVE  /\ rec.seq <= rec'.seq /\ rec'.state # "deferred"
           /\ \/ rec' = rec
              \/ /\ InFlightPhase /\ rec'.seq = status.seq /\ rec'.fact = FALSE
                 /\ \/ mgr.pc = "record" /\ mgr.fresh /\ rec'.state = "requested" /\ rec.seq < status.seq
                    \/ mgr.pc = "wrecord" /\ rec'.state = "withdrawn"
           /\ \A s \in Int : Over(s) => Over(s)'
<1>n. /\ rec.seq \in Int /\ status.seq \in Int /\ status.last \in Int /\ rec.state # "deferred"
      /\ (mgr.pc \notin {"idle", "plan"} => InFlightPhase) /\ (InFlightPhase => status.seq = status.last)
      /\ rec.seq <= status.last /\ (mgr.pc = "record" /\ mgr.fresh => rec.seq < status.seq)
      /\ (rec.seq > 0 => Ok(rec))
  BY Numbers DEF RecordInv, TypeInv, StatusInv, RecInv, PassInv
<1>1. CASE rec' = rec
  BY <1>1, <1>n DEF Over
<1>2. CASE Requests /\ rec' # rec
  <2>1. /\ mgr.pc = "record" /\ mgr.fresh /\ rec'.seq = status.seq /\ rec'.state = "requested"
        /\ rec'.fact = FALSE
    BY <1>2 DEF Requests, Record
  <2>2. \A s \in Int : s < rec'.seq => Over(s)'
    BY <2>1 DEF Over, Superseded, Ok
  <2>3. \A s \in Int : Over(s) => s <= rec.seq
    BY <1>n DEF Over, Superseded
  <2> QED BY <1>n, <2>1, <2>2, <2>3
<1>3. CASE Withdraws /\ rec' # rec
  <2>1. /\ mgr.pc = "wrecord" /\ rec'.seq = status.seq /\ rec'.state = "withdrawn" /\ rec'.fact = FALSE
    BY <1>3 DEF Withdraws, Record
  <2>2. \A s \in Int : s <= rec'.seq => Over(s)'
    BY <1>n, <2>1 DEF Over, Superseded, Ok
  <2>3. \A s \in Int : Over(s) => s <= rec.seq
    BY <1>n DEF Over, Superseded
  <2> QED BY <1>n, <2>1, <2>2, <2>3
<1> QED BY <1>1, <1>2, <1>3 DEF LoopStep, Gathers, Publishes, Cancels, Purges, Breaks, Requests, Withdraws

\* What is over in the record stays over.
LEMMA OverStays ==
    ASSUME RecordInv, AnyStep
    PROVE  rec.seq <= rec'.seq /\ \A s \in Int : Over(s) => Over(s)'
<1>n. rec.seq \in Int
  BY Numbers DEF RecordInv
<1>1. CASE rec' = rec
  BY <1>1, <1>n DEF Over
<1>2. ASSUME NEW w \in Workers, WorkerStep(w) PROVE rec.seq <= rec'.seq /\ \A s \in Int : Over(s) => Over(s)'
  BY <1>2, <1>n, WorkerWrites
<1>3. CASE LoopStep
  BY <1>3, LoopWrites
<1> QED BY <1>1, <1>2, <1>3 DEF AnyStep, PlanStep, BusStep, vars

LEMMA RecordInit == Init => RecordInv
<1> SUFFICES ASSUME Init PROVE RecordInv
  OBVIOUS
<1>1. TypeInv
  BY TypeInit
<1>2. rec.seq = 0 /\ rec.state = "absent" /\ mgr.pc = "idle" /\ tasks = {}
  BY NoPassType DEF Init, Absent
<1>3. status.last = 0 /\ status.phase = "Planned" /\ ~status.withdrawn
  BY DEF Init
<1>4. \A w \in Workers : ~Busy(w)
  BY DEF Init, Busy, Resting
<1> QED BY <1>1, <1>2, <1>3, <1>4 DEF RecordInv, RecInv, PassInv, TaskFollowsRequest

LEMMA RecordStep == ASSUME RecordInv, [Next]_vars PROVE RecordInv'
<1>t. TypeInv /\ RecInv /\ PassInv /\ TypeInv' /\ AnyStep
  BY TypeStep, Steps DEF RecordInv
<1>n. /\ status.seq \in Int /\ status.last \in Int /\ rec.seq \in Int /\ mgr.cur.seq \in Int
      /\ status'.seq \in Int /\ status'.last \in Int /\ rec'.seq \in Int /\ 0 <= rec.seq
      /\ (rec.seq > 0 => Ok(rec)) /\ \A w \in Workers : wk[w].seq \in Int
      /\ \A s \in tasks : s \in Int
  <2>1. status' \in Statuses /\ rec' \in Values
    BY <1>t DEF TypeInv, TypeOK
  <2>2. status'.seq \in Int /\ status'.last \in Int
    BY <2>1, SeqFacts DEF Statuses
  <2>3. rec'.seq \in Int
    BY <2>1, ValueFacts, SeqFacts
  <2> QED BY <1>t, <2>2, <2>3, Numbers
<1>1. ASSUME PlanStep PROVE RecInv' /\ PassInv'
  <2>u. mgr.pc = "plan" /\ UNCHANGED <<rec, tasks, wk>> /\ (mgr'.fresh => mgr.fresh)
    BY <1>1 DEF PlanStep
  <2>c. /\ rec.seq = mgr.cur.seq /\ (mgr.fresh => rec = mgr.cur)
        /\ (mgr.cur.state = "withdrawn" => rec.state \in {"withdrawn", "answered"})
    BY <1>t, <2>u DEF PassInv
  <2>p. mgr'.pc # "plan" /\ mgr'.pc \notin {"wlease", "wpurge"}
    BY <1>1 DEF PlanStep, Keeps, NotesClaim, TakesIn, GivesUp, Issues, MovesOn, Forgets, Closes
  <2>1. status.last <= status'.last
    BY <1>1, <1>n DEF PlanStep, SameDispatch, Keeps, NotesClaim, TakesIn, GivesUp, Issues, MovesOn,
                      Forgets, Closes
  <2>2. status'.phase = "Running" => rec.seq = status'.seq
    BY <1>1, <1>t, <2>c DEF PlanStep, SameDispatch, Keeps, NotesClaim, TakesIn, GivesUp, Issues, MovesOn,
                      Forgets, Closes, RecInv
  <2>3. status'.withdrawn => status'.seq = status.seq /\ rec.seq = status.seq /\ Over(status.seq)
    <3>1. CASE Closes
      <4>1. rec.seq = status.seq /\ status.seq > 0 /\ rec.state \in {"withdrawn", "answered"}
        <5>1. status.seq \in Seqs
          BY <3>1, <1>t DEF Closes, TypeInv, StatusInv
        <5> QED BY <3>1, <2>c, <5>1, SeqFacts DEF Closes, WithdrawnAt
      <4> QED BY <3>1, <4>1, <1>n DEF Closes, Over, Superseded, TerminalAnswered
    <3> QED BY <1>1, <1>t, <3>1 DEF PlanStep, SameDispatch, Keeps, NotesClaim, TakesIn, GivesUp, Issues,
                      MovesOn, Forgets, RecInv
  <2>4. mgr'.pc = "record" /\ mgr'.fresh => rec.seq < status'.seq
    BY <1>1, <2>u, <2>c DEF PlanStep, SameDispatch, Keeps, NotesClaim, TakesIn, GivesUp, Issues, MovesOn,
                      Forgets, Closes
  <2>5. mgr'.pc = "publish" => rec.seq = status'.seq
    BY <1>1, <2>u, <2>c DEF PlanStep, SameDispatch, Keeps, NotesClaim, TakesIn, GivesUp, Issues, MovesOn,
                      Forgets, Closes
  <2>6. RecInv'
    BY <1>t, <1>n, <2>u, <2>1, <2>2, <2>3 DEF RecInv, TaskFollowsRequest, Busy, Over
  <2>7. PassInv'
    BY <2>u, <2>p, <2>4, <2>5 DEF PassInv
  <2> QED BY <2>6, <2>7
<1>2. ASSUME NEW w \in Workers, WorkerStep(w) PROVE RecInv' /\ PassInv'
  <2>u. UNCHANGED status /\ PassKept /\ \A v \in Workers \ {w} : wk'[v] = wk[v]
    BY <1>2 DEF WorkerStep
  <2>r. /\ rec'.seq = rec.seq /\ rec'.state # "deferred"
        /\ (TerminalAnswered(rec.state) => rec' = rec)
        /\ (rec.state = "withdrawn" => rec'.state \in {"withdrawn", "answered"})
        /\ (Over(status.seq) => Superseded(rec', status.seq))
    <3>1. \A s \in Int : Over(s) => Superseded(rec', s)
      BY <1>2, WorkerWrites DEF Over
    <3> QED BY <1>2, <1>n, <3>1, WorkerWrites
  <2>a. rec.state = "answered" => rec' = rec
    BY <2>r DEF TerminalAnswered
  <2>1. tasks' \in SUBSET tasks
    BY <1>2 DEF WorkerStep, Delivers, Drops, Advances, Takes, Claims, Renames, Settles
  <2>2. Busy(w)' => wk'[w].seq <= rec.seq
    BY <1>2, <1>t, <1>n DEF WorkerStep, Delivers, Drops, Advances, Takes, Claims, Renames, Settles,
                      RecInv, TaskFollowsRequest, Busy
  <2>3. RecInv'
    BY <1>t, <2>u, <2>r, <2>1, <2>2 DEF RecInv, TaskFollowsRequest, Busy, Over
  <2>4. PassInv'
    <3>1. /\ mgr'.pc = mgr.pc /\ mgr'.cur = mgr.cur /\ (mgr'.fresh => mgr.fresh /\ rec' = rec)
      BY <2>u DEF PassKept
    <3>2. mgr.pc = "plan" =>
            /\ rec'.seq = mgr.cur.seq
            /\ TerminalAnswered(mgr.cur.state) => rec' = mgr.cur
            /\ mgr.cur.state = "withdrawn" => rec'.state \in {"withdrawn", "answered"}
            /\ mgr'.fresh => rec' = mgr.cur
      BY <1>t, <2>r, <2>a, <3>1 DEF PassInv
    <3>3. /\ mgr.pc = "record" /\ mgr'.fresh => rec'.seq < status.seq
          /\ mgr.pc = "publish" => rec'.seq = status.seq
          /\ mgr.pc \in {"wlease", "wpurge"} => Superseded(rec', status.seq)
      BY <1>t, <2>r, <3>1 DEF PassInv
    <3> QED BY <2>u, <3>1, <3>2, <3>3 DEF PassInv, Over
  <2> QED BY <2>3, <2>4
<1>3. ASSUME LoopStep PROVE RecInv' /\ PassInv'
  <2>u. UNCHANGED <<status, wk>>
    BY <1>3 DEF LoopStep
  <2>s. /\ (InFlightPhase => status.seq = status.last /\ ~status.withdrawn)
        /\ (mgr.pc \notin {"idle", "plan"} => InFlightPhase)
    BY <1>t DEF TypeInv, StatusInv
  <2>r. /\ rec.seq <= rec'.seq /\ rec'.state # "deferred"
        /\ rec' = rec \/ (InFlightPhase /\ rec'.seq = status.seq)
    BY <1>3, <1>t, LoopWrites DEF RecordInv
  <2>o. Over(status.seq) => Superseded(rec', status.seq)
    <3>1. \A s \in Int : Over(s) => Superseded(rec', s)
      BY <1>3, <1>t, LoopWrites DEF Over, RecordInv
    <3> QED BY <1>n, <3>1
  <2>1. \A s \in tasks' : s \in tasks \/ (s = status.seq /\ rec.seq = status.seq)
    BY <1>3, <1>t DEF LoopStep, Gathers, Requests, Publishes, Withdraws, Cancels, Purges, Breaks, PassInv
  <2>2. TaskFollowsRequest'
    BY <1>t, <1>n, <2>r, <2>1 DEF RecInv, TaskFollowsRequest
  <2>3. RecInv'
    <3>1. rec'.seq <= status'.last /\ rec'.state # "deferred"
      BY <1>t, <2>u, <2>r, <2>s, <1>n DEF RecInv
    <3>2. \A w \in Workers : Busy(w)' => wk'[w].seq <= rec'.seq
      BY <1>t, <2>u, <2>r, <1>n DEF RecInv, Busy
    <3>3. status'.phase = "Running" => rec'.seq = status'.seq
      BY <1>t, <2>u, <2>r DEF RecInv
    <3>4. status'.withdrawn => rec'.seq = status'.seq /\ Superseded(rec', status'.seq)
      BY <1>t, <2>u, <2>r, <2>s, <2>o DEF RecInv
    <3> QED BY <2>2, <3>1, <3>2, <3>3, <3>4 DEF RecInv, Over
  <2>4. CASE Gathers
    <3>1. mgr'.pc = "plan" /\ mgr'.cur = rec' /\ rec' = rec
      BY <2>4 DEF Gathers
    <3>2. rec.state = "withdrawn" => rec.state \in {"withdrawn", "answered"}
      OBVIOUS
    <3>3. PassInv'
      BY <3>1, <3>2 DEF PassInv
    <3> QED BY <2>3, <3>3
  <2>5. CASE Requests
    <3>1. mgr'.pc = "idle" \/ (mgr'.pc = "publish" /\ rec'.seq = status.seq)
      BY <2>5 DEF Requests, Record
    <3> QED BY <2>u, <2>3, <3>1 DEF PassInv
  <2>6. CASE Withdraws
    <3>1. mgr'.pc = "idle" \/ (mgr'.pc = "wlease" /\ Superseded(rec', status.seq))
      <4>1. status.seq \in Seqs
        BY <2>6, <1>t DEF Withdraws, TypeInv, StatusInv
      <4> QED BY <2>6, <4>1, SeqFacts DEF Withdraws, WithdrawKeeps, Superseded, Record, Ok
    <3> QED BY <2>u, <2>3, <3>1 DEF PassInv, Over
  <2>7. CASE Cancels
    <3>1. mgr'.pc = "wpurge" /\ Superseded(rec', status.seq)
      BY <2>7, <1>t DEF Cancels, PassInv, Over
    <3> QED BY <2>u, <2>3, <3>1 DEF PassInv, Over
  <2>8. CASE Publishes \/ Purges \/ Breaks
    BY <2>8, <2>3 DEF Publishes, Purges, Breaks, PassInv
  <2> QED BY <1>3, <2>4, <2>5, <2>6, <2>7, <2>8 DEF LoopStep
<1>4. ASSUME BusStep PROVE RecInv' /\ PassInv'
  <2>1. tasks' \in SUBSET tasks
    BY <1>4 DEF BusStep, Buries, Lapses
  <2> QED BY <1>4, <1>t, <2>1 DEF BusStep, RecInv, PassInv, TaskFollowsRequest, Busy, Over
<1>5. ASSUME UNCHANGED vars PROVE RecInv' /\ PassInv'
  BY <1>5, <1>t DEF vars, RecInv, PassInv, TaskFollowsRequest, Busy, Over
<1> QED BY <1>t, <1>1, <1>2, <1>3, <1>4, <1>5 DEF AnyStep, RecordInv

\* A stored task's dispatch has reached the record: WriteRequest publishes only
\* what it wrote at the gathered revision, and owe only what the record holds.
THEOREM TasksFollowRequests == Spec => []TaskFollowsRequest
<1>1. RecordInv => TaskFollowsRequest
  BY DEF RecordInv, RecInv
<1> QED BY <1>1, RecordInit, RecordStep, PTL DEF Spec

-----------------------------------------------------------------------------
(* The lease. A worker past its claim, and short of a fact, holds it, or the *)
(* record has gone past its dispatch for good; of two that encode one        *)
(* dispatch, neither holds it.                                               *)

Past == {"encode", "verified", "swap"}

Held == \A w \in Workers : wk[w].pc \in Leased => Mine(w) \/ Over(wk[w].seq)

Rivals ==
    \A v, w \in Workers :
        wk[v].pc \in Past /\ wk[w].pc \in Past /\ wk[v].seq = wk[w].seq /\ v # w => ~Mine(v)

LeaseInv ==
    /\ lease.seq <= rec.seq
    /\ lease.by = "cancelled" => Over(lease.seq)
    /\ Held /\ Rivals /\ SwapExclusive

LeasedInv == RecordInv /\ LeaseInv

LEMMA OverBelow ==
    ASSUME TypeInv, NEW s \in Int, NEW t \in Int, Over(s), t <= s
    PROVE  Over(t)
  BY Numbers DEF Over, Superseded

LEMMA MineFacts ==
    ASSUME NEW v \in Workers, Mine(v)
    PROVE  /\ lease.by = v /\ lease.seq = wk[v].seq
           /\ lease.by \notin {"nobody", "cancelled"} /\ lease # NoLease
           /\ \A w \in Workers : Mine(w) => w = v
<1>1. lease.by = v /\ lease.seq = wk[v].seq
  BY DEF Mine
<1>2. v \notin {"nobody", "cancelled"}
  BY DispatchAssumption
<1>3. \A w \in Workers : Mine(w) => lease.by = w
  BY DEF Mine
<1> QED BY <1>1, <1>2, <1>3, LeaseFacts

LEMMA LeasedInit == Init => LeasedInv
<1> SUFFICES ASSUME Init PROVE LeasedInv
  OBVIOUS
<1>1. RecordInv
  BY RecordInit
<1>2. rec.seq = 0 /\ lease.seq = 0 /\ lease.by = "nobody"
  BY LeaseFacts DEF Init, Absent
<1>3. \A w \in Workers : wk[w].pc = "idle"
  BY DEF Init, Resting
<1> QED BY <1>1, <1>2, <1>3 DEF LeasedInv, LeaseInv, Held, Rivals, SwapExclusive, Leased, Holding, Past

LEMMA LeasedStep == ASSUME LeasedInv, [Next]_vars PROVE LeasedInv'
<1>t. RecordInv /\ LeaseInv /\ RecordInv' /\ AnyStep /\ TypeInv /\ RecInv /\ PassInv /\ TypeInv'
  BY RecordStep, Steps DEF LeasedInv, RecordInv
<1>n. /\ rec.seq \in Int /\ rec'.seq \in Int /\ lease.seq \in Int /\ status.seq \in Int /\ status.last \in Int
      /\ 0 <= rec'.seq /\ \A w \in Workers : wk[w].seq \in Int
  <2>1. rec' \in Values
    BY <1>t DEF TypeInv, TypeOK
  <2>2. rec'.seq \in Int /\ 0 <= rec'.seq
    BY <2>1, ValueFacts, SeqFacts
  <2> QED BY <1>t, <2>2, Numbers
<1>o. rec.seq <= rec'.seq /\ \A s \in Int : Over(s) => Superseded(rec', s)
  BY <1>t, OverStays DEF Over
<1>h. Held /\ Rivals /\ SwapExclusive /\ lease.seq <= rec.seq /\ (lease.by = "cancelled" => Over(lease.seq))
  BY <1>t DEF LeaseInv
<1>1. ASSUME UNCHANGED <<wk, lease>> PROVE LeaseInv'
  BY <1>1, <1>h, <1>o, <1>n DEF LeaseInv, Held, Rivals, SwapExclusive, Mine, Over
<1>2. ASSUME NEW w \in Workers, WorkerStep(w) PROVE LeaseInv'
  <2>u. \A v \in Workers \ {w} : wk'[v] = wk[v]
    BY <1>2 DEF WorkerStep
  <2>p. /\ wk'[w].pc \in Leased => wk'[w].seq = wk[w].seq /\ (wk[w].pc \in Leased \/ Takes(w))
        /\ wk'[w].pc \in Past => wk[w].pc \in Past \/ Claims(w)
        /\ wk'[w].pc = "swap" => wk[w].pc \in Past /\ Mine(w)
    BY <1>2 DEF WorkerStep, Delivers, Drops, Advances, Takes, Claims, Renames, Settles, Leased, Holding, Past
  <2>l. CASE lease' = lease
    <3>1. lease'.seq <= rec'.seq /\ (lease'.by = "cancelled" => Superseded(rec', lease'.seq))
      BY <2>l, <1>h, <1>o, <1>n
    <3>2. \A v \in Workers : Mine(v) /\ wk'[v].seq = wk[v].seq => Mine(v)'
      BY <2>l DEF Mine
    <3>3. Held'
      <4>1. ~Takes(w)
        <5>1. ASSUME Takes(w) PROVE FALSE
          <6>1. lease'.by = w
            BY <5>1 DEF Takes
          <6>2. lease.by \in {"nobody", "cancelled"}
            BY <5>1, LeaseFacts DEF Takes, LeaseFree
          <6> QED BY <2>l, <6>1, <6>2, DispatchAssumption
        <5> QED BY <5>1
      <4>2. \A v \in Workers : wk'[v].pc \in Leased => wk[v].pc \in Leased /\ wk'[v].seq = wk[v].seq
        BY <2>u, <2>p, <4>1
      <4> QED BY <1>h, <1>o, <1>n, <3>2, <4>2 DEF Held, Over
    <3>4. ASSUME NEW v \in Workers, NEW u \in Workers, wk'[v].pc \in Past, wk'[u].pc \in Past,
                 wk'[v].seq = wk'[u].seq, v # u, Mine(v)'
          PROVE  FALSE
      <4>1. wk'[v].seq = wk[v].seq /\ wk'[u].seq = wk[u].seq
        BY <2>u, <2>p, <3>4 DEF Past, Leased, Holding
      <4>2. Mine(v)
        BY <2>l, <3>4, <4>1 DEF Mine
      <4>3. CASE wk[v].pc \in Past /\ wk[u].pc \in Past
        BY <1>h, <3>4, <4>1, <4>2, <4>3 DEF Rivals
      <4>4. CASE Claims(w)
        <5>1. ~Over(wk[w].seq) /\ wk[w].pc \in Leased
          BY <4>4 DEF Claims, ClaimWrites, Progresses, Over, Leased, Holding
        <5>2. wk[v].pc \in Leased /\ wk[u].pc \in Leased /\ wk[v].seq = wk[u].seq
          BY <2>u, <3>4, <4>1, <5>1 DEF Past, Leased, Holding
        <5>3. w = v \/ w = u
          BY <4>3, <2>u, <3>4
        <5>4. Mine(v) /\ Mine(u)
          BY <1>h, <5>1, <5>2, <5>3 DEF Held
        <5> QED BY <5>4, <3>4, MineFacts
      <4> QED BY <2>u, <2>p, <3>4, <4>3, <4>4
    <3>5. SwapExclusive'
      <4> SUFFICES ASSUME NEW v \in Workers, NEW u \in Workers, wk'[v].pc = "swap", wk'[u].pc = "swap",
                          wk'[v].seq = wk'[u].seq, v # u
                   PROVE  FALSE
        BY DEF SwapExclusive
      <4>1. wk'[v].seq = wk[v].seq /\ wk'[u].seq = wk[u].seq
        BY <2>u, <2>p DEF Leased, Holding
      <4>2. CASE v = w \/ u = w
        BY <1>h, <2>u, <2>p, <4>1, <4>2 DEF Rivals, Past
      <4>3. CASE v # w /\ u # w
        BY <1>h, <2>u, <4>1, <4>3 DEF SwapExclusive
      <4> QED BY <4>2, <4>3
    <3>6. Rivals'
      BY <3>4 DEF Rivals
    <3> QED BY <3>1, <3>3, <3>5, <3>6 DEF LeaseInv, Over
  <2>r. CASE Mine(w) /\ lease' = NoLease /\ (Drops(w) \/ Settles(w))
    <3>1. lease'.seq = 0 /\ lease'.by = "nobody" /\ wk'[w].pc = "idle"
      BY <2>r, LeaseFacts DEF Drops, Settles
    <3>2. \A v \in Workers : ~Mine(v)'
      BY <3>1, DispatchAssumption DEF Mine
    <3>3. \A v \in Workers \ {w} : ~Mine(v)
      BY <2>r, MineFacts
    <3>4. Held'
      BY <1>h, <1>o, <1>n, <2>u, <3>1, <3>3 DEF Held, Over, Leased, Holding
    <3>5. SwapExclusive'
      BY <1>h, <2>u, <3>1 DEF SwapExclusive
    <3> QED BY <1>n, <3>1, <3>2, <3>4, <3>5 DEF LeaseInv, Rivals
  <2>k. CASE Takes(w)
    <3>1. /\ lease'.seq = wk[w].seq /\ lease'.by = w /\ wk'[w].pc = "claim" /\ wk'[w].seq = wk[w].seq
          /\ lease' = [seq |-> wk'[w].seq, by |-> w]
      BY <2>k DEF Takes
    <3>2. \A v \in Workers \ {w} : ~Mine(v)'
      BY <3>1 DEF Mine
    <3>3. Mine(w)'
      BY <3>1 DEF Mine
    <3>4. \A v \in Workers : ~Mine(v)
      <4>1. lease.by \in {"nobody", "cancelled"}
        BY <2>k, LeaseFacts DEF Takes, LeaseFree
      <4> QED BY <4>1, MineFacts
    <3>5. Held'
      BY <1>h, <1>o, <1>n, <2>u, <3>3, <3>4 DEF Held, Over
    <3>6. Rivals' /\ SwapExclusive'
      BY <1>h, <2>u, <3>1, <3>2 DEF Rivals, SwapExclusive, Past
    <3>7. wk[w].seq <= rec'.seq
      BY <1>t, <1>n, <1>o, <2>k DEF RecInv, Takes, Busy
    <3>8. lease'.by # "cancelled"
      BY <3>1, DispatchAssumption
    <3> QED BY <3>1, <3>5, <3>6, <3>7, <3>8 DEF LeaseInv
  <2> QED BY <1>2, <2>l, <2>r, <2>k
          DEF WorkerStep, Delivers, Drops, Advances, Claims, Renames, Settles
<1>3. ASSUME LoopStep, Cancels PROVE LeaseInv'
  <2>1. /\ lease'.seq = status.seq /\ lease'.by = "cancelled" /\ UNCHANGED wk
        /\ mgr.pc = "wlease" /\ rec' = rec
    BY <1>3 DEF LoopStep, Cancels
  <2>2. Over(status.seq) /\ status.seq = status.last /\ rec.seq <= status.last
    BY <1>t, <2>1 DEF PassInv, RecInv, TypeInv, StatusInv
  <2>3. status.seq <= rec.seq
    BY <1>n, <2>2 DEF Over, Superseded
  <2>4. \A w \in Workers : wk[w].pc \in Leased => wk[w].seq <= status.seq
    BY <1>t, <1>n, <2>2 DEF RecInv, Busy, Leased, Holding
  <2>5. \A w \in Workers : wk[w].pc \in Leased => Over(wk[w].seq)
    BY <1>t, <1>n, <2>2, <2>4, OverBelow
  <2>6. \A w \in Workers : ~Mine(w)'
    BY <2>1, DispatchAssumption DEF Mine
  <2>7. Held'
    BY <1>n, <1>o, <2>1, <2>5 DEF Held, Over
  <2>8. Rivals' /\ SwapExclusive'
    BY <1>h, <2>1, <2>6 DEF Rivals, SwapExclusive
  <2> QED BY <2>1, <2>2, <2>3, <2>7, <2>8 DEF LeaseInv, Over
<1>4. ASSUME BusStep, Lapses PROVE LeaseInv'
  <2>1. lease'.seq = 0 /\ lease'.by = "nobody" /\ UNCHANGED <<wk, rec>> /\ Holder = {}
    BY <1>4, LeaseFacts DEF BusStep, Lapses
  <2>2. \A w \in Workers : wk[w].pc \in Leased => Over(wk[w].seq)
    BY <1>h, <2>1 DEF Held, Holder
  <2>3. \A w \in Workers : ~Mine(w)'
    BY <2>1, DispatchAssumption DEF Mine
  <2>4. Held'
    BY <2>1, <2>2 DEF Held, Over
  <2>5. Rivals' /\ SwapExclusive'
    BY <1>h, <2>1, <2>3 DEF Rivals, SwapExclusive
  <2> QED BY <1>n, <2>1, <2>4, <2>5 DEF LeaseInv
<1>5. LeaseInv'
  <2>1. CASE PlanStep
    BY <1>1, <2>1 DEF PlanStep
  <2>2. CASE LoopStep
    BY <1>1, <1>3, <2>2 DEF LoopStep, Gathers, Requests, Publishes, Withdraws, Purges, Breaks
  <2>3. CASE BusStep
    BY <1>1, <1>4, <2>3 DEF BusStep, Buries
  <2>4. CASE UNCHANGED vars
    BY <1>1, <2>4 DEF vars
  <2> QED BY <1>t, <1>2, <2>1, <2>2, <2>3, <2>4 DEF AnyStep
<1> QED BY <1>t, <1>5 DEF LeasedInv

\* Of one dispatch's workers at most one stands between its reassert and its
\* rename, whatever was redelivered, cancelled or lapsed, and also when managers die.
THEOREM SwapsExclusive == Spec => []SwapExclusive
<1>1. LeasedInv => SwapExclusive
  BY DEF LeasedInv, LeaseInv
<1> QED BY <1>1, LeasedInit, LeasedStep, PTL DEF Spec

-----------------------------------------------------------------------------
(* Deliveries. A worker that has not got its lease yet still has its task on *)
(* the stream, or its dispatch is over; the first delivery is alone with it. *)

Stored ==
    \A w \in Workers : wk[w].pc \in {"check", "lease", "found"} => wk[w].seq \in tasks \/ Over(wk[w].seq)

Noted ==
    /\ \A w \in Workers : Busy(w) => wk[w].seq \in delivered
    /\ rec.state = "claimed" => rec.seq \in delivered

Unclaimed ==
    \A w \in Workers : wk[w].pc \in {"check", "lease", "claim"} /\ ~wk[w].re
                         => ~(rec.state = "claimed" /\ rec.seq = wk[w].seq)

Alone ==
    \A v, w \in Workers : wk[w].pc \in {"check", "lease"} /\ ~wk[w].re /\ v # w
                            => wk[v].seq # wk[w].seq

DeliveryInv == Stored /\ Noted /\ Unclaimed /\ Alone

DeliveredInv == LeasedInv /\ DeliveryInv

LEMMA DeliveredInit == Init => DeliveredInv
<1> SUFFICES ASSUME Init PROVE DeliveredInv
  OBVIOUS
<1>1. LeasedInv
  BY LeasedInit
<1>2. \A w \in Workers : wk[w].pc = "idle"
  BY DEF Init, Resting
<1>3. rec.state = "absent"
  BY DEF Init, Absent
<1> QED BY <1>1, <1>2, <1>3 DEF DeliveredInv, DeliveryInv, Stored, Noted, Unclaimed, Alone, Busy

\* A delivery that acks without an answer acks a dispatch that is over.
LEMMA DropsOver ==
    ASSUME DeliveredInv, NEW w \in Workers, Drops(w), tasks' # tasks
    PROVE  Over(wk[w].seq)
<1>n. /\ rec.seq \in Int /\ lease.seq \in Int /\ wk[w].seq \in Int /\ (rec.seq > 0 => Ok(rec))
      /\ wk[w].seq > 0 /\ wk[w].seq <= rec.seq /\ rec.state # "deferred" /\ lease.seq <= rec.seq
      /\ (lease.by = "cancelled" => Over(lease.seq)) /\ rec \in Values
  BY Numbers DEF DeliveredInv, LeasedInv, RecordInv, RecInv, LeaseInv, Drops, TypeInv, TypeOK
<1>s. Ok(rec) => rec.state \in States
  BY <1>n, ValueFacts
<1>1. CASE lease.seq > wk[w].seq
  BY <1>1, <1>n DEF Over, Superseded
<1>2. CASE wk[w].pc = "claim" /\ ~ClaimWrites(rec, wk[w].seq, wk[w].re, FALSE)
  <2>1. rec.state = "claimed" /\ rec.seq = wk[w].seq => wk[w].re
    BY <1>2 DEF DeliveredInv, DeliveryInv, Unclaimed
  <2> QED BY <1>2, <1>n, <1>s, <2>1
          DEF ClaimWrites, Progresses, NotYet, Over, Superseded, States, TerminalAnswered
<1> QED BY <1>1, <1>2, <1>n DEF Drops

LEMMA DeliveredStep == ASSUME DeliveredInv, [Next]_vars PROVE DeliveredInv'
<1>t. /\ LeasedInv /\ DeliveryInv /\ LeasedInv' /\ AnyStep /\ TypeInv /\ RecordInv /\ RecInv /\ PassInv
      /\ Stored /\ Noted /\ Unclaimed /\ Alone /\ WorkerInv
  BY LeasedStep, Steps DEF DeliveredInv, LeasedInv, RecordInv, DeliveryInv, TypeInv
<1>n. /\ rec.seq \in Int /\ status.seq \in Int /\ status.last \in Int
      /\ \A w \in Workers : wk[w].seq \in Int
  BY <1>t, Numbers
<1>o. rec.seq <= rec'.seq /\ \A s \in Int : Over(s) => Superseded(rec', s)
  BY <1>t, OverStays DEF Over
<1>1. ASSUME UNCHANGED <<wk, delivered>>, tasks \in SUBSET tasks', rec' = rec \/ rec'.state # "claimed"
      PROVE  DeliveryInv'
  BY <1>1, <1>n, <1>o, <1>t DEF DeliveryInv, Stored, Noted, Unclaimed, Alone, Busy, Over
<1>2. ASSUME NEW w \in Workers, WorkerStep(w) PROVE DeliveryInv'
  <2>u. \A v \in Workers \ {w} : wk'[v] = wk[v]
    BY <1>2 DEF WorkerStep
  <2>1. CASE Delivers(w)
    <3>1. /\ wk'[w].seq \in tasks /\ tasks' = tasks /\ rec' = rec /\ delivered' = delivered \cup {wk'[w].seq}
          /\ wk'[w].pc = "check" /\ ~Settling(wk'[w].seq) /\ (~wk'[w].re => wk'[w].seq \notin delivered)
          /\ wk'[w].seq \in Seqs
      BY <2>1, <1>t DEF Delivers, TypeInv, TypeOK
    <3>2. Stored' /\ Noted' /\ Unclaimed'
      BY <1>t, <2>u, <3>1 DEF Stored, Noted, Unclaimed, Busy, Over
    <3>3. ASSUME NEW v \in Workers, NEW u \in Workers, wk'[u].pc \in {"check", "lease"}, ~wk'[u].re, v # u
          PROVE  wk'[v].seq # wk'[u].seq
      <4>1. CASE u = w
        <5>1. wk[v].seq \in delivered \/ wk[v].seq = 0
          BY <1>t DEF Noted, WorkerInv
        <5> QED BY <4>1, <2>u, <3>1, <3>3, <5>1, SeqFacts
      <4>2. CASE u # w /\ v = w
        BY <4>2, <2>u, <3>1, <3>3 DEF Settling
      <4>3. CASE u # w /\ v # w
        BY <4>3, <2>u, <3>3, <1>t DEF Alone
      <4> QED BY <4>1, <4>2, <4>3
    <3>4. Alone'
      BY <3>3 DEF Alone
    <3> QED BY <3>2, <3>4 DEF DeliveryInv
  <2>2. CASE Drops(w) \/ Settles(w)
    <3>1. /\ wk'[w].pc = "idle" /\ wk'[w].seq = 0 /\ delivered' = delivered
          /\ tasks' \in {tasks, tasks \ {wk[w].seq}}
      BY <2>2 DEF Drops, Settles
    <3>2. tasks' # tasks => Superseded(rec', wk[w].seq)
      <4>1. CASE Drops(w)
        BY <4>1, <1>n, <1>o, DropsOver DEF Drops
      <4>2. CASE Settles(w)
        <5>1. \A s \in Int : s = wk[w].seq => Superseded(rec', s)
          BY <4>2, <1>2, <1>t, WorkerWrites DEF Over
        <5> QED BY <1>n, <5>1
      <4> QED BY <2>2, <4>1, <4>2
    <3>3. rec' = rec \/ rec'.state = "answered"
      <4>1. CASE Settles(w)
        <5>1. PICK fact \in BOOLEAN : rec' = rec \/ rec' = Record(wk[w].seq, "answered", fact)
          BY <4>1 DEF Settles
        <5> QED BY <5>1 DEF Record
      <4> QED BY <2>2, <4>1 DEF Drops
    <3>4. Stored'
      BY <1>t, <1>n, <1>o, <2>u, <3>1, <3>2 DEF Stored, Over
    <3>5. Noted' /\ Unclaimed'
      BY <1>t, <2>u, <3>1, <3>3 DEF Noted, Unclaimed, Busy
    <3>6. Alone'
      BY <1>t, <2>u, <3>1, SeqFacts DEF Alone, WorkerInv, Busy
    <3> QED BY <3>4, <3>5, <3>6 DEF DeliveryInv
  <2>3. CASE Advances(w) \/ Takes(w) \/ Renames(w)
    <3>1. /\ wk'[w].seq = wk[w].seq /\ wk'[w].re = wk[w].re /\ UNCHANGED <<rec, tasks, delivered>> /\ Busy(w)
          /\ wk'[w].pc \in {"check", "lease", "found"} => wk[w].pc \in {"check", "lease", "found"}
          /\ wk'[w].pc \in {"check", "lease", "claim"} => wk[w].pc \in {"check", "lease", "claim"}
          /\ wk'[w].pc \in {"check", "lease"} => wk[w].pc \in {"check", "lease"}
      BY <2>3 DEF Advances, Takes, Renames, Busy
    <3>2. Stored' /\ Noted' /\ Unclaimed'
      BY <1>t, <2>u, <3>1 DEF Stored, Noted, Unclaimed, Busy, Over
    <3>3. Alone'
      BY <1>t, <2>u, <3>1 DEF Alone
    <3> QED BY <3>2, <3>3 DEF DeliveryInv
  <2>4. CASE Claims(w)
    <3>1. /\ wk'[w].seq = wk[w].seq /\ wk'[w].re = wk[w].re /\ UNCHANGED <<tasks, delivered>>
          /\ wk'[w].pc = "encode" /\ wk[w].pc = "claim"
          /\ rec'.state = "claimed" /\ rec'.seq = wk[w].seq
          /\ ~Over(wk[w].seq)
      BY <2>4 DEF Claims, ClaimWrites, Progresses, Over, Record
    <3>2. Stored' /\ Noted' /\ Alone'
      BY <1>t, <1>n, <1>o, <2>u, <3>1 DEF Stored, Noted, Alone, Busy, Over
    <3>3. ASSUME NEW u \in Workers, wk'[u].pc \in {"check", "lease", "claim"}, ~wk'[u].re,
                 wk'[u].seq = wk[w].seq
          PROVE  FALSE
      <4>1. u # w /\ wk'[u] = wk[u]
        BY <2>u, <3>1, <3>3
      <4>2. CASE wk[u].pc \in {"check", "lease"}
        BY <1>t, <3>3, <4>1, <4>2 DEF Alone
      <4>3. CASE wk[u].pc = "claim"
        <5>1. Mine(u) /\ Mine(w)
          BY <1>t, <3>1, <3>3, <4>1, <4>3 DEF LeasedInv, LeaseInv, Held, Leased, Holding
        <5> QED BY <4>1, <5>1, MineFacts
      <4> QED BY <3>3, <4>1, <4>2, <4>3
    <3>4. Unclaimed'
      BY <3>1, <3>3 DEF Unclaimed
    <3> QED BY <3>2, <3>4 DEF DeliveryInv
  <2> QED BY <1>2, <2>1, <2>2, <2>3, <2>4 DEF WorkerStep
<1>3. ASSUME LoopStep PROVE DeliveryInv'
  <2>1. UNCHANGED <<wk, delivered>> /\ (rec' = rec \/ rec'.state # "claimed")
    <3>1. rec' = rec \/ rec'.state \in {"requested", "withdrawn"}
      BY <1>3, <1>t, LoopWrites
    <3> QED BY <1>3, <3>1 DEF LoopStep
  <2>2. CASE Purges
    <3>1. mgr.pc = "wpurge"
      BY <2>2 DEF Purges
    <3>2. Over(status.seq) /\ status.seq = status.last /\ rec.seq <= status.last
      BY <1>t, <3>1 DEF PassInv, RecInv, TypeInv, StatusInv
    <3>3. \A w \in Workers : Busy(w) => wk[w].seq <= status.seq
      BY <1>t, <1>n, <3>2 DEF RecInv
    <3>4. \A w \in Workers : Busy(w) => Over(wk[w].seq)
      BY <1>t, <1>n, <3>2, <3>3, OverBelow
    <3>5. \A w \in Workers : Busy(w) => Superseded(rec', wk[w].seq)
      BY <1>n, <1>o, <3>4
    <3>6. Stored'
      BY <2>1, <3>5 DEF Stored, Over, Busy
    <3> QED BY <1>t, <2>1, <3>6 DEF DeliveryInv, Noted, Unclaimed, Alone, Busy
  <2>3. CASE ~Purges
    <3>1. tasks \in SUBSET tasks'
      BY <1>3, <2>3 DEF LoopStep, Gathers, Requests, Publishes, Withdraws, Cancels, Breaks
    <3> QED BY <1>1, <2>1, <3>1
  <2> QED BY <2>2, <2>3
<1>4. ASSUME BusStep PROVE DeliveryInv'
  <2>1. UNCHANGED <<wk, delivered, rec>>
    BY <1>4 DEF BusStep
  <2>2. tasks' = tasks \/ \E s \in tasks : tasks' = tasks \ {s} /\ ~Settling(s)
    BY <1>4 DEF BusStep, Buries, Lapses
  <2>3. Stored'
    BY <1>t, <2>1, <2>2 DEF Stored, Over, Settling
  <2> QED BY <1>t, <2>1, <2>3 DEF DeliveryInv, Noted, Unclaimed, Alone, Busy
<1>5. DeliveryInv'
  <2>1. CASE PlanStep
    BY <1>1, <2>1 DEF PlanStep
  <2>2. CASE UNCHANGED vars
    BY <1>1, <2>2 DEF vars
  <2> QED BY <1>t, <1>2, <1>3, <1>4, <2>1, <2>2 DEF AnyStep
<1> QED BY <1>t, <1>5 DEF DeliveredInv

-----------------------------------------------------------------------------
(* Facts. A fact nobody has incorporated, and a record a delivery may still  *)
(* turn into one, belong to the block: in flight, withdrawn and waited for,  *)
(* or below a request that has not been written. Or its worker was given up  *)
(* as lost: then nothing is left of the dispatch but facts to be recorded.   *)

Unread == rec.fact /\ rec.seq > seen.fact /\ rec.seq > seen.lost

At(s) == s \in tasks \/ \E w \in Workers : Busy(w) /\ wk[w].seq = s
AtWork(s) == s \in tasks \/ \E w \in Workers : Busy(w) /\ wk[w].pc # "fact" /\ wk[w].seq = s

Owned ==
    \/ rec.seq = status.seq /\ (status.withdrawn \/ status.seq > status.answered)
    \/ rec.seq < status.seq /\ status.phase = "Queued"

FactInv ==
    /\ seen.fact <= status.last /\ seen.lost <= status.last
    /\ Unread => Owned
    /\ ~TerminalAnswered(rec.state) /\ At(rec.seq) => Owned \/ rec.seq <= seen.lost
    /\ rec.state \in {"requested", "claimed"} /\ AtWork(rec.seq) => rec.seq = status.seq /\ InFlightPhase
    /\ mgr.pc = "plan" /\ mgr.gone /\ ClaimedHere => ~AtWork(status.seq)
    /\ mgr.pc = "record" /\ mgr.fresh => ~Unread

OwnedInv == DeliveredInv /\ FactInv

LEMMA OwnedInit == Init => OwnedInv
<1> SUFFICES ASSUME Init PROVE OwnedInv
  OBVIOUS
<1>1. DeliveredInv
  BY DeliveredInit
<1>2. rec.state = "absent" /\ ~rec.fact /\ mgr.pc = "idle" /\ tasks = {}
  BY NoPassType DEF Init, Absent
<1>3. \A s : ~At(s) /\ ~AtWork(s)
  BY <1>2 DEF Init, Resting, At, AtWork, Busy
<1>4. seen.fact = 0 /\ seen.lost = 0 /\ status.last = 0
  BY DEF Init
<1> QED BY <1>1, <1>2, <1>3, <1>4 DEF OwnedInv, FactInv, Unread

\* Nothing but the loop's publish makes a dispatch busy again.
LEMMA AtShrinks ==
    ASSUME TypeInv, NEW s
    PROVE  /\ \A w \in Workers : WorkerStep(w) => (At(s)' => At(s)) /\ (AtWork(s)' => AtWork(s))
           /\ UNCHANGED wk /\ tasks' \in SUBSET tasks => (At(s)' => At(s)) /\ (AtWork(s)' => AtWork(s))
<1>1. ASSUME NEW w \in Workers, WorkerStep(w) PROVE (At(s)' => At(s)) /\ (AtWork(s)' => AtWork(s))
  <2>1. \A v \in Workers \ {w} : wk'[v] = wk[v]
    BY <1>1 DEF WorkerStep
  <2>2. tasks' \in SUBSET tasks
    BY <1>1 DEF WorkerStep, Delivers, Drops, Advances, Takes, Claims, Renames, Settles
  <2>3. /\ wk'[w].pc # "idle" => wk'[w].seq \in tasks \/ (Busy(w) /\ wk'[w].seq = wk[w].seq)
        /\ wk[w].pc = "fact" => wk'[w].pc = "idle"
    BY <1>1 DEF WorkerStep, Delivers, Drops, Advances, Takes, Claims, Renames, Settles, Busy
  <2>4. At(s)' => At(s)
    BY <2>1, <2>2, <2>3 DEF At, Busy
  <2>5. AtWork(s)' => AtWork(s)
    BY <2>1, <2>2, <2>3 DEF AtWork, Busy
  <2> QED BY <2>4, <2>5
<1>2. ASSUME UNCHANGED wk, tasks' \in SUBSET tasks PROVE (At(s)' => At(s)) /\ (AtWork(s)' => AtWork(s))
  BY <1>2 DEF At, AtWork, Busy
<1> QED BY <1>1, <1>2

\* The evidence of a lost worker is one: no delivery of the dispatch is left but
\* one that has made its swap and only has to record it.
LEMMA GoneIsIdle ==
    ASSUME DeliveredInv, lease = NoLease, tasks = {}, rec = Record(status.seq, "claimed", FALSE)
    PROVE  ~AtWork(status.seq)
<1> SUFFICES ASSUME NEW w \in Workers, Busy(w), wk[w].pc # "fact", wk[w].seq = status.seq PROVE FALSE
  BY DEF AtWork
<1>1. ~Over(wk[w].seq)
  <2>1. wk[w].seq \in Int
    BY Numbers DEF DeliveredInv, LeasedInv, RecordInv
  <2> QED BY <2>1 DEF Over, Superseded, Record, TerminalAnswered
<1>2. ~Mine(w)
  BY MineFacts
<1>3. wk[w].pc \notin Leased
  BY <1>1, <1>2 DEF DeliveredInv, LeasedInv, LeaseInv, Held
<1>4. wk[w].pc \notin {"check", "lease", "found"}
  BY <1>1 DEF DeliveredInv, DeliveryInv, Stored
<1>5. wk[w] \in WorkerStates
  BY Fields DEF DeliveredInv, LeasedInv, RecordInv, TypeInv
<1> QED BY <1>3, <1>4, <1>5 DEF WorkerStates, Leased, Holding, Busy

LEMMA OwnedStep == ASSUME OwnedInv, [Next]_vars PROVE OwnedInv'
<1>t. /\ DeliveredInv /\ FactInv /\ DeliveredInv' /\ AnyStep /\ LeasedInv /\ RecordInv
      /\ TypeInv /\ RecInv /\ PassInv /\ StatusInv /\ rec \in Values /\ rec' \in Values
  BY DeliveredStep, Steps
     DEF OwnedInv, DeliveredInv, LeasedInv, RecordInv, TypeInv, TypeOK
<1>n. /\ status.seq \in Int /\ status.last \in Int /\ status.answered \in Int /\ rec.seq \in Int
      /\ mgr.cur.seq \in Int /\ seen.fact \in Int /\ seen.lost \in Int /\ 0 <= rec.seq
      /\ seen \in Closings
      /\ (rec.seq > 0 => Ok(rec)) /\ (rec.fact => rec.state = "answered")
  BY <1>t, Numbers DEF TypeInv, TypeOK
<1>s. /\ InFlightPhase => /\ status.seq = status.last /\ status.seq > 0
                          /\ status.answered = 0 /\ ~status.withdrawn
      /\ ~InFlightPhase => status.seq <= status.answered
      /\ mgr.pc \notin {"idle", "plan"} => InFlightPhase
      /\ rec.seq <= status.last
  BY <1>t, SeqFacts DEF StatusInv, RecInv
<1>1. ASSUME PlanStep PROVE FactInv'
  <2>u. mgr.pc = "plan" /\ UNCHANGED <<rec, tasks, wk>> /\ (mgr'.fresh => mgr.fresh)
    BY <1>1 DEF PlanStep
  <2>c. /\ rec.seq = mgr.cur.seq /\ (TerminalAnswered(mgr.cur.state) => rec = mgr.cur)
        /\ (mgr.cur.state = "withdrawn" => rec.state \in {"withdrawn", "answered"})
        /\ (mgr.fresh => rec = mgr.cur)
    BY <1>t, <2>u DEF PassInv
  <2>g. mgr'.pc # "plan"
    BY <1>1 DEF PlanStep, Keeps, NotesClaim, TakesIn, GivesUp, Issues, MovesOn, Forgets, Closes
  <2>k. (At(rec.seq)' <=> At(rec.seq)) /\ (AtWork(rec.seq)' <=> AtWork(rec.seq))
    BY <2>u DEF At, AtWork, Busy
  <2>1. CASE Keeps
    <3>1. Owned' <=> Owned
      BY <2>1, <2>u DEF Keeps, SameDispatch, Owned
    <3>2. InFlightPhase' <=> InFlightPhase
      BY <2>1 DEF Keeps, InFlightPhase
    <3>3. (Unread' <=> Unread) /\ seen' = seen
      BY <2>1, <2>u DEF Keeps, Unread
    <3>4. mgr'.pc = "record" /\ mgr'.fresh => ~Unread
      <4>1. ASSUME mgr'.pc = "record", mgr'.fresh, Unread PROVE FALSE
        <5>1. rec = mgr.cur /\ status.phase = "Queued" /\ mgr.cur.seq < status.seq /\ ~FactBelow
          BY <2>1, <2>u, <2>c, <4>1 DEF Keeps
        <5>2. status.answered = 0
          BY <1>s, <5>1 DEF InFlightPhase
        <5>3. 0 <= seen.fact
          BY <1>n, DispatchAssumption DEF Closings, Seqs0
        <5> QED BY <1>n, <4>1, <5>1, <5>2, <5>3 DEF Unread, FactBelow
      <4> QED BY <4>1
    <3> QED BY <1>t, <2>1, <2>u, <2>g, <2>k, <3>1, <3>2, <3>3, <3>4 DEF FactInv, Keeps, SameDispatch
  <2>2. CASE NotesClaim
    <3>1. /\ rec.seq = status.seq /\ status'.seq = status.seq /\ status'.answered = status.answered
          /\ status'.phase = "Running" /\ status.phase = "Queued" /\ mgr'.pc = "idle" /\ seen' = seen
          /\ status'.last = status.last
      BY <2>2, <2>c DEF NotesClaim, SameDispatch
    <3>2. status.seq > status.answered
      BY <1>s, <3>1 DEF InFlightPhase
    <3>3. Owned' /\ InFlightPhase'
      BY <2>u, <3>1, <3>2 DEF Owned, InFlightPhase
    <3> QED BY <1>t, <2>u, <3>1, <3>3 DEF FactInv
  <2>3. CASE TakesIn
    <3>1. rec = mgr.cur /\ TerminalAnswered(rec.state) /\ mgr'.pc = "idle" /\ status'.last = status.last
      BY <2>3, <2>c DEF TakesIn
    <3>2. /\ seen'.lost = seen.lost
          /\ seen'.fact = IF rec.fact /\ rec.seq > seen.fact THEN rec.seq ELSE seen.fact
      BY <1>n, <2>3, <3>1 DEF TakesIn, Saw, Closings
    <3>3. ~Unread'
      BY <1>n, <2>u, <3>2 DEF Unread
    <3>4. seen'.fact <= status.last /\ seen'.lost <= status.last
      BY <1>n, <1>s, <1>t, <3>2 DEF FactInv
    <3> QED BY <2>u, <3>1, <3>3, <3>4 DEF FactInv, TerminalAnswered
  <2>4. CASE GivesUp
    <3>1. /\ rec.seq = status.seq /\ ClaimedHere /\ mgr.gone /\ mgr'.pc = "idle"
          /\ status'.last = status.last /\ InFlightPhase
      BY <1>t, <1>n, <2>4, <2>c DEF GivesUp, RecInv, InFlightPhase
    <3>2. ~AtWork(rec.seq)
      BY <1>t, <2>u, <3>1 DEF FactInv
    <3>3. seen'.lost = rec.seq /\ seen'.fact = seen.fact
      BY <1>n, <2>4, <3>1 DEF GivesUp, Closings
    <3>4. ~Unread' /\ rec'.seq <= seen'.lost
      BY <1>n, <2>u, <3>3 DEF Unread
    <3>5. seen'.fact <= status'.last /\ seen'.lost <= status'.last
      BY <1>n, <1>s, <1>t, <3>1, <3>3 DEF FactInv
    <3> QED BY <2>u, <2>k, <3>1, <3>2, <3>4, <3>5 DEF FactInv
  <2>5. CASE Issues
    <3>1. /\ status'.phase = "Queued" /\ rec.seq < status'.seq /\ status.phase = "Planned"
          /\ ~UnincorporatedFact /\ UNCHANGED seen /\ status'.last > status.last /\ status'.last \in Int
      BY <1>n, <1>s, <2>5, <2>c, SeqFacts DEF Issues
    <3>2. Owned'
      BY <2>u, <3>1 DEF Owned
    <3>3. ~(rec.state \in {"requested", "claimed"} /\ AtWork(rec.seq))
      BY <1>t, <3>1 DEF FactInv, InFlightPhase
    <3>4. ASSUME mgr.fresh, Unread PROVE FALSE
      <4>1. Owned /\ rec = mgr.cur
        BY <1>t, <2>c, <3>4 DEF FactInv
      <4> QED BY <3>1, <3>4, <4>1 DEF Owned, UnincorporatedFact, Unread
    <3>5. Unread' <=> Unread
      BY <2>u, <3>1 DEF Unread
    <3>6. seen'.fact <= status'.last /\ seen'.lost <= status'.last
      BY <1>n, <1>t, <3>1 DEF FactInv
    <3> QED BY <2>u, <2>g, <2>k, <3>2, <3>3, <3>4, <3>5, <3>6 DEF FactInv
  <2>6. CASE MovesOn
    <3>1. /\ SameDispatch /\ ~InFlightPhase /\ UNCHANGED seen /\ mgr'.pc = "idle"
      BY <2>6 DEF MovesOn
    <3>2. Owned => Owned'
      BY <2>u, <3>1 DEF Owned, SameDispatch, InFlightPhase
    <3>3. ~(rec.state \in {"requested", "claimed"} /\ AtWork(rec.seq))
      BY <1>t, <3>1 DEF FactInv
    <3>4. Unread' <=> Unread
      BY <2>u, <3>1 DEF Unread
    <3> QED BY <1>t, <2>u, <2>k, <3>1, <3>2, <3>3, <3>4 DEF FactInv, SameDispatch
  <2>7. CASE Forgets
    <3>1. /\ ~InFlightPhase /\ ~status.withdrawn /\ UNCHANGED seen /\ mgr'.pc = "idle"
          /\ status'.last = status.last
      BY <2>7 DEF Forgets
    <3>2. ~Owned
      BY <1>n, <1>s, <3>1 DEF Owned, InFlightPhase
    <3>3. ~(rec.state \in {"requested", "claimed"} /\ AtWork(rec.seq))
      BY <1>t, <3>1 DEF FactInv
    <3>4. Unread' <=> Unread
      BY <2>u, <3>1 DEF Unread
    <3> QED BY <1>t, <2>u, <2>k, <3>1, <3>2, <3>3, <3>4 DEF FactInv
  <2>8. CASE Closes
    <3>1. /\ rec.seq = status.seq /\ rec.state \in {"withdrawn", "answered"}
          /\ status'.seq = status.seq /\ status'.withdrawn /\ mgr'.pc = "idle"
          /\ status'.last = status.last /\ UNCHANGED seen
      BY <2>8, <2>c DEF Closes, WithdrawnAt
    <3>2. Owned'
      BY <2>u, <3>1 DEF Owned
    <3> QED BY <1>t, <2>u, <3>1, <3>2 DEF FactInv
  <2> QED BY <1>1, <2>1, <2>2, <2>3, <2>4, <2>5, <2>6, <2>7, <2>8 DEF PlanStep
<1>2. ASSUME NEW w \in Workers, WorkerStep(w) PROVE FactInv'
  <2>u. /\ UNCHANGED <<status, seen>> /\ mgr'.pc = mgr.pc /\ mgr'.cur = mgr.cur /\ mgr'.gone = mgr.gone
        /\ mgr'.fresh => mgr.fresh /\ rec' = rec
    BY <1>2 DEF WorkerStep, PassKept
  <2>r. /\ rec'.seq = rec.seq
        /\ rec' = rec \/ (rec'.seq = wk[w].seq /\ rec'.state \in {"claimed", "answered"})
        /\ (TerminalAnswered(rec.state) => rec' = rec)
        /\ (rec.state = "withdrawn" => rec'.state \in {"withdrawn", "answered"})
        /\ rec.state # "deferred"
    BY <1>2, <1>t, WorkerWrites DEF RecInv
  <2>b. (At(rec.seq)' => At(rec.seq)) /\ (AtWork(rec.seq)' => AtWork(rec.seq))
    <3>1. /\ At(rec.seq)' => (rec'.seq \in tasks' \/ \E v \in Workers : wk'[v].pc # "idle" /\ wk'[v].seq = rec'.seq)
          /\ AtWork(rec.seq)' => (rec'.seq \in tasks' \/ \E v \in Workers : wk'[v].pc \notin {"idle", "fact"} /\ wk'[v].seq = rec'.seq)
      BY DEF At, AtWork, Busy
    <3>2. \A s : /\ (s \in tasks' \/ \E v \in Workers : wk'[v].pc # "idle" /\ wk'[v].seq = s) => At(s)
                 /\ (s \in tasks' \/ \E v \in Workers : wk'[v].pc \notin {"idle", "fact"} /\ wk'[v].seq = s) => AtWork(s)
      BY <1>2, <1>t, AtShrinks DEF At, AtWork, Busy
    <3> QED BY <2>r, <3>1, <3>2
  <2>c. AtWork(status.seq)' => AtWork(status.seq)
    <3>1. AtWork(status.seq)' => (status'.seq \in tasks' \/ \E v \in Workers : wk'[v].pc \notin {"idle", "fact"} /\ wk'[v].seq = status'.seq)
      BY DEF AtWork, Busy
    <3>2. \A s : (s \in tasks' \/ \E v \in Workers : wk'[v].pc \notin {"idle", "fact"} /\ wk'[v].seq = s) => AtWork(s)
      BY <1>2, <1>t, AtShrinks DEF AtWork, Busy
    <3> QED BY <2>u, <3>1, <3>2
  <2>w. rec' # rec => Busy(w) /\ wk[w].seq = rec.seq /\ At(rec.seq)
    <3>1. rec' # rec => Busy(w)
      BY <1>2 DEF WorkerStep, Delivers, Drops, Advances, Takes, Claims, Renames, Settles, Busy
    <3> QED BY <2>r, <3>1 DEF At
  <2>s. rec' # rec => rec.state \in {"requested", "claimed", "withdrawn"}
    <3>1. rec' # rec => rec.seq > 0
      BY <1>t, <2>w, Numbers
    <3>2. Ok(rec) => rec.state \in States
      BY <1>t, ValueFacts
    <3> QED BY <1>n, <2>r, <3>1, <3>2 DEF States, TerminalAnswered
  <2>o. Owned' <=> Owned
    BY <2>u, <2>r DEF Owned
  <2>1. Unread' => Owned'
    BY <1>t, <1>n, <2>u, <2>r, <2>o, <2>w DEF FactInv, Unread
  <2>2. ~TerminalAnswered(rec'.state) /\ At(rec.seq)' => Owned' \/ rec'.seq <= seen'.lost
    BY <1>t, <2>u, <2>b, <2>o, <2>r DEF FactInv
  <2>3. rec'.state \in {"requested", "claimed"} /\ AtWork(rec.seq)' => rec'.seq = status'.seq /\ InFlightPhase'
    <3>1. rec'.state \in {"requested", "claimed"} => rec.state \in {"requested", "claimed"}
      BY <2>s, <2>r
    <3> QED BY <1>t, <2>u, <2>b, <2>r, <3>1 DEF FactInv, InFlightPhase
  <2>4. mgr'.pc = "plan" /\ mgr'.gone /\ ClaimedHere' => ~AtWork(status.seq)'
    BY <1>t, <2>u, <2>c DEF FactInv, ClaimedHere
  <2>5. mgr'.pc = "record" /\ mgr'.fresh => ~Unread'
    BY <1>t, <2>u DEF FactInv, Unread
  <2> QED BY <1>t, <2>u, <2>1, <2>2, <2>3, <2>4, <2>5 DEF FactInv
<1>3. ASSUME LoopStep PROVE FactInv'
  <2>u. UNCHANGED <<status, seen, wk>>
    BY <1>3 DEF LoopStep
  <2>f. InFlightPhase' <=> InFlightPhase
    BY <2>u DEF InFlightPhase
  <2>i. ASSUME InFlightPhase, rec'.seq = status.seq, Unread' => rec' = rec, mgr'.pc # "plan",
               mgr'.pc = "record" => FALSE
        PROVE  FactInv'
    <3>1. Owned'
      BY <1>n, <1>s, <2>i, <2>u DEF Owned
    <3> QED BY <1>t, <2>u, <2>f, <2>i, <3>1 DEF FactInv
  <2>1. CASE Gathers
    <3>1. /\ UNCHANGED <<rec, lease, tasks>> /\ mgr'.pc = "plan" /\ mgr'.cur = rec
          /\ mgr'.gone => lease = NoLease /\ tasks = {}
      BY <2>1 DEF Gathers
    <3>3. ASSUME mgr'.gone, ClaimedHere' PROVE ~AtWork(status.seq)'
      <4>1. rec = Record(status.seq, "claimed", FALSE)
        BY <2>u, <3>1, <3>3 DEF ClaimedHere
      <4>2. ~AtWork(status.seq)
        BY <1>t, <3>1, <3>3, <4>1, GoneIsIdle
      <4> QED BY <2>u, <3>1, <4>2 DEF AtWork, Busy
    <3>4. /\ Owned' <=> Owned
          /\ Unread' <=> Unread
          /\ At(rec.seq)' <=> At(rec.seq)
          /\ AtWork(rec.seq)' <=> AtWork(rec.seq)
      BY <2>u, <3>1 DEF Owned, Unread, At, AtWork, Busy
    <3> QED BY <1>t, <2>u, <2>f, <3>1, <3>3, <3>4 DEF FactInv
  <2>2. CASE Requests /\ rec' = Record(status.seq, "requested", FALSE) /\ mgr'.pc = "publish"
    <3>1. rec'.seq = status.seq /\ ~rec'.fact /\ InFlightPhase
      BY <1>s, <2>2 DEF Requests, Record
    <3> QED BY <2>2, <2>i, <3>1 DEF Unread
  <2>3. CASE Publishes
    <3>1. rec' = rec /\ rec.seq = status.seq /\ InFlightPhase /\ mgr'.pc = "idle"
      BY <1>t, <1>s, <2>3 DEF Publishes, PassInv
    <3> QED BY <2>i, <3>1
  <2>4. CASE Withdraws /\ rec' = Record(status.seq, "withdrawn", FALSE) /\ mgr'.pc = "wlease"
    <3>1. rec'.seq = status.seq /\ ~rec'.fact /\ InFlightPhase
      BY <1>s, <2>4 DEF Withdraws, Record
    <3> QED BY <2>4, <2>i, <3>1 DEF Unread
  <2>5. CASE rec' = rec /\ ~Gathers /\ ~Publishes
    <3>1. mgr'.pc # "plan" /\ mgr'.pc # "record"
      BY <1>3, <2>5 DEF LoopStep, Requests, Withdraws, Cancels, Purges, Breaks
    <3>2. /\ Owned' <=> Owned
          /\ Unread' <=> Unread
      BY <2>u, <2>5 DEF Owned, Unread
    <3>3. (At(rec.seq)' => At(rec.seq)) /\ (AtWork(rec.seq)' => AtWork(rec.seq))
      <4>1. tasks' \in SUBSET tasks
        BY <1>3, <2>5 DEF LoopStep, Requests, Withdraws, Cancels, Purges, Breaks
      <4> QED BY <2>u, <2>5, <4>1 DEF At, AtWork, Busy
    <3> QED BY <1>t, <2>u, <2>f, <2>5, <3>1, <3>2, <3>3 DEF FactInv
  <2> QED BY <1>3, <2>1, <2>2, <2>3, <2>4, <2>5
          DEF LoopStep, Requests, Withdraws, Cancels, Purges, Breaks
<1>4. ASSUME BusStep \/ UNCHANGED vars PROVE FactInv'
  <2>u. UNCHANGED <<status, seen, rec, mgr, wk>> /\ tasks' \in SUBSET tasks
    BY <1>4 DEF BusStep, Buries, Lapses, vars
  <2>1. /\ Owned' <=> Owned
        /\ Unread' <=> Unread
        /\ InFlightPhase' <=> InFlightPhase
        /\ ClaimedHere' <=> ClaimedHere
    BY <2>u DEF Owned, Unread, InFlightPhase, ClaimedHere
  <2>2. (At(rec.seq)' => At(rec.seq)) /\ (AtWork(rec.seq)' => AtWork(rec.seq))
    BY <2>u DEF At, AtWork, Busy
  <2>3. AtWork(status.seq)' => AtWork(status.seq)
    BY <2>u DEF AtWork, Busy
  <2> QED BY <1>t, <2>u, <2>1, <2>2, <2>3 DEF FactInv
<1> QED BY <1>t, <1>1, <1>2, <1>3, <1>4 DEF AnyStep, OwnedInv

LEMMA TakenFacts ==
    ASSUME TypeInv
    PROVE  /\ Taken \in Int /\ seen.fact <= Taken /\ seen.lost <= Taken
           /\ Taken = seen.fact \/ Taken = seen.lost
           /\ Unread <=> rec.fact /\ rec.seq > Taken
  BY Numbers DEF Taken, Unread

\* A request is written over no fact that is not incorporated, but one of a worker
\* given up as lost: planDispatch and planInFlight look at the record they gathered,
\* and the write is at its revision.
THEOREM RequestsSpareFacts == Spec => RequestNeverOverFact
<1>1. ASSUME OwnedInv, [Next]_vars
      PROVE  rec.fact /\ rec.seq > Taken => rec'.state # "requested"
  <2>t. /\ AnyStep /\ RecordInv /\ FactInv
        /\ rec.fact => rec.state = "answered"
        /\ Unread <=> rec.fact /\ rec.seq > Taken
    <3>1. TypeInv /\ RecordInv /\ FactInv
      BY <1>1 DEF OwnedInv, DeliveredInv, LeasedInv, RecordInv
    <3> QED BY <1>1, <3>1, Steps, Numbers, TakenFacts
  <2>1. CASE rec' = rec
    BY <2>1, <2>t
  <2>2. ASSUME NEW w \in Workers, WorkerStep(w), rec' # rec PROVE rec'.state # "requested"
    BY <2>2, <2>t, WorkerWrites
  <2>3. CASE LoopStep
    <3>1. \/ rec' = rec
          \/ mgr.pc = "record" /\ mgr.fresh
          \/ rec'.state = "withdrawn"
      BY <2>3, <2>t, LoopWrites
    <3>2. mgr.pc = "record" /\ mgr.fresh => ~(rec.fact /\ rec.seq > Taken)
      BY <2>t DEF FactInv
    <3> QED BY <2>1, <2>t, <3>1, <3>2
  <2> QED BY <2>t, <2>1, <2>2, <2>3 DEF AnyStep, PlanStep, BusStep, vars
<1> QED BY <1>1, OwnedInit, OwnedStep, PTL DEF Spec, RequestNeverOverFact

-----------------------------------------------------------------------------
(* Refinement: the transcode's use of its records implements RecordLife.    *)

\* A row of the planner issues a dispatch, takes a fact in, gives a worker up, or
\* does none of it.
LEMMA PlanIsLife ==
    ASSUME OwnedInv, OwnedInv', PlanStep
    PROVE  Life!Issue \/ Life!Take \/ Life!GiveUp \/ UNCHANGED Life!life
<1>t. TypeInv /\ RecInv /\ PassInv /\ FactInv /\ StatusInv /\ seen \in Closings
  BY DEF OwnedInv, DeliveredInv, LeasedInv, RecordInv, TypeInv, TypeOK
<1>n. /\ rec.seq \in Int /\ seen.fact \in Int /\ seen.lost \in Int /\ 0 <= seen.fact
      /\ status.last \in Int /\ mgr.cur.seq \in Int /\ status.seq \in Int
      /\ rec.seq <= status.last /\ seen.fact <= status.last /\ seen.lost <= status.last
  BY <1>t, Numbers DEF RecInv, FactInv
<1>u. mgr.pc = "plan" /\ UNCHANGED rec
  BY DEF PlanStep
<1>1. CASE Issues
  <2>1. status'.last \in 1 .. MaxSeq /\ status'.last > status.last /\ Taken' = Taken
    BY <1>1 DEF Issues, Seqs, Taken
  <2> QED BY <1>u, <2>1 DEF Life!Issue
<1>2. CASE TakesIn
  <2>1. TerminalAnswered(mgr.cur.state) /\ status'.last = status.last /\ Saw(mgr.cur.fact)
    BY <1>2 DEF TakesIn
  <2>2. rec = mgr.cur
    BY <1>t, <1>u, <2>1 DEF PassInv
  <2>3. seen'.lost = seen.lost /\ (seen'.fact = seen.fact \/ (seen'.fact = rec.seq /\ rec.seq > seen.fact))
    BY <1>t, <2>1, <2>2 DEF Saw, Closings
  <2>4. Taken' = Taken \/ (Taken' = rec.seq /\ rec.seq > Taken)
    BY <1>n, <2>3 DEF Taken
  <2>5. CASE Taken' = Taken
    BY <1>u, <2>1, <2>5 DEF Life!life
  <2>6. CASE Taken' = rec.seq /\ rec.seq > Taken
    <3>1. Taken >= 0 /\ Taken \in Int
      BY <1>n DEF Taken
    <3>2. rec.seq \in 1 .. status.last
      BY <1>n, <2>6, <3>1
    <3> QED BY <1>u, <2>1, <2>2, <2>6, <3>2 DEF Life!Take, Life!TerminalAnswered, TerminalAnswered
  <2> QED BY <2>4, <2>5, <2>6
<1>3. CASE GivesUp
  <2>1. status'.last = status.last /\ seen' = [seen EXCEPT !.lost = status.seq] /\ status.seq = status.last
    BY <1>3, <1>t DEF GivesUp, StatusInv, InFlightPhase
  <2>2. seen'.lost = status.last /\ seen'.fact = seen.fact
    BY <1>t, <2>1 DEF Closings
  <2>3. Taken' = status.last /\ Taken <= status.last /\ Taken \in Int
    BY <1>n, <2>2 DEF Taken
  <2> QED BY <1>n, <1>u, <2>1, <2>3 DEF Life!GiveUp, Life!life
<1>4. CASE ~Issues /\ ~TakesIn /\ ~GivesUp
  <2>1. status'.last = status.last /\ Taken' = Taken
    BY <1>4 DEF PlanStep, SameDispatch, Keeps, NotesClaim, MovesOn, Forgets, Closes, Taken
  <2> QED BY <1>u, <2>1 DEF Life!life
<1> QED BY <1>1, <1>2, <1>3, <1>4

\* The loop's writes are a request or a withdrawal of the last dispatch.
LEMMA LoopIsLife ==
    ASSUME OwnedInv, LoopStep
    PROVE  Life!Request \/ Life!Withdraw \/ UNCHANGED Life!life
<1>t. TypeInv /\ RecordInv /\ RecInv /\ FactInv /\ rec \in Values
  BY DEF OwnedInv, DeliveredInv, LeasedInv, RecordInv, TypeInv, TypeOK
<1>n. /\ rec.seq \in Int /\ status.last \in Int /\ status.seq \in Int /\ rec.seq <= status.last
      /\ (rec.seq > 0 => Ok(rec)) /\ rec.state # "deferred"
      /\ (mgr.pc \notin {"idle", "plan"} => status.seq = status.last /\ status.seq > 0)
  BY <1>t, Numbers, SeqFacts DEF RecInv, TypeInv, StatusInv
<1>u. UNCHANGED status /\ Taken' = Taken
  BY DEF LoopStep, Taken
<1>1. CASE rec' = rec
  BY <1>1, <1>u DEF Life!life
<1>2. CASE Requests /\ rec' # rec
  <2>1. mgr.pc = "record" /\ mgr.fresh /\ rec' = Record(status.seq, "requested", FALSE)
    BY <1>2 DEF Requests
  <2>2. rec.seq < status.seq
    BY <1>t, <2>1 DEF RecordInv, PassInv
  <2>3. ~Life!Unread
    BY <1>t, <2>1, TakenFacts DEF FactInv, Life!Unread
  <2> QED BY <1>n, <1>u, <2>1, <2>2, <2>3 DEF Life!Request, Life!Record, Record
<1>3. CASE Withdraws /\ rec' # rec
  <2>1. /\ mgr.pc = "wrecord" /\ rec' = Record(status.seq, "withdrawn", FALSE)
        /\ WithdrawWrites(rec, status.seq, status.seq - 1)
    BY <1>3 DEF Withdraws
  <2>2. rec.seq < status.seq \/ (rec.seq = status.seq /\ rec.state \in {"requested", "claimed", "deferred"})
    <3>1. Ok(rec) => rec.state \in States
      BY <1>t, ValueFacts
    <3> QED BY <1>n, <2>1, <3>1 DEF WithdrawWrites, WithdrawKeeps, TerminalAnswered, States
  <2> QED BY <1>n, <1>u, <2>1, <2>2 DEF Life!Withdraw, Life!Live, Life!Record, Record
<1> QED BY <1>1, <1>2, <1>3 DEF LoopStep, Gathers, Publishes, Cancels, Purges, Breaks, Requests, Withdraws

\* A worker's write progresses or answers the dispatch the record is at.
LEMMA WorkerIsLife ==
    ASSUME OwnedInv, NEW w \in Workers, WorkerStep(w)
    PROVE  Life!Progress \/ Life!Answer \/ UNCHANGED Life!life
<1>t. TypeInv /\ RecordInv /\ RecInv /\ rec \in Values
  BY DEF OwnedInv, DeliveredInv, LeasedInv, RecordInv, TypeInv, TypeOK
<1>n. /\ rec.seq \in Int /\ status.last \in Int /\ wk[w].seq \in Int /\ rec.seq <= status.last
      /\ (rec.seq > 0 => Ok(rec)) /\ rec.state # "deferred"
      /\ (Busy(w) => wk[w].seq > 0 /\ wk[w].seq <= rec.seq)
      /\ (Ok(rec) => rec.state \in States)
  BY <1>t, Numbers, ValueFacts DEF RecInv
<1>u. UNCHANGED status /\ Taken' = Taken
  BY DEF WorkerStep, Taken
<1>1. CASE Claims(w)
  <2>1. rec.seq = wk[w].seq /\ rec.state \in {"requested", "claimed"}
    BY <1>1, <1>n DEF Claims, ClaimWrites, Progresses, NotYet, Superseded, Busy
  <2> QED BY <1>1, <1>u, <2>1 DEF Claims, Life!Progress, Life!Live, Life!Record, Record
<1>2. CASE Settles(w)
  <2>1. PICK fact \in BOOLEAN :
          \/ /\ AnswerWrites(rec, wk[w].seq, fact)
             /\ rec' = Record(wk[w].seq, "answered", fact)
          \/ ~AnswerWrites(rec, wk[w].seq, fact) /\ rec' = rec
    BY <1>2 DEF Settles
  <2>2. CASE rec' = rec
    BY <1>u, <2>2 DEF Life!life
  <2>3. CASE AnswerWrites(rec, wk[w].seq, fact) /\ rec' = Record(wk[w].seq, "answered", fact)
    <3>1. Busy(w)
      BY <1>2 DEF Settles, Busy
    <3>2. /\ rec.seq = wk[w].seq
          /\ rec.state \in {"requested", "claimed", "deferred"} \/ (rec.state = "withdrawn" /\ fact)
      BY <1>n, <2>3, <3>1 DEF AnswerWrites, TerminalAnswered, States
    <3>3. wk[w].seq \in 1 .. status.last
      BY <1>n, <3>1
    <3> QED BY <1>u, <2>3, <3>2, <3>3 DEF Life!Answer, Life!Live, Life!Record, Record
  <2> QED BY <2>1, <2>2, <2>3
<1>3. CASE ~Claims(w) /\ ~Settles(w)
  BY <1>3, <1>u DEF WorkerStep, Delivers, Drops, Advances, Takes, Renames, Life!life
<1> QED BY <1>1, <1>2, <1>3

\* Every step is a step of RecordLife, or leaves it alone.
LEMMA LifeStep == OwnedInv /\ [Next]_vars => [Life!Next]_(Life!life)
<1> SUFFICES ASSUME OwnedInv, [Next]_vars PROVE Life!Next \/ UNCHANGED Life!life
  OBVIOUS
<1>t. AnyStep /\ OwnedInv'
  BY OwnedStep, Steps DEF OwnedInv, DeliveredInv, LeasedInv, RecordInv
<1>1. CASE PlanStep
  BY <1>1, <1>t, PlanIsLife DEF Life!Next
<1>2. ASSUME NEW w \in Workers, WorkerStep(w) PROVE Life!Next \/ UNCHANGED Life!life
  BY <1>2, WorkerIsLife DEF Life!Next
<1>3. CASE LoopStep
  BY <1>3, LoopIsLife DEF Life!Next
<1>4. CASE BusStep \/ UNCHANGED vars
  BY <1>4 DEF BusStep, vars, Taken, Life!life
<1> QED BY <1>t, <1>1, <1>2, <1>3, <1>4 DEF AnyStep

\* Passes, effects, deliveries, leases and faults included, the record goes from
\* dispatch to dispatch as RecordLife says, for any workers and dispatches.
THEOREM RefinesLife == Spec => ImplementsLife
<1>1. Init => Life!Init
  BY DEF Init, Life!Init, Life!Absent, Absent, Taken
<1> QED BY <1>1, OwnedInit, OwnedStep, LifeStep, PTL DEF Spec, ImplementsLife, Life!Spec

-----------------------------------------------------------------------------
(* The swap, as long as no manager dies with a withdrawal it has not         *)
(* finished. The bytes only go forward, a worker about to swap sees those    *)
(* its dispatch was planned from, and one that still may is of the dispatch  *)
(* in flight.                                                                *)

Encoding(w) == wk[w].pc \in {"encode", "verified"}
Ready(w) == wk[w].pc = "swap" \/ (wk[w].pc = "verified" /\ Mine(w))

Forward ==
    /\ disk <= status.last /\ status.probed <= disk
    /\ \A s \in Seqs : planned[s] < s /\ planned[s] <= disk

Facts == {"swapped", "fact", "found"}

\* What a fact, made or found, says of the bytes.
Swapped ==
    /\ \A w \in Workers : wk[w].pc \in Facts => planned[wk[w].seq] < disk
    /\ rec.fact => planned[rec.seq] < disk

Unmoved ==
    \A w \in Workers : Ready(w) => /\ disk = planned[wk[w].seq]
                                   /\ \A v \in Workers : wk[v].pc = "swap" => v = w

Current ==
    \A w \in Workers : Encoding(w) /\ Mine(w)
        => (wk[w].seq = status.seq /\ InFlightPhase) \/ planned[wk[w].seq] < disk

\* An answer that is no fact was its holder's; a withdrawal without a failure,
\* or about to purge, has taken the lease away.
Fenced ==
    \A w \in Workers : Encoding(w) /\ Mine(w) =>
        /\ wk[w].seq = rec.seq /\ TerminalAnswered(rec.state) => rec.fact
        /\ ~(wk[w].seq = status.seq /\ mgr.pc = "wpurge")
        /\ ~(/\ wk[w].seq = status.seq /\ rec.seq = status.seq /\ rec.state = "withdrawn"
             /\ ~mgr.failed /\ mgr.pc # "wlease")

SwapInv == Forward /\ Swapped /\ Unmoved /\ Current /\ Fenced

ClosedInv == OwnedInv /\ SwapInv

LEMMA ClosedInit == Init => ClosedInv
<1> SUFFICES ASSUME Init PROVE ClosedInv
  OBVIOUS
<1>1. OwnedInv
  BY OwnedInit
<1>2. \A w \in Workers : wk[w].pc = "idle"
  BY DEF Init, Resting
<1>3. ~rec.fact
  BY DEF Init, Absent
<1>4. Forward
  BY SeqFacts DEF Init, Forward
<1> QED BY <1>1, <1>2, <1>3, <1>4
        DEF ClosedInv, SwapInv, Swapped, Facts, Unmoved, Current, Fenced, Ready, Encoding

\* The invariants below the swap's, with the numbers they speak of.
LEMMA ClosedFacts ==
    ASSUME ClosedInv
    PROVE  /\ OwnedInv /\ DeliveredInv /\ LeasedInv /\ RecordInv /\ TypeInv /\ TypeOK
           /\ RecInv /\ PassInv /\ LeaseInv /\ FactInv /\ StatusInv /\ SwapInv
           /\ Forward /\ Swapped /\ Unmoved /\ Current /\ Fenced
           /\ planned \in [Seqs -> Seqs0] /\ rec \in Values
           /\ status.seq \in Int /\ status.last \in Int /\ status.answered \in Int /\ status.probed \in Int
           /\ rec.seq \in Int /\ mgr.cur.seq \in Int /\ disk \in Int /\ 0 <= disk
           /\ \A s \in Seqs : planned[s] \in Int
           /\ rec.fact => rec.seq \in Seqs
           /\ \A w \in Workers : Busy(w) => /\ wk[w].seq \in Seqs /\ wk[w].seq \in Int
                                            /\ wk[w].seq <= rec.seq /\ wk[w].seq <= status.last
           /\ rec.seq <= status.last
<1>1. /\ OwnedInv /\ DeliveredInv /\ LeasedInv /\ RecordInv /\ TypeInv /\ TypeOK
      /\ RecInv /\ PassInv /\ LeaseInv /\ FactInv /\ StatusInv /\ SwapInv /\ WorkerInv
      /\ Forward /\ Swapped /\ Unmoved /\ Current /\ Fenced
      /\ planned \in [Seqs -> Seqs0] /\ rec \in Values /\ disk \in Seqs0
  BY DEF ClosedInv, OwnedInv, DeliveredInv, LeasedInv, RecordInv, TypeInv, TypeOK, SwapInv
<1>2. /\ status.seq \in Int /\ status.last \in Int /\ status.answered \in Int /\ status.probed \in Int
      /\ rec.seq \in Int /\ mgr.cur.seq \in Int /\ disk \in Int
      /\ \A w \in Workers : wk[w].seq \in Int
  BY <1>1, Numbers
<1>3. \A s \in Seqs : planned[s] \in Int
  BY <1>1, SeqFacts
<1>4. rec.fact => rec.seq \in Seqs
  BY <1>1, ValueFacts
<1>5. \A w \in Workers : Busy(w) => wk[w].seq \in Seqs /\ wk[w].seq <= rec.seq
  BY <1>1 DEF WorkerInv, RecInv
<1> QED BY <1>1, <1>2, <1>3, <1>4, <1>5, SeqFacts DEF RecInv

\* A worker that still may swap holds the dispatch in flight, so no row closes
\* its dispatch under it.
LEMMA PlanKeepsSwaps == ASSUME ClosedInv, PlanStep PROVE SwapInv'
<1>u. /\ mgr.pc = "plan" /\ UNCHANGED <<rec, lease, disk, wk>> /\ mgr'.failed = mgr.failed
      /\ mgr'.pc \in {"idle", "record", "publish", "wrecord"}
  BY DEF PlanStep, Keeps, NotesClaim, TakesIn, GivesUp, Issues, MovesOn, Forgets, Closes
<1>c. /\ rec.seq = mgr.cur.seq /\ (TerminalAnswered(mgr.cur.state) => rec = mgr.cur)
      /\ (mgr.cur.state = "withdrawn" => rec.state \in {"withdrawn", "answered"})
  BY <1>u, ClosedFacts DEF PassInv
<1>m. \A w \in Workers : (Mine(w)' <=> Mine(w)) /\ (Ready(w)' <=> Ready(w)) /\ (Encoding(w)' <=> Encoding(w))
  BY <1>u DEF Mine, Ready, Encoding
<1>b. \A w \in Workers : Ready(w) \/ Encoding(w) \/ wk[w].pc \in Facts => Busy(w)
  BY DEF Ready, Encoding, Facts, Busy
<1>p. /\ \A s \in Seqs : s <= status.last => planned'[s] = planned[s]
      /\ Forward'
  <2>1. CASE Issues
    <3>1. /\ planned' = [planned EXCEPT ![status'.seq] = status'.probed] /\ status'.seq \in Seqs
          /\ status'.seq > status.last /\ status'.last = status'.seq
          /\ status'.probed \in {status.probed, disk}
      BY <2>1 DEF Issues
    <3>2. status'.probed \in Int /\ status'.probed <= disk /\ status'.probed < status'.seq
          /\ disk <= status'.last /\ status'.seq \in Int
      BY <3>1, ClosedFacts, SeqFacts DEF Forward
    <3>3. \A s \in Seqs : planned'[s] = IF s = status'.seq THEN status'.probed ELSE planned[s]
      BY <3>1, ClosedFacts
    <3>4. \A s \in Seqs : planned'[s] < s /\ planned'[s] <= disk
      BY <3>2, <3>3, ClosedFacts DEF Forward
    <3>5. \A s \in Seqs : s <= status.last => planned'[s] = planned[s]
      BY <3>1, <3>2, <3>3, ClosedFacts, SeqFacts
    <3> QED BY <1>u, <3>2, <3>4, <3>5 DEF Forward
  <2>2. CASE ~Issues
    <3>1. UNCHANGED planned /\ status'.last = status.last /\ status'.probed \in {status.probed, disk}
      BY <2>2 DEF PlanStep, SameDispatch, Keeps, NotesClaim, TakesIn, GivesUp, MovesOn, Forgets, Closes
    <3> QED BY <1>u, <3>1, ClosedFacts DEF Forward
  <2> QED BY <2>1, <2>2
<1>1. Swapped'
  BY <1>u, <1>b, <1>p, ClosedFacts DEF Swapped
<1>2. Unmoved'
  BY <1>u, <1>m, <1>b, <1>p, ClosedFacts DEF Unmoved
<1>3. Current'
  <2> SUFFICES ASSUME NEW w \in Workers, Encoding(w), Mine(w)
               PROVE  (wk[w].seq = status'.seq /\ InFlightPhase') \/ planned[wk[w].seq] < disk
    BY <1>u, <1>m, <1>b, <1>p, ClosedFacts DEF Current
  <2>w. Busy(w) /\ wk[w].seq \in Seqs /\ wk[w].seq <= rec.seq
    BY <1>b, ClosedFacts
  <2>f. wk[w].seq = rec.seq /\ TerminalAnswered(rec.state) => planned[wk[w].seq] < disk
    BY ClosedFacts DEF Fenced, Swapped
  <2>c. (wk[w].seq = status.seq /\ InFlightPhase) \/ planned[wk[w].seq] < disk
    BY ClosedFacts DEF Current
  <2>1. CASE Keeps \/ NotesClaim
    BY <2>1, <2>c DEF Keeps, NotesClaim, SameDispatch, InFlightPhase
  <2>2. CASE TakesIn
    BY <1>c, <2>2, <2>c, <2>f, <2>w, ClosedFacts DEF TakesIn
  <2>3. CASE GivesUp
    <3>1. rec.seq = status.seq /\ ClaimedHere /\ mgr.gone
      BY <1>c, <2>3, ClosedFacts DEF GivesUp, RecInv
    <3>2. ~AtWork(status.seq)
      BY <1>u, <3>1, ClosedFacts DEF FactInv
    <3> QED BY <2>c, <2>w, <3>2 DEF AtWork, Encoding
  <2>4. CASE Issues \/ MovesOn \/ Forgets
    BY <2>4, <2>c DEF Issues, MovesOn, Forgets, InFlightPhase
  <2>5. CASE Closes
    <3>1. rec.seq = status.seq /\ rec.state \in {"withdrawn", "answered"} /\ ~mgr.failed
      BY <1>c, <2>5 DEF Closes, WithdrawnAt
    <3>2. wk[w].seq = status.seq => rec.state # "withdrawn"
      BY <1>u, <3>1, ClosedFacts DEF Fenced
    <3> QED BY <2>c, <2>f, <3>1, <3>2 DEF TerminalAnswered
  <2> QED BY <2>1, <2>2, <2>3, <2>4, <2>5 DEF PlanStep
<1>4. Fenced'
  <2> SUFFICES ASSUME NEW w \in Workers, Encoding(w), Mine(w)
               PROVE  /\ wk[w].seq = rec.seq /\ TerminalAnswered(rec.state) => rec.fact
                      /\ ~(/\ wk[w].seq = status'.seq /\ rec.seq = status'.seq
                           /\ rec.state = "withdrawn" /\ ~mgr.failed)
    BY <1>u, <1>m DEF Fenced
  <2>1. wk[w].seq \in Seqs /\ wk[w].seq > 0
    BY <1>b, ClosedFacts, SeqFacts
  <2>2. status'.seq = status.seq \/ status'.seq = 0 \/ status'.seq > rec.seq
    BY <1>c DEF PlanStep, SameDispatch, Keeps, NotesClaim, TakesIn, GivesUp, Issues, MovesOn, Forgets, Closes
  <2> QED BY <1>u, <2>1, <2>2, ClosedFacts DEF Fenced
<1> QED BY <1>p, <1>1, <1>2, <1>3, <1>4 DEF SwapInv

\* The holder that encodes held the lease before, unless it has just claimed.
LEMMA EncodersHold ==
    ASSUME ClosedInv, NEW w \in Workers, WorkerStep(w), NEW v \in Workers, Encoding(v)', Mine(v)'
    PROVE  /\ Mine(v) /\ wk'[v].seq = wk[v].seq
           /\ Encoding(v) \/ (v = w /\ Claims(w))
<1>u. \A u \in Workers \ {w} : wk'[u] = wk[u]
  BY DEF WorkerStep
<1>1. wk'[v].seq = wk[v].seq /\ (Encoding(v) \/ (v = w /\ Claims(w)))
  BY <1>u DEF WorkerStep, Encoding, Delivers, Drops, Advances, Takes, Claims, Renames, Settles
<1>2. CASE lease' = lease
  BY <1>1, <1>2 DEF Mine
<1>3. CASE lease' = NoLease
  <2>1. lease'.by = "nobody" /\ lease'.by = v
    BY <1>3, LeaseFacts DEF Mine
  <2> QED BY <2>1, DispatchAssumption
<1>4. CASE Takes(w)
  <2>1. lease'.by = w /\ lease'.by = v /\ wk'[w].pc = "claim"
    BY <1>4 DEF Takes, Mine
  <2> QED BY <2>1 DEF Encoding
<1> QED BY <1>1, <1>2, <1>3, <1>4
        DEF WorkerStep, Delivers, Drops, Advances, Claims, Renames, Settles

LEMMA WorkerKeepsSwaps == ASSUME ClosedInv, NEW w \in Workers, WorkerStep(w) PROVE SwapInv'
<1>u. /\ UNCHANGED <<status, planned>> /\ mgr'.pc = mgr.pc /\ mgr'.failed = mgr.failed
      /\ \A v \in Workers \ {w} : wk'[v] = wk[v]
  BY DEF WorkerStep, PassKept
<1>e. \A v \in Workers : Encoding(v)' /\ Mine(v)' =>
        /\ Mine(v) /\ wk'[v].seq = wk[v].seq
        /\ Encoding(v) \/ (v = w /\ Claims(w))
  BY EncodersHold
<1>r. /\ rec'.seq = rec.seq
      /\ rec' = rec \/ (rec'.seq = wk[w].seq /\ rec'.state \in {"claimed", "answered"})
  BY ClosedFacts, WorkerWrites
\* The bytes go forward.
<1>d. /\ disk' \in Int /\ disk <= disk' /\ Forward'
      /\ Renames(w) => wk[w].seq = disk' /\ disk < disk'
      /\ ~Renames(w) => disk' = disk
  <2>1. CASE Renames(w)
    <3>1. Ready(w) /\ Busy(w) /\ disk' = wk[w].seq
      BY <2>1 DEF Renames, Ready, Busy
    <3>2. disk = planned[wk[w].seq] /\ wk[w].seq \in Seqs /\ wk[w].seq \in Int /\ wk[w].seq <= status.last
      BY <3>1, ClosedFacts DEF Unmoved
    <3>3. disk < disk'
      BY <3>1, <3>2, ClosedFacts DEF Forward
    <3>4. Forward'
      BY <1>u, <3>1, <3>2, <3>3, ClosedFacts DEF Forward
    <3> QED BY <2>1, <3>1, <3>2, <3>3, <3>4, ClosedFacts
  <2>2. CASE ~Renames(w)
    <3>1. disk' = disk
      BY <2>2 DEF WorkerStep, Delivers, Drops, Advances, Takes, Claims, Settles
    <3>2. Forward'
      BY <1>u, <3>1, ClosedFacts DEF Forward
    <3> QED BY <2>2, <3>1, <3>2, ClosedFacts
  <2> QED BY <2>1, <2>2
<1>2. \A v \in Workers : wk'[v].pc \in Facts => planned[wk'[v].seq] < disk'
  <2>1. wk'[w].pc \in Facts => /\ wk'[w].seq = wk[w].seq /\ Busy(w)
                               /\ disk # planned[wk[w].seq] \/ wk[w].pc \in Facts \/ Renames(w)
    BY DEF WorkerStep, Delivers, Drops, Advances, Takes, Claims, Settles, Renames, Busy, Facts
  <2>2. wk'[w].pc \in Facts => wk[w].seq \in Seqs /\ planned[wk[w].seq] \in Int /\ planned[wk[w].seq] <= disk
    BY <2>1, ClosedFacts DEF Forward
  <2>3. \A v \in Workers : wk[v].pc \in Facts => planned[wk[v].seq] < disk /\ planned[wk[v].seq] \in Int
    BY ClosedFacts DEF Swapped, Busy, Facts
  <2>4. wk'[w].pc \in Facts => planned[wk'[w].seq] < disk'
    BY <1>d, <2>1, <2>2, <2>3, ClosedFacts
  <2> QED BY <1>u, <1>d, <2>3, <2>4, ClosedFacts
<1>3. rec'.fact => planned[rec'.seq] < disk'
  <2>1. CASE rec' = rec
    BY <1>d, <2>1, ClosedFacts DEF Swapped
  <2>2. CASE rec' # rec /\ Claims(w)
    BY <2>2 DEF Claims, Record
  <2>3. CASE rec' # rec /\ Settles(w)
    <3>1. PICK fact \in BOOLEAN :
            (fact <=> wk[w].pc # "answer") /\ rec' = Record(wk[w].seq, "answered", fact)
      BY <2>3 DEF Settles
    <3>2. rec'.fact = fact /\ rec'.seq = wk[w].seq
      BY <3>1 DEF Record
    <3>3. wk[w].pc \in {"fact", "found", "answer"} /\ Busy(w)
      BY <2>3 DEF Settles, Busy
    <3>4. wk[w].pc \in {"fact", "found"} => planned[wk[w].seq] < disk
      BY ClosedFacts DEF Swapped, Facts
    <3>5. rec'.fact => wk[w].pc \in {"fact", "found"}
      BY <3>1, <3>2, <3>3, Zenon
    <3>6. planned[wk[w].seq] \in Int
      BY <3>3, ClosedFacts
    <3> QED BY <1>d, <3>2, <3>4, <3>5, <3>6, ClosedFacts
  <2> QED BY <2>1, <2>2, <2>3 DEF WorkerStep, Delivers, Drops, Advances, Takes, Renames
<1>4. Swapped'
  BY <1>2, <1>3, <1>u DEF Swapped
<1>5. Unmoved'
  <2> SUFFICES ASSUME NEW v \in Workers, Ready(v)'
               PROVE  /\ disk' = planned[wk'[v].seq]
                      /\ \A x \in Workers : wk'[x].pc = "swap" => x = v
    BY <1>u DEF Unmoved
  <2>0. wk'[v].seq = wk[v].seq
    BY <1>u DEF WorkerStep, Ready, Delivers, Drops, Advances, Takes, Claims, Renames, Settles
  <2>1. CASE Renames(w)
    <3>1. wk[w].pc = "swap" /\ wk'[w].pc = "swapped" /\ Ready(w)
      BY <2>1 DEF Renames, Ready
    <3>2. v # w /\ wk'[v] = wk[v]
      BY <1>u, <3>1 DEF Ready
    <3>3. Ready(v)
      <4>1. wk[v].pc = "verified" => Mine(v)
        BY <1>e, <3>2 DEF Ready, Encoding
      <4> QED BY <3>2, <4>1 DEF Ready
    <3> QED BY <3>1, <3>2, <3>3, ClosedFacts DEF Unmoved
  <2>2. CASE ~Renames(w)
    <3>d. disk' = disk
      BY <1>d, <2>2
    <3>1. CASE Ready(v)
      <4>1. disk = planned[wk[v].seq] /\ \A x \in Workers : wk[x].pc = "swap" => x = v
        BY <3>1, ClosedFacts DEF Unmoved
      <4>2. ASSUME NEW x \in Workers, wk'[x].pc = "swap" PROVE x = v
        <5>1. CASE wk[x].pc = "swap"
          BY <4>1, <5>1
        <5>2. CASE wk[x].pc # "swap"
          <6>1. x = w /\ wk[w].pc = "verified" /\ Mine(w)
            BY <1>u, <4>2, <5>2 DEF WorkerStep, Delivers, Drops, Advances, Takes, Claims, Renames, Settles
          <6>2. Ready(w)
            BY <6>1 DEF Ready
          <6>3. wk[v].pc = "swap" => v = w
            BY <6>2, ClosedFacts DEF Unmoved
          <6>4. Mine(v) => v = w
            BY <6>1, MineFacts
          <6> QED BY <3>1, <6>1, <6>3, <6>4 DEF Ready
        <5> QED BY <5>1, <5>2
      <4> QED BY <2>0, <3>d, <4>1, <4>2
    <3>2. CASE ~Ready(v)
      <4>1. /\ v = w /\ wk[w].pc = "encode" /\ wk'[w].pc = "verified"
            /\ disk = planned[wk[w].seq] /\ SwapOutrunsEncode(w)
        <5>1. wk'[v].pc = "verified" => Mine(v)
          BY <1>e DEF Ready, Encoding
        <5>2. v = w
          BY <1>u, <3>2, <5>1 DEF Ready
        <5> QED BY <3>2, <5>1, <5>2
                DEF Ready, WorkerStep, Delivers, Drops, Advances, Takes, Claims, Renames, Settles
      <4>2. Mine(w) /\ Encoding(w) /\ Busy(w)
        BY <1>e, <4>1 DEF Ready, Encoding, Busy
      <4>3. wk[w].seq = status.seq /\ InFlightPhase
        BY <4>1, <4>2, ClosedFacts DEF Current
      <4>4. ASSUME NEW x \in Workers, wk'[x].pc = "swap" PROVE x = v
        <5>1. x # w => wk[x].pc = "swap" /\ Busy(x)
          BY <1>u, <4>4 DEF Busy
        <5>2. x # w => wk[x].seq = wk[w].seq
          BY <4>1, <4>3, <5>1, ClosedFacts DEF SwapOutrunsEncode, StatusInv
        <5> QED BY <4>1, <4>2, <5>1, <5>2, ClosedFacts DEF LeaseInv, Rivals, Past
      <4> QED BY <2>0, <3>d, <4>1, <4>4
    <3> QED BY <3>1, <3>2
  <2> QED BY <2>1, <2>2
<1>6. Current'
  <2> SUFFICES ASSUME NEW v \in Workers, Encoding(v)', Mine(v)'
               PROVE  (wk[v].seq = status.seq /\ InFlightPhase) \/ planned[wk[v].seq] < disk'
    BY <1>u, <1>e DEF Current, InFlightPhase
  <2>1. CASE Encoding(v)
    <3>1. (wk[v].seq = status.seq /\ InFlightPhase) \/ planned[wk[v].seq] < disk
      BY <1>e, <2>1, ClosedFacts DEF Current
    <3>2. planned[wk[v].seq] \in Int
      BY <2>1, ClosedFacts DEF Encoding, Busy
    <3> QED BY <1>d, <3>1, <3>2, ClosedFacts
  <2>2. CASE v = w /\ Claims(w)
    <3>1. /\ rec.seq = wk[w].seq /\ rec.state \in {"requested", "claimed"} /\ Busy(w)
      <4>1. Busy(w) /\ wk[w].seq > 0
        BY <2>2, ClosedFacts, SeqFacts DEF Claims, Busy
      <4>2. rec.state # "deferred"
        BY ClosedFacts DEF RecInv
      <4> QED BY <2>2, <4>1, <4>2, ClosedFacts
              DEF Claims, ClaimWrites, Progresses, NotYet, Superseded
    <3>2. AtWork(rec.seq)
      BY <2>2, <3>1 DEF AtWork, Claims
    <3> QED BY <2>2, <3>1, <3>2, ClosedFacts DEF FactInv
  <2> QED BY <1>e, <2>1, <2>2
<1>7. Fenced'
  <2> SUFFICES ASSUME NEW v \in Workers, Encoding(v)', Mine(v)'
               PROVE  /\ wk[v].seq = rec'.seq /\ TerminalAnswered(rec'.state) => rec'.fact
                      /\ ~(wk[v].seq = status.seq /\ mgr.pc = "wpurge")
                      /\ ~(/\ wk[v].seq = status.seq /\ rec'.seq = status.seq /\ rec'.state = "withdrawn"
                           /\ ~mgr.failed /\ mgr.pc # "wlease")
    BY <1>u, <1>e DEF Fenced
  <2>m. Mine(v)
    BY <1>e
  <2>1. CASE v = w /\ Claims(w)
    <3>1. rec'.state = "claimed" /\ ~Over(wk[w].seq)
      BY <2>1 DEF Claims, ClaimWrites, Progresses, Over, Record
    <3>2. mgr.pc = "wpurge" => Over(status.seq)
      BY ClosedFacts DEF PassInv
    <3> QED BY <2>1, <3>1, <3>2 DEF TerminalAnswered
  <2>2. CASE Encoding(v) /\ rec' = rec
    BY <2>2, <2>m, ClosedFacts DEF Fenced
  <2>3. CASE Encoding(v) /\ rec' # rec /\ Claims(w)
    <3>1. rec'.state = "claimed"
      BY <2>3 DEF Claims, Record
    <3> QED BY <2>3, <2>m, <3>1, ClosedFacts DEF Fenced, TerminalAnswered
  <2>4. CASE Encoding(v) /\ rec' # rec /\ Settles(w)
    <3>1. PICK fact \in BOOLEAN :
            /\ fact <=> wk[w].pc # "answer"
            /\ AnswerWrites(rec, wk[w].seq, fact)
            /\ rec' = Record(wk[w].seq, "answered", fact)
      BY <2>4 DEF Settles
    <3>2. rec'.state = "answered" /\ rec'.fact = fact /\ rec'.seq = wk[w].seq
      BY <3>1 DEF Record
    <3>3. CASE fact
      BY <2>4, <2>m, <3>2, <3>3, ClosedFacts DEF Fenced
    <3>4. CASE ~fact
      <4>1. wk[w].pc = "answer" /\ Busy(w)
        BY <2>4, <3>1, <3>4 DEF Settles, Busy
      <4>2. ~Over(wk[w].seq)
        BY <3>1, <3>4, <4>1, ClosedFacts DEF AnswerWrites, Over, Superseded
      <4>3. Mine(w)
        BY <4>1, <4>2, ClosedFacts DEF LeaseInv, Held, Leased, Holding
      <4>4. v = w
        BY <2>m, <4>3, MineFacts
      <4> QED BY <2>4, <4>1, <4>4 DEF Encoding
    <3> QED BY <3>3, <3>4
  <2> QED BY <1>e, <2>1, <2>2, <2>3, <2>4
          DEF WorkerStep, Delivers, Drops, Advances, Takes, Renames
<1> QED BY <1>d, <1>4, <1>5, <1>6, <1>7 DEF SwapInv


\* Without a crash a withdrawal that stopped short has failed, and is tried again.
LEMMA LoopKeepsSwaps == ASSUME ClosedInv, LoopStep, MaxCrashes = 0 PROVE SwapInv'
<1>u. UNCHANGED <<status, planned, disk, wk>>
  BY DEF LoopStep
<1>m. ASSUME NEW w \in Workers, Mine(w)' PROVE Mine(w) /\ ~Cancels
  <2>1. ~Cancels
    <3>1. CASE Cancels
      <4>1. lease'.by = "cancelled"
        BY <3>1 DEF Cancels
      <4>2. lease'.by = w
        BY <1>m DEF Mine
      <4> QED BY <4>1, <4>2, DispatchAssumption
    <3> QED BY <3>1
  <2>2. lease' = lease
    BY <2>1 DEF LoopStep, Gathers, Requests, Publishes, Withdraws, Purges, Breaks
  <2> QED BY <1>u, <1>m, <2>1, <2>2 DEF Mine
<1>r. rec' = rec \/ (~rec'.fact /\ ~TerminalAnswered(rec'.state))
  BY DEF LoopStep, Gathers, Requests, Publishes, Withdraws, Cancels, Purges, Breaks, Record, TerminalAnswered
<1>1. Forward'
  BY <1>u, ClosedFacts DEF Forward
<1>2. Swapped'
  BY <1>u, <1>r, ClosedFacts DEF Swapped
<1>3. Unmoved'
  <2> SUFFICES ASSUME NEW w \in Workers, Ready(w)'
               PROVE  disk = planned[wk[w].seq] /\ \A v \in Workers : wk[v].pc = "swap" => v = w
    BY <1>u DEF Unmoved
  <2>1. Ready(w)
    BY <1>u, <1>m DEF Ready
  <2> QED BY <2>1, ClosedFacts DEF Unmoved
<1>4. Current'
  <2> SUFFICES ASSUME NEW w \in Workers, Encoding(w)', Mine(w)'
               PROVE  (wk[w].seq = status.seq /\ InFlightPhase) \/ planned[wk[w].seq] < disk
    BY <1>u DEF Current, InFlightPhase
  <2>1. Encoding(w) /\ Mine(w)
    BY <1>u, <1>m DEF Encoding
  <2> QED BY <2>1, ClosedFacts DEF Current
<1>5. Fenced'
  <2> SUFFICES ASSUME NEW w \in Workers, Encoding(w)', Mine(w)'
               PROVE  /\ wk[w].seq = rec'.seq /\ TerminalAnswered(rec'.state) => rec'.fact
                      /\ ~(wk[w].seq = status.seq /\ mgr'.pc = "wpurge")
                      /\ ~(/\ wk[w].seq = status.seq /\ rec'.seq = status.seq /\ rec'.state = "withdrawn"
                           /\ ~mgr'.failed /\ mgr'.pc # "wlease")
    BY <1>u DEF Fenced
  <2>0. Encoding(w) /\ Mine(w) /\ ~Cancels
    BY <1>u, <1>m DEF Encoding
  <2>f. /\ wk[w].seq = rec.seq /\ TerminalAnswered(rec.state) => rec.fact
        /\ ~(wk[w].seq = status.seq /\ mgr.pc = "wpurge")
        /\ ~(/\ wk[w].seq = status.seq /\ rec.seq = status.seq /\ rec.state = "withdrawn"
             /\ ~mgr.failed /\ mgr.pc # "wlease")
    BY <2>0, ClosedFacts DEF Fenced
  <2>1. wk[w].seq = rec'.seq /\ TerminalAnswered(rec'.state) => rec'.fact
    BY <1>r, <2>f
  <2>2. CASE Gathers
    BY <2>1, <2>2, <2>f DEF Gathers
  <2>3. CASE Requests
    BY <2>1, <2>3, <2>f DEF Requests, Record
  <2>4. CASE Publishes
    BY <2>1, <2>4, <2>f DEF Publishes
  <2>5. CASE Withdraws
    BY <2>1, <2>5 DEF Withdraws
  <2>6. CASE Purges
    BY <2>1, <2>6, <2>f DEF Purges
  <2>7. CASE Breaks
    <3>1. mgr'.pc = "idle" /\ rec' = rec
      BY <2>7 DEF Breaks
    <3>2. ~mgr'.failed => ~mgr.failed /\ mgr.pc # "wlease"
      BY <2>7 DEF Breaks
    <3> QED BY <2>1, <2>f, <3>1, <3>2
  <2> QED BY <2>0, <2>2, <2>3, <2>4, <2>5, <2>6, <2>7 DEF LoopStep
<1> QED BY <1>1, <1>2, <1>3, <1>4, <1>5 DEF SwapInv

LEMMA BusKeepsSwaps == ASSUME ClosedInv, BusStep \/ UNCHANGED vars PROVE SwapInv'
<1>u. UNCHANGED <<status, planned, disk, wk, rec, mgr>>
  BY DEF BusStep, vars
<1>m. ASSUME NEW w \in Workers, Mine(w)' PROVE Mine(w)
  <2>1. CASE lease' = NoLease
    <3>1. lease'.by = "nobody" /\ lease'.by = w
      BY <1>m, <2>1, LeaseFacts DEF Mine
    <3> QED BY <3>1, DispatchAssumption
  <2>2. CASE lease' = lease
    BY <1>u, <1>m, <2>2 DEF Mine
  <2> QED BY <2>1, <2>2 DEF BusStep, Buries, Lapses, vars
<1>1. Forward' /\ Swapped'
  BY <1>u, ClosedFacts DEF Forward, Swapped
<1>2. Unmoved'
  <2> SUFFICES ASSUME NEW w \in Workers, Ready(w)'
               PROVE  disk = planned[wk[w].seq] /\ \A v \in Workers : wk[v].pc = "swap" => v = w
    BY <1>u DEF Unmoved
  <2>1. Ready(w)
    BY <1>u, <1>m DEF Ready
  <2> QED BY <2>1, ClosedFacts DEF Unmoved
<1>3. Current' /\ Fenced'
  <2>1. \A w \in Workers : Encoding(w)' /\ Mine(w)' => Encoding(w) /\ Mine(w)
    BY <1>u, <1>m DEF Encoding
  <2>2. Current'
    BY <1>u, <2>1, ClosedFacts DEF Current, InFlightPhase
  <2>3. Fenced'
    BY <1>u, <2>1, ClosedFacts DEF Fenced
  <2> QED BY <2>2, <2>3
<1> QED BY <1>1, <1>2, <1>3 DEF SwapInv

LEMMA ClosedStep == ASSUME ClosedInv, [Next]_vars, MaxCrashes = 0 PROVE ClosedInv'
<1>1. AnyStep /\ OwnedInv'
  BY ClosedFacts, OwnedStep, Steps
<1>2. ASSUME NEW w \in Workers, WorkerStep(w) PROVE SwapInv'
  BY <1>2, WorkerKeepsSwaps
<1> QED BY <1>1, <1>2, PlanKeepsSwaps, LoopKeepsSwaps, BusKeepsSwaps DEF AnyStep, ClosedInv

\* As long as no manager dies, a worker gets past its reassert only for the
\* dispatch that is in flight: finishWithdrawal waits until the cancel marker and
\* the purge have landed, and a worker is given up only without a lease. A manager
\* that dies between the record and the cancel marker forgets that it failed, and
\* the run with crashes shows the swap that then gets through.
THEOREM ClosedSwapNever == ASSUME MaxCrashes = 0 PROVE Spec => ClosedNeverSwaps
<1>1. ASSUME ClosedInv, [Next]_vars, NEW w \in Workers, EntersSwap(w)
      PROVE  wk[w].seq = status.seq /\ wk[w].seq > status.answered
  <2>1. AnyStep
    BY <1>1, ClosedFacts, Steps
  <2>2. WorkerStep(w)
    <3>1. ASSUME NEW v \in Workers, WorkerStep(v) PROVE v = w
      BY <1>1, <3>1 DEF WorkerStep, EntersSwap
    <3> QED BY <1>1, <2>1, <3>1 DEF AnyStep, EntersSwap, PlanStep, LoopStep, BusStep, vars
  <2>3. wk[w].pc = "verified" /\ Mine(w)
    BY <1>1, <2>2 DEF WorkerStep, EntersSwap, Delivers, Drops, Advances, Takes, Claims, Renames, Settles
  <2>4. Ready(w) /\ Encoding(w) /\ Busy(w)
    BY <2>3 DEF Ready, Encoding, Busy
  <2>5. disk = planned[wk[w].seq]
    BY <1>1, <2>4, ClosedFacts DEF Unmoved
  <2>6. wk[w].seq = status.seq /\ InFlightPhase
    BY <1>1, <2>3, <2>4, <2>5, ClosedFacts DEF Current
  <2> QED BY <1>1, <2>6, ClosedFacts, SeqFacts DEF StatusInv
<1>2. ASSUME ClosedInv, [Next]_vars
      PROVE  [\A w \in Workers : EntersSwap(w) => wk[w].seq = status.seq /\ wk[w].seq > status.answered]_vars
  BY <1>1, <1>2
<1>3. ClosedInv /\ [Next]_vars => ClosedInv'
  BY ClosedStep
<1> QED BY <1>2, <1>3, ClosedInit, PTL DEF Spec, ClosedNeverSwaps
=============================================================================
