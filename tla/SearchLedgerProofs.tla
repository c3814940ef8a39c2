------------------------- MODULE SearchLedgerProofs -------------------------
(* Proofs about the dispatch ledger, for any items and any budget: its      *)
(* type, its budget, and whose slot it may not give away.                   *)
EXTENDS SearchLedger, FiniteSetTheorems, TLAPS

\* What an informer, or a pass, holds is an earlier state of the item.
Older(c, d) == c.seq <= d.seq /\ c.answered <= d.answered /\ (Here(d) => Here(c))

\* Seqs are handed out in order.
Ticks(k) ==
    /\ status[k].seq <= clock /\ res[k] <= clock /\ pub[k] <= clock /\ found[k] <= clock
    /\ pass[k].next.seq <= clock

\* A pass before its apply: what it would write follows its view, an answer it
\* owes is of a dispatch it leaves closed, and a seq it issues is above all that
\* the ledger knows of the item.
Applying(k) ==
    LET p == pass[k] IN
    p.pc = "apply" =>
        /\ Older(p.view, status[k]) /\ Older(p.view, p.next) /\ p.next.life = p.view.life
        /\ p.pub = 0 \/ p.pub = p.next.seq
        /\ p.ans # 0 => p.ans < p.next.seq \/ p.ans <= p.next.answered
        /\ p.ans <= p.view.seq
        /\ p.next.seq # p.view.seq => Rebuilt /\ pub[k] < p.next.seq /\ found[k] < p.next.seq

\* ... and after it.
Telling(k) ==
    /\ pass[k].pc \in {"answered", "publish"} => pass[k].pub <= status[k].seq
    /\ pass[k].pc = "answered" /\ InFlight(status[k]) => pass[k].ans < status[k].seq

\* What the audit takes for stale, now or since its read, is not in flight.
Audited(k) ==
    InFlight(status[k]) =>
        /\ k \in aged /\ pub[k] = status[k].seq => InFlight(cache[k])
        /\ led = "drop" => found[k] # status[k].seq

\* Before the rebuild nothing is issued, so the list misses nothing.
Listed(k) ==
    ~Rebuilt /\ InFlight(status[k]) =>
        /\ InFlight(cache[k]) /\ cache[k].seq = status[k].seq
        /\ led = "install" => found[k] = status[k].seq

KeyInv(k) ==
    /\ Older(cache[k], status[k])
    /\ Ticks(k) /\ Applying(k) /\ Telling(k) /\ Audited(k) /\ Listed(k)

\* The inductive invariant.
IInv == TypeOK /\ \A k \in Keys : KeyInv(k)

USE LedgerAssumption DEF Here, InFlight, Rebuilt, Seqs0, Statuses, Passes

LEMMA InitIInv == Init => IInv
  BY DEF Init, IInv, TypeOK, KeyInv, Older, Ticks, Applying, Telling, Audited, Listed,
         New, Idle, Nothing

\* A step that leaves all of an item's state alone keeps its invariant.
LEMMA Frame ==
  ASSUME TypeOK, NEW j \in Keys, KeyInv(j), clock' \in Seqs0, clock <= clock',
         status'[j] = status[j], cache'[j] = cache[j], pass'[j] = pass[j],
         res'[j] = res[j], pub'[j] = pub[j], j \in aged' <=> j \in aged,
         found'[j] = found[j], led' = led
  PROVE  KeyInv(j)'
  <1> USE DEF KeyInv, TypeOK
  <1>1. Older(cache[j], status[j])' BY DEF Older
  <1>2. Ticks(j)' BY DEF Ticks
  <1>3. Applying(j)' BY DEF Applying, Older
  <1>4. Telling(j)' BY DEF Telling
  <1>5. Audited(j)' BY DEF Audited
  <1>6. Listed(j)' BY DEF Listed
  <1> QED BY <1>1, <1>2, <1>3, <1>4, <1>5, <1>6

-----------------------------------------------------------------------------
(* The book.                                                               *)

LEMMA LapseStep == ASSUME IInv, NEW k \in Keys, Lapse(k) PROVE IInv'
  <1>1. TypeOK' BY DEF IInv, TypeOK, Lapse, items
  <1>2. ASSUME NEW j \in Keys PROVE KeyInv(j)'
    BY DEF IInv, TypeOK, Lapse, items, KeyInv, Older, Ticks, Applying, Telling, Audited, Listed
  <1> QED BY <1>1, <1>2 DEF IInv

LEMMA AgeStep == ASSUME IInv, NEW k \in Keys, Age(k) PROVE IInv'
  <1>1. TypeOK' BY DEF IInv, TypeOK, Age, items
  <1>2. ASSUME NEW j \in Keys PROVE KeyInv(j)'
    BY DEF IInv, TypeOK, Age, items, KeyInv, Older, Ticks, Applying, Telling, Audited, Listed
  <1> QED BY <1>1, <1>2 DEF IInv

-----------------------------------------------------------------------------
(* The pass.                                                               *)

\* A pass that is over, and one that goes on to its effects.
LEMMA EndsPass ==
  ASSUME TypeOK, NEW k \in Keys, Ends(k)
  PROVE  /\ pass' \in [Keys -> Passes]
         /\ \A j \in Keys \ {k} : pass'[j] = pass[j]
         /\ pass'[k].pc = "idle" /\ pass'[k].next.seq = 0
  BY DEF TypeOK, Ends, Idle, New

LEMMA EffectsPass ==
  ASSUME TypeOK, NEW k \in Keys, Effects(k)
  PROVE  /\ pass' \in [Keys -> Passes]
         /\ \A j \in Keys \ {k} : pass'[j] = pass[j]
         /\ pass'[k].pc # "apply" /\ pass'[k].next.seq = 0
         /\ pass'[k].pc # "idle" => pass'[k].ans = pass[k].ans /\ pass'[k].pub = pass[k].pub
         /\ pass'[k].pc = "answered" => pass[k].ans # 0
  <1> DEFINE on == [pass[k] EXCEPT !.pc = IF pass[k].ans # 0 THEN "answered" ELSE "publish",
                                   !.view = New, !.next = New]
  <1>1. pass[k] \in Passes /\ New \in Statuses BY DEF TypeOK, New
  <1>2. /\ on \in Passes /\ on.pc # "apply" /\ on.next.seq = 0
        /\ on.ans = pass[k].ans /\ on.pub = pass[k].pub
        /\ on.pc = "answered" => pass[k].ans # 0
    BY <1>1 DEF New
  <1>3. Idle \in Passes /\ Idle.pc = "idle" /\ Idle.next.seq = 0 BY <1>1 DEF Idle, New
  <1>4. pass' = [pass EXCEPT ![k] = IF pass[k].ans = 0 /\ pass[k].pub = 0 THEN Idle ELSE on]
    BY DEF Effects
  <1> HIDE DEF on
  <1> QED BY <1>2, <1>3, <1>4 DEF TypeOK

LEMMA WritesType ==
  ASSUME TypeOK, NEW k \in Keys, Writes(k)
  PROVE  status' \in [Keys -> Statuses] /\ redo' \in SUBSET Keys
  BY DEF TypeOK, Writes

\* The written status follows the one before it.
LEMMA WritesOn ==
  ASSUME IInv, NEW k \in Keys, pass[k].pc = "apply", Writes(k)
  PROVE  /\ \A j \in Keys \ {k} : status'[j] = status[j]
         /\ status'[k] = pass[k].next /\ Older(status[k], status'[k])
         /\ status'[k].life = status[k].life
         /\ InFlight(status'[k]) => \/ InFlight(status[k]) /\ status'[k].seq = status[k].seq
                                    \/ /\ Rebuilt /\ pub[k] < status'[k].seq
                                       /\ found[k] < status'[k].seq
  BY DEF IInv, TypeOK, Writes, KeyInv, Applying, Older

LEMMA ApplyStep == ASSUME IInv, NEW k \in Keys, Apply(k) PROVE IInv'
  <1> USE DEF Apply, book
  <1>1. CASE Writes(k) /\ Effects(k)
    <2>1. TypeOK' BY <1>1, EffectsPass, WritesType DEF IInv, TypeOK
    <2>2. ASSUME NEW j \in Keys \ {k} PROVE KeyInv(j)'
      BY <1>1, EffectsPass, WritesOn DEF IInv, KeyInv, Older, Ticks, Applying, Telling, Audited, Listed
    <2>3. KeyInv(k)'
      BY <1>1, <2>1, EffectsPass, WritesOn
      DEF IInv, TypeOK, KeyInv, Older, Ticks, Applying, Telling, Audited, Listed
    <2> QED BY <2>1, <2>2, <2>3 DEF IInv
  <1>2. CASE Ends(k) /\ UNCHANGED <<status, redo>>
    <2>1. TypeOK' BY <1>2, EndsPass DEF IInv, TypeOK
    <2>2. ASSUME NEW j \in Keys \ {k} PROVE KeyInv(j)'
      BY <1>2, EndsPass, Frame DEF IInv, TypeOK
    <2>3. KeyInv(k)'
      BY <1>2, EndsPass DEF IInv, TypeOK, KeyInv, Older, Ticks, Applying, Telling, Audited, Listed
    <2> QED BY <2>1, <2>2, <2>3 DEF IInv
  <1>3. CASE pass[k].next = pass[k].view /\ Effects(k) /\ UNCHANGED <<status, redo>>
    <2>1. TypeOK' BY <1>3, EffectsPass DEF IInv, TypeOK
    <2>2. ASSUME NEW j \in Keys \ {k} PROVE KeyInv(j)'
      BY <1>3, EffectsPass, Frame DEF IInv, TypeOK
    <2>3. KeyInv(k)'
      BY <1>3, EffectsPass DEF IInv, TypeOK, KeyInv, Older, Ticks, Applying, Telling, Audited, Listed
    <2> QED BY <2>1, <2>2, <2>3 DEF IInv
  <1> QED BY <1>1, <1>2, <1>3

LEMMA ApplyCutStep == ASSUME IInv, NEW k \in Keys, ApplyCut(k) PROVE IInv'
  <1> USE DEF ApplyCut, Fault, book
  <1>1. CASE Writes(k)
    <2>1. TypeOK' BY <1>1, EndsPass, WritesType DEF IInv, TypeOK
    <2>2. ASSUME NEW j \in Keys \ {k} PROVE KeyInv(j)'
      BY <1>1, EndsPass, WritesOn, Frame DEF IInv, TypeOK
    <2>3. KeyInv(k)'
      BY <1>1, <2>1, EndsPass, WritesOn
      DEF IInv, TypeOK, KeyInv, Older, Ticks, Applying, Telling, Audited, Listed
    <2> QED BY <2>1, <2>2, <2>3 DEF IInv
  <1>2. CASE UNCHANGED <<status, redo>>
    <2>1. TypeOK' BY <1>2, EndsPass DEF IInv, TypeOK
    <2>2. ASSUME NEW j \in Keys \ {k} PROVE KeyInv(j)'
      BY <1>2, EndsPass, Frame DEF IInv, TypeOK
    <2>3. KeyInv(k)'
      BY <1>2, EndsPass DEF IInv, TypeOK, KeyInv, Older, Ticks, Applying, Telling, Audited, Listed
    <2> QED BY <2>1, <2>2, <2>3 DEF IInv
  <1> QED BY <1>1, <1>2

\* A pass that begins: what it keeps of its plan.
LEMMA BeginsPass ==
  ASSUME TypeOK, NEW k \in Keys, NEW next \in Statuses, NEW ans \in Seqs0, NEW publish \in Seqs0,
         Begins(k, next, ans, publish)
  PROVE  /\ pass' \in [Keys -> Passes]
         /\ \A j \in Keys \ {k} : pass'[j] = pass[j]
         /\ pass'[k] = [pc |-> "apply", view |-> cache[k], next |-> next, ans |-> ans, pub |-> publish]
  BY DEF TypeOK, Begins

LEMMA ClosedFacts ==
  ASSUME IInv, NEW k \in Keys
  PROVE  /\ Closed(k) \in Statuses /\ Owed(k) \in Seqs0
         /\ Older(cache[k], Closed(k)) /\ Closed(k).life = cache[k].life
         /\ Closed(k).seq = cache[k].seq /\ cache[k].seq <= clock
         /\ Owed(k) <= cache[k].seq
         /\ Here(cache[k]) /\ ~InFlight(Closed(k)) => Closed(k).seq <= Closed(k).answered
         /\ Closes(k) /\ InFlight(cache[k]) => Closed(k).answered = cache[k].seq
  BY DEF IInv, TypeOK, KeyInv, Older, Ticks, Closed, Owed, Closes

\* A plan that is faithful to its view, whatever it does to the key's reservation.
LEMMA BeginStep ==
  ASSUME IInv, NEW k \in Keys, NEW next \in Statuses, NEW ans \in Seqs0, NEW publish \in Seqs0,
         Begins(k, next, ans, publish),
         UNCHANGED <<status, cache, over, redo, pub, aged, led, found, faults, reigns>>,
         clock' \in Seqs0, clock <= clock', first' \in SUBSET Keys, res' \in [Keys -> Seqs0],
         \A j \in Keys \ {k} : res'[j] = res[j],
         res'[k] <= clock', res'[k] # 0 => res'[k] > pub[k],
         Older(cache[k], next), next.life = cache[k].life, next.seq <= clock',
         publish = 0 \/ publish = next.seq, ans <= cache[k].seq,
         ans # 0 => ans < next.seq \/ ans <= next.answered,
         next.seq # cache[k].seq => Rebuilt /\ pub[k] < next.seq /\ found[k] < next.seq
  PROVE  IInv'
  <1>1. /\ pass' \in [Keys -> Passes]
        /\ \A j \in Keys \ {k} : pass'[j] = pass[j]
        /\ pass'[k] = [pc |-> "apply", view |-> cache[k], next |-> next, ans |-> ans, pub |-> publish]
    BY BeginsPass DEF IInv
  <1>2. /\ pass'[k].pc = "apply" /\ pass'[k].view = cache[k] /\ pass'[k].next = next
        /\ pass'[k].ans = ans /\ pass'[k].pub = publish
    BY <1>1
  <1>3. TypeOK' BY <1>1 DEF IInv, TypeOK
  <1>4. ASSUME NEW j \in Keys \ {k} PROVE KeyInv(j)'
    BY <1>1, Frame DEF IInv
  <1>5. KeyInv(k)'
    <2> USE <1>2 DEF IInv, TypeOK, KeyInv
    <2>1. Older(cache[k], status[k])' BY DEF Older
    <2>2. Ticks(k)' BY DEF Ticks
    <2>3. Applying(k)' BY DEF Applying, Older
    <2>4. Telling(k)' BY DEF Telling
    <2>5. Audited(k)' BY DEF Audited
    <2>6. Listed(k)' BY DEF Listed
    <2> QED BY <2>1, <2>2, <2>3, <2>4, <2>5, <2>6
  <1> QED BY <1>3, <1>4, <1>5 DEF IInv

\* A plan that leaves the ledger and the clock alone.
LEMMA QuietStep ==
  ASSUME IInv, NEW k \in Keys, NEW next \in Statuses, NEW ans \in Seqs0, NEW publish \in Seqs0,
         Begins(k, next, ans, publish),
         UNCHANGED <<items, res, pub, aged, led, found, faults, reigns>>, first' \in SUBSET Keys,
         Older(cache[k], next), next.life = cache[k].life, next.seq = cache[k].seq,
         publish = 0 \/ publish = next.seq, ans <= cache[k].seq,
         ans # 0 => ans < next.seq \/ ans <= next.answered
  PROVE  IInv'
  <1>1. UNCHANGED <<status, cache, clock, over, redo, pub, aged, led, found, faults, reigns, res>>
    BY DEF items
  <1>2. /\ clock' \in Seqs0 /\ clock <= clock' /\ res' \in [Keys -> Seqs0]
        /\ \A j \in Keys \ {k} : res'[j] = res[j]
        /\ res'[k] <= clock' /\ (res'[k] # 0 => res'[k] > pub[k])
        /\ next.seq <= clock'
    BY <1>1, ClosedFacts DEF IInv, TypeOK, KeyInv, Ticks
  <1> HIDE DEF Seqs0, Statuses
  <1> QED BY <1>1, <1>2, BeginStep

LEMMA PlanInFlightStep == ASSUME IInv, NEW k \in Keys, PlanInFlight(k) PROVE IInv'
  <1>1. PICK s \in {0, cache[k].seq} : Begins(k, cache[k], 0, s) BY DEF PlanInFlight
  <1>2. cache[k] \in Statuses /\ s \in Seqs0 /\ 0 \in Seqs0 BY DEF IInv, TypeOK
  <1>3. Older(cache[k], cache[k]) /\ 0 <= cache[k].seq BY <1>2 DEF Older
  <1>4. UNCHANGED <<items, res, pub, aged, led, found, faults, reigns>> /\ first' \in SUBSET Keys
    BY DEF PlanInFlight, book, IInv, TypeOK
  <1> HIDE DEF Seqs0, Statuses
  <1> QED BY <1>1, <1>2, <1>3, <1>4, QuietStep

\* An answer owed is of a dispatch the plan leaves closed.
LEMMA OwedClosed ==
  ASSUME IInv, NEW k \in Keys, Here(cache[k]), ~InFlight(Closed(k)), Owed(k) # 0
  PROVE  Owed(k) <= Closed(k).answered
  BY DEF IInv, TypeOK, Owed, Closed, Closes

LEMMA ClosingStep ==
  ASSUME IInv, NEW k \in Keys, Here(cache[k]), ~InFlight(Closed(k)),
         Begins(k, Closed(k), Owed(k), 0), first' \in SUBSET Keys,
         UNCHANGED <<items, res, pub, aged, led, found, faults, reigns>>
  PROVE  IInv'
  <1>1. /\ Closed(k) \in Statuses /\ Owed(k) \in Seqs0 /\ 0 \in Seqs0
        /\ Older(cache[k], Closed(k)) /\ Closed(k).life = cache[k].life
        /\ Closed(k).seq = cache[k].seq /\ Owed(k) <= cache[k].seq
    BY ClosedFacts DEF IInv, TypeOK
  <1>2. Owed(k) # 0 => Owed(k) <= Closed(k).answered BY OwedClosed
  <1> HIDE DEF Seqs0, Statuses
  <1> QED BY <1>1, <1>2, QuietStep

LEMMA PlanNothingStep == ASSUME IInv, NEW k \in Keys, PlanNothing(k) PROVE IInv'
  <1>1. first' \in SUBSET Keys BY DEF PlanNothing, book, IInv, TypeOK
  <1> QED BY <1>1, ClosingStep DEF PlanNothing, book

LEMMA PlanSearchStep == ASSUME IInv, NEW k \in Keys, PlanSearch(k) PROVE IInv'
  <1> DEFINE n == clock + 1
             next == [Closed(k) EXCEPT !.seq = clock + 1]
             ans == IF Closes(k) THEN cache[k].seq ELSE 0
  <1>1. CASE Reserve(k, n) /\ clock' = n /\ Begins(k, next, ans, n)
    <2>1. /\ n \in Seqs0 /\ n > clock /\ next \in Statuses /\ ans \in Seqs0 /\ ans <= cache[k].seq
          /\ next.seq = n /\ next.answered = Closed(k).answered /\ next.life = cache[k].life
          /\ cache[k].seq <= clock /\ cache[k] \in Statuses
      BY ClosedFacts DEF IInv, TypeOK, PlanSearch
    <2>2. UNCHANGED <<status, cache, over, redo, pub, aged, led, found, faults, reigns>>
      BY <1>1 DEF PlanSearch, Reserve
    <2>3. Rebuilt BY <1>1 DEF Reserve, Room
    <2> HIDE DEF n, next, ans
    <2>4. /\ first' \in SUBSET Keys /\ res' \in [Keys -> Seqs0]
          /\ \A j \in Keys \ {k} : res'[j] = res[j]
          /\ res'[k] = n
      BY <1>1, <2>1 DEF Reserve, IInv, TypeOK
    <2>5. pub[k] <= clock /\ found[k] <= clock /\ clock \in Nat /\ pub[k] \in Nat /\ found[k] \in Nat
      BY DEF IInv, KeyInv, Ticks, TypeOK
    <2>6. Older(cache[k], Closed(k)) BY ClosedFacts
    <2>7. Older(cache[k], next) BY <2>1, <2>5, <2>6 DEF Older
    <2>8. /\ clock' \in Seqs0 /\ clock <= clock' /\ res'[k] <= clock' /\ (res'[k] # 0 => res'[k] > pub[k])
          /\ next.seq <= clock' /\ (ans # 0 => ans < next.seq)
          /\ pub[k] < next.seq /\ found[k] < next.seq
      BY <1>1, <2>1, <2>4, <2>5
    <2> HIDE DEF Seqs0, Statuses, Rebuilt
    <2> QED BY <1>1, <2>1, <2>2, <2>3, <2>4, <2>7, <2>8, BeginStep
  <1>2. CASE Refuse(k) /\ Begins(k, Closed(k), Owed(k), 0) /\ UNCHANGED clock
    <2>1. first' \in SUBSET Keys BY <1>2 DEF Refuse, IInv, TypeOK
    <2>2. UNCHANGED <<items, res, pub, aged, led, found, faults, reigns>>
      BY <1>2 DEF PlanSearch, Refuse, items
    <2> QED BY <1>2, <2>1, <2>2, ClosingStep DEF PlanSearch
  <1> QED BY <1>1, <1>2 DEF PlanSearch

\* Free: the key's slots, and nobody else's.
LEMMA FreeBook ==
  ASSUME TypeOK, NEW k \in Keys, Free(k)
  PROVE  /\ res' \in [Keys -> Seqs0] /\ pub' \in [Keys -> Seqs0] /\ aged' \in SUBSET Keys
         /\ res'[k] = 0 /\ pub'[k] = 0 /\ k \notin aged'
         /\ \A j \in Keys \ {k} : res'[j] = res[j] /\ pub'[j] = pub[j] /\ (j \in aged' <=> j \in aged)
  BY DEF TypeOK, Free

LEMMA PassGoneStep == ASSUME IInv, NEW k \in Keys, PassGone(k) PROVE IInv'
  <1>1. /\ UNCHANGED <<status, cache, clock, over, redo, pass, led, found, faults, reigns>>
        /\ Free(k) /\ first' = first \ {k} /\ ~Here(cache[k])
    BY DEF PassGone, items
  <1>2. /\ res' \in [Keys -> Seqs0] /\ pub' \in [Keys -> Seqs0] /\ aged' \in SUBSET Keys
        /\ res'[k] = 0 /\ pub'[k] = 0 /\ k \notin aged'
        /\ \A j \in Keys \ {k} : res'[j] = res[j] /\ pub'[j] = pub[j] /\ (j \in aged' <=> j \in aged)
    BY <1>1, FreeBook DEF IInv
  <1>3. TypeOK' BY <1>1, <1>2 DEF IInv, TypeOK
  <1>4. ASSUME NEW j \in Keys \ {k} PROVE KeyInv(j)'
    <2>1. clock' \in Seqs0 /\ clock <= clock' BY <1>1 DEF IInv, TypeOK
    <2> QED BY <1>1, <1>2, <2>1, Frame DEF IInv
  <1>5. KeyInv(k)'
    BY <1>1, <1>2 DEF IInv, TypeOK, KeyInv, Older, Ticks, Applying, Telling, Audited, Listed
  <1> QED BY <1>3, <1>4, <1>5 DEF IInv

\* What a pass tells the ledger leaves the other keys alone, and an answer does
\* not touch the slot of a dispatch in flight.
LEMMA AnsweredBook ==
  ASSUME TypeOK, NEW k \in Keys, NEW s \in Seqs0, Answered(k, s)
  PROVE  /\ res' \in [Keys -> Seqs0] /\ pub' \in [Keys -> Seqs0] /\ aged' \in SUBSET Keys
         /\ first' = first
         /\ \/ res'[k] = 0 /\ pub'[k] = 0 /\ k \notin aged' /\ SlotSeq(k) <= s
            \/ res'[k] = res[k] /\ pub'[k] = pub[k] /\ (k \in aged' <=> k \in aged)
         /\ \A j \in Keys \ {k} : res'[j] = res[j] /\ pub'[j] = pub[j] /\ (j \in aged' <=> j \in aged)
  <1>1. CASE Holds(k, s) BY <1>1, FreeBook DEF Answered, Holds
  <1>2. CASE ~Holds(k, s) BY <1>2 DEF Answered, TypeOK
  <1> QED BY <1>1, <1>2

LEMMA PublishedBook ==
  ASSUME TypeOK, NEW k \in Keys, NEW s \in Seqs0, Published(k, s)
  PROVE  /\ res' \in [Keys -> Seqs0] /\ pub' \in [Keys -> Seqs0] /\ aged' \in SUBSET Keys
         /\ first' = first
         /\ \/ res'[k] = 0 /\ pub'[k] = s /\ k \notin aged' /\ SlotSeq(k) <= s
            \/ res'[k] = res[k] /\ pub'[k] = pub[k] /\ (k \in aged' <=> k \in aged) /\ SlotSeq(k) > s
         /\ \A j \in Keys \ {k} : res'[j] = res[j] /\ pub'[j] = pub[j] /\ (j \in aged' <=> j \in aged)
  <1>1. SlotSeq(k) \in Nat /\ s \in Nat BY DEF TypeOK, SlotSeq
  <1>2. CASE SlotSeq(k) > s BY <1>1, <1>2 DEF TypeOK, Published
  <1>3. CASE SlotSeq(k) <= s
    <2>1. /\ res' = [res EXCEPT ![k] = 0] /\ pub' = [pub EXCEPT ![k] = s]
          /\ aged' = aged \ {k} /\ first' = first
      BY <1>1, <1>3 DEF Published
    <2> QED BY <1>1, <1>3, <2>1 DEF TypeOK
  <1> QED BY <1>1, <1>2, <1>3

LEMMA TellAnsweredStep == ASSUME IInv, NEW k \in Keys, TellAnswered(k) PROVE IInv'
  <1>1. /\ UNCHANGED <<status, cache, clock, over, redo, led, found, faults, reigns>>
        /\ pass[k].pc = "answered" /\ Answered(k, pass[k].ans) /\ pass[k].ans \in Seqs0
        /\ pass[k] \in Passes
    BY DEF TellAnswered, items, IInv, TypeOK
  <1>2. /\ res' \in [Keys -> Seqs0] /\ pub' \in [Keys -> Seqs0] /\ aged' \in SUBSET Keys
        /\ first' = first
        /\ \/ res'[k] = 0 /\ pub'[k] = 0 /\ k \notin aged'
           \/ res'[k] = res[k] /\ pub'[k] = pub[k] /\ (k \in aged' <=> k \in aged)
        /\ \A j \in Keys \ {k} : res'[j] = res[j] /\ pub'[j] = pub[j] /\ (j \in aged' <=> j \in aged)
    BY <1>1, AnsweredBook DEF IInv
  <1>3. /\ pass' \in [Keys -> Passes]
        /\ \A j \in Keys \ {k} : pass'[j] = pass[j]
        /\ pass'[k].pc \in {"idle", "publish"}
        /\ pass'[k].pc = "publish" => pass'[k].pub = pass[k].pub
        /\ pass'[k].next.seq = 0 \/ pass'[k].next = pass[k].next
    <2>1. Idle \in Passes /\ Idle.pc = "idle" /\ Idle.next.seq = 0 BY DEF Idle, New
    <2> DEFINE on == [pass[k] EXCEPT !.pc = "publish"]
    <2>2. on \in Passes /\ on.pc = "publish" /\ on.pub = pass[k].pub /\ on.next = pass[k].next BY <1>1
    <2>3. pass' = [pass EXCEPT ![k] = IF pass[k].pub = 0 THEN Idle ELSE on] BY DEF TellAnswered
    <2> HIDE DEF on
    <2> QED BY <2>1, <2>2, <2>3 DEF IInv, TypeOK
  <1>4. TypeOK'
    <2>1. ASSUME NEW j \in Keys
          PROVE  (res'[j] # 0 => res'[j] > pub'[j]) /\ (j \in aged' => pub'[j] # 0)
      BY <1>2 DEF IInv, TypeOK
    <2> HIDE DEF Passes, Statuses, Seqs0
    <2> QED BY <1>1, <1>2, <1>3, <2>1 DEF IInv, TypeOK
  <1>5. ASSUME NEW j \in Keys \ {k} PROVE KeyInv(j)'
    <2>1. clock' \in Seqs0 /\ clock <= clock' BY <1>1 DEF IInv, TypeOK
    <2> QED BY <1>1, <1>2, <1>3, <2>1, Frame DEF IInv
  <1>6. KeyInv(k)'
    BY <1>1, <1>2, <1>3 DEF IInv, TypeOK, KeyInv, Older, Ticks, Applying, Telling, Audited, Listed
  <1> QED BY <1>4, <1>5, <1>6 DEF IInv

LEMMA PublishTaskStep == ASSUME IInv, NEW k \in Keys, PublishTask(k) PROVE IInv'
  <1>1. /\ UNCHANGED <<status, cache, clock, over, redo, led, found, faults, reigns>>
        /\ pass[k].pc = "publish" /\ Published(k, pass[k].pub) /\ pass[k].pub \in Seqs0 /\ Ends(k)
    BY DEF PublishTask, items, IInv, TypeOK
  <1>2. /\ res' \in [Keys -> Seqs0] /\ pub' \in [Keys -> Seqs0] /\ aged' \in SUBSET Keys
        /\ first' = first
        /\ \/ res'[k] = 0 /\ pub'[k] = pass[k].pub /\ k \notin aged'
           \/ res'[k] = res[k] /\ pub'[k] = pub[k] /\ (k \in aged' <=> k \in aged)
        /\ \A j \in Keys \ {k} : res'[j] = res[j] /\ pub'[j] = pub[j] /\ (j \in aged' <=> j \in aged)
    BY <1>1, PublishedBook DEF IInv
  <1>3. /\ pass' \in [Keys -> Passes]
        /\ \A j \in Keys \ {k} : pass'[j] = pass[j]
        /\ pass'[k].pc = "idle" /\ pass'[k].next.seq = 0
    BY <1>1, EndsPass DEF IInv
  <1>4. TypeOK'
    <2>1. ASSUME NEW j \in Keys
          PROVE  (res'[j] # 0 => res'[j] > pub'[j]) /\ (j \in aged' => pub'[j] # 0)
      BY <1>2 DEF IInv, TypeOK
    <2> HIDE DEF Passes, Statuses, Seqs0
    <2> QED BY <1>1, <1>2, <1>3, <2>1 DEF IInv, TypeOK
  <1>5. ASSUME NEW j \in Keys \ {k} PROVE KeyInv(j)'
    <2>1. clock' \in Seqs0 /\ clock <= clock' BY <1>1 DEF IInv, TypeOK
    <2> QED BY <1>1, <1>2, <1>3, <2>1, Frame DEF IInv
  <1>6. KeyInv(k)'
    BY <1>1, <1>2, <1>3 DEF IInv, TypeOK, KeyInv, Older, Ticks, Applying, Telling, Audited, Listed
  <1> QED BY <1>4, <1>5, <1>6 DEF IInv

LEMMA PublishFailsStep == ASSUME IInv, NEW k \in Keys, PublishFails(k) PROVE IInv'
  <1>1. /\ UNCHANGED <<status, cache, clock, over, redo, res, pub, aged, first, led, found, reigns>>
        /\ faults' \in 0 .. MaxFaults /\ Ends(k)
    BY DEF PublishFails, Fault, items, book, IInv, TypeOK
  <1>2. /\ pass' \in [Keys -> Passes]
        /\ \A j \in Keys \ {k} : pass'[j] = pass[j]
        /\ pass'[k].pc = "idle" /\ pass'[k].next.seq = 0
    BY <1>1, EndsPass DEF IInv
  <1>3. TypeOK' BY <1>1, <1>2 DEF IInv, TypeOK
  <1>4. ASSUME NEW j \in Keys \ {k} PROVE KeyInv(j)'
    BY <1>1, <1>2, Frame DEF IInv, TypeOK
  <1>5. KeyInv(k)'
    BY <1>1, <1>2 DEF IInv, TypeOK, KeyInv, Older, Ticks, Applying, Telling, Audited, Listed
  <1> QED BY <1>3, <1>4, <1>5 DEF IInv

-----------------------------------------------------------------------------
(* The ledger's goroutine, and the rest of the world.                      *)

LEMMA RebuildListStep == ASSUME IInv, RebuildList PROVE IInv'
  <1> USE DEF RebuildList, items, book
  <1>1. TypeOK' BY DEF IInv, TypeOK
  <1>2. ASSUME NEW j \in Keys PROVE KeyInv(j)'
    BY DEF IInv, TypeOK, KeyInv, Older, Ticks, Applying, Telling, Audited, Listed
  <1> QED BY <1>1, <1>2 DEF IInv

LEMMA RebuildInstallStep == ASSUME IInv, RebuildInstall PROVE IInv'
  <1> USE DEF RebuildInstall, items, Nothing
  <1>1. TypeOK' BY DEF IInv, TypeOK
  <1>2. ASSUME NEW j \in Keys PROVE KeyInv(j)'
    BY DEF IInv, TypeOK, KeyInv, Older, Ticks, Applying, Telling, Audited, Listed
  <1> QED BY <1>1, <1>2 DEF IInv

LEMMA AuditReadStep == ASSUME IInv, AuditRead PROVE IInv'
  <1> USE DEF AuditRead, items, book, Stale
  <1>1. TypeOK' BY DEF IInv, TypeOK
  <1>2. ASSUME NEW j \in Keys PROVE KeyInv(j)'
    BY DEF IInv, TypeOK, KeyInv, Older, Ticks, Applying, Telling, Audited, Listed
  <1> QED BY <1>1, <1>2 DEF IInv

LEMMA AuditDropStep == ASSUME IInv, AuditDrop PROVE IInv'
  <1> USE DEF AuditDrop, items, Nothing
  <1>1. TypeOK' BY DEF IInv, TypeOK
  <1>2. ASSUME NEW j \in Keys PROVE KeyInv(j)'
    BY DEF IInv, TypeOK, KeyInv, Older, Ticks, Applying, Telling, Audited, Listed
  <1> QED BY <1>1, <1>2 DEF IInv

LEMMA LeaderChangeStep == ASSUME IInv, LeaderChange PROVE IInv'
  <1> USE DEF LeaderChange, Nothing, Idle, New
  <1>1. TypeOK' BY DEF IInv, TypeOK
  <1>2. ASSUME NEW j \in Keys PROVE KeyInv(j)'
    BY DEF IInv, TypeOK, KeyInv, Older, Ticks, Applying, Telling, Audited, Listed
  <1> QED BY <1>1, <1>2 DEF IInv

LEMMA LapseFirstStep == ASSUME IInv, NEW k \in Keys, LapseFirst(k) PROVE IInv'
  <1> USE DEF LapseFirst, items
  <1>1. TypeOK' BY DEF IInv, TypeOK
  <1>2. ASSUME NEW j \in Keys PROVE KeyInv(j)' BY Frame DEF IInv, TypeOK
  <1> QED BY <1>1, <1>2 DEF IInv

LEMMA InformStep == ASSUME IInv, NEW k \in Keys, Inform(k) PROVE IInv'
  <1> USE DEF Inform, book
  <1>1. TypeOK' BY DEF IInv, TypeOK
  <1>2. ASSUME NEW j \in Keys PROVE KeyInv(j)'
    BY DEF IInv, TypeOK, KeyInv, Older, Ticks, Applying, Telling, Audited, Listed
  <1> QED BY <1>1, <1>2 DEF IInv

LEMMA OverStep == ASSUME IInv, NEW k \in Keys, Over(k) PROVE IInv'
  <1> USE DEF Over, book
  <1>1. TypeOK' BY DEF IInv, TypeOK
  <1>2. ASSUME NEW j \in Keys PROVE KeyInv(j)' BY Frame DEF IInv, TypeOK
  <1> QED BY <1>1, <1>2 DEF IInv

LEMMA RedownloadStep == ASSUME IInv, NEW k \in Keys, Redownload(k) PROVE IInv'
  <1> USE DEF Redownload, book
  <1>1. TypeOK' BY DEF IInv, TypeOK
  <1>2. ASSUME NEW j \in Keys PROVE KeyInv(j)' BY Frame DEF IInv, TypeOK
  <1> QED BY <1>1, <1>2 DEF IInv

LEMMA DeleteStep == ASSUME IInv, NEW k \in Keys, Delete(k) PROVE IInv'
  <1> DEFINE gone == [status[k] EXCEPT !.life = "gone"]
  <1>1. status[k] \in Statuses BY DEF IInv, TypeOK
  <1>2. gone \in Statuses /\ ~Here(gone) /\ gone.seq = status[k].seq /\ gone.answered = status[k].answered
    BY <1>1
  <1>3. /\ status' = [status EXCEPT ![k] = gone] /\ redo' = redo \ {k}
        /\ UNCHANGED <<cache, clock, over, pass, res, pub, aged, first, led, found, faults, reigns>>
    BY DEF Delete, book
  <1> HIDE DEF gone
  <1>4. /\ status' \in [Keys -> Statuses] /\ status'[k] = gone
        /\ \A j \in Keys \ {k} : status'[j] = status[j]
    <2> HIDE DEF Statuses
    <2> QED BY <1>2, <1>3 DEF IInv, TypeOK
  <1>5. TypeOK'
    <2> HIDE DEF Statuses, Passes, Seqs0
    <2> QED BY <1>3, <1>4 DEF IInv, TypeOK
  <1>6. ASSUME NEW j \in Keys \ {k} PROVE KeyInv(j)' BY <1>3, <1>4, Frame DEF IInv, TypeOK
  <1>7. KeyInv(k)'
    BY <1>2, <1>3, <1>4 DEF IInv, TypeOK, KeyInv, Older, Ticks, Applying, Telling, Audited, Listed
  <1> QED BY <1>5, <1>6, <1>7 DEF IInv

LEMMA StutterStep == ASSUME IInv, UNCHANGED vars PROVE IInv'
  <1> USE DEF vars, items, book
  <1>1. TypeOK' BY DEF IInv, TypeOK
  <1>2. ASSUME NEW j \in Keys PROVE KeyInv(j)' BY Frame DEF IInv, TypeOK
  <1> QED BY <1>1, <1>2 DEF IInv

LEMMA NextIInv == ASSUME IInv, [Next]_vars PROVE IInv'
  <1>1. ASSUME NEW k \in Keys, Plan(k) PROVE IInv'
    BY <1>1, PlanInFlightStep, PlanNothingStep, PlanSearchStep, PassGoneStep DEF Plan
  <1>2. ASSUME NEW k \in Keys, Goes(k) PROVE IInv'
    BY <1>2, ApplyStep, TellAnsweredStep, PublishTaskStep DEF Goes
  <1>3. CASE Keeps
    BY <1>3, RebuildListStep, RebuildInstallStep, AuditReadStep, AuditDropStep DEF Keeps
  <1> QED
    BY <1>1, <1>2, <1>3, ApplyCutStep, PublishFailsStep, LapseStep, LapseFirstStep, AgeStep,
       InformStep, OverStep, RedownloadStep, DeleteStep, LeaderChangeStep, StutterStep DEF Next

\* The types hold, and a reservation stays newer than the dispatch it supersedes
\* (ledger.go's book), for any set of items and any budget.
THEOREM TypeInvariant == Spec => []TypeOK
  <1>1. IInv => TypeOK BY DEF IInv
  <1> QED BY InitIInv, NextIInv, <1>1, PTL DEF Spec

-----------------------------------------------------------------------------
(* The published slot of a dispatch in flight.                             *)

\* What SlotOutlivesDispatch asks of a step, for one item.
Kept(k) ==
    /\ InFlight(status[k]) /\ InFlight(status'[k]) /\ status'[k].seq = status[k].seq
    /\ Rebuilt' /\ (Rebuilt => Confirmed(k))
    => Confirmed(k)'

\* The book's calls: none of them takes the slot of another dispatch.
LEMMA TellKept == ASSUME IInv, NEW k \in Keys, TellAnswered(k), NEW j \in Keys PROVE Kept(j)
  <1>1. /\ UNCHANGED <<status, led>> /\ pass[k].pc = "answered"
        /\ Answered(k, pass[k].ans) /\ pass[k].ans \in Seqs0
    BY DEF TellAnswered, items, IInv, TypeOK
  <1>2. /\ \/ pub'[k] = 0 /\ SlotSeq(k) <= pass[k].ans
           \/ pub'[k] = pub[k]
        /\ \A i \in Keys \ {k} : pub'[i] = pub[i]
    BY <1>1, AnsweredBook DEF IInv
  <1>3. InFlight(status[k]) => pass[k].ans < status[k].seq BY <1>1 DEF IInv, KeyInv, Telling
  <1> QED BY <1>1, <1>2, <1>3 DEF Kept, Confirmed, SlotSeq, IInv, TypeOK

LEMMA PublishKept == ASSUME IInv, NEW k \in Keys, PublishTask(k), NEW j \in Keys PROVE Kept(j)
  <1>1. /\ UNCHANGED <<status, led>> /\ pass[k].pc = "publish"
        /\ Published(k, pass[k].pub) /\ pass[k].pub \in Seqs0
    BY DEF PublishTask, items, IInv, TypeOK
  <1>2. /\ \/ pub'[k] = pass[k].pub /\ SlotSeq(k) <= pass[k].pub
           \/ pub'[k] = pub[k]
        /\ \A i \in Keys \ {k} : pub'[i] = pub[i]
    BY <1>1, PublishedBook DEF IInv
  <1>3. pass[k].pub <= status[k].seq BY <1>1 DEF IInv, KeyInv, Telling
  <1>4. /\ pub[k] \in Nat /\ status[k].seq \in Nat /\ pass[k].pub \in Nat
        /\ pub[k] <= SlotSeq(k) /\ SlotSeq(k) \in Nat
    BY DEF IInv, TypeOK, SlotSeq
  <1>5. Confirmed(k) => Confirmed(k)' BY <1>1, <1>2, <1>3, <1>4 DEF Confirmed
  <1>6. j # k => Kept(j) BY <1>1, <1>2 DEF Kept, Confirmed
  <1>7. Rebuilt' => Rebuilt BY <1>1
  <1> QED BY <1>5, <1>6, <1>7 DEF Kept

LEMMA PassGoneKept == ASSUME IInv, NEW k \in Keys, PassGone(k), NEW j \in Keys PROVE Kept(j)
  BY DEF PassGone, Free, items, Kept, Confirmed, IInv, TypeOK, KeyInv, Older

\* ... and neither does the ledger's goroutine.
LEMMA KeepsKept == ASSUME IInv, Keeps, NEW j \in Keys PROVE Kept(j)
  <1> USE DEF Kept, Confirmed, IInv, TypeOK, items, book
  <1>1. CASE RebuildList BY <1>1 DEF RebuildList
  <1>2. CASE RebuildInstall BY <1>2 DEF RebuildInstall, KeyInv, Listed
  <1>3. CASE AuditRead BY <1>3 DEF AuditRead
  <1>4. CASE AuditDrop BY <1>4 DEF AuditDrop, KeyInv, Audited
  <1> QED BY <1>1, <1>2, <1>3, <1>4 DEF Keeps

\* The other steps leave what is published alone, or start a new reign.
LEMMA OthersKept ==
  ASSUME IInv, NEW j \in Keys, UNCHANGED <<pub, led>> \/ LeaderChange
  PROVE  Kept(j)
  BY DEF Kept, Confirmed, LeaderChange, IInv, TypeOK

LEMMA NextKept == ASSUME IInv, [Next]_vars, NEW j \in Keys PROVE Kept(j)
  <1> USE DEF items, book
  <1>1. ASSUME NEW k \in Keys, Plan(k) PROVE Kept(j)
    <2>1. CASE PlanInFlight(k) BY <2>1, OthersKept DEF PlanInFlight
    <2>2. CASE PlanNothing(k) BY <2>2, OthersKept DEF PlanNothing
    <2>3. CASE PlanSearch(k) BY <2>3, OthersKept DEF PlanSearch, Reserve, Refuse
    <2> QED BY <1>1, <2>1, <2>2, <2>3, PassGoneKept DEF Plan
  <1>2. ASSUME NEW k \in Keys, Goes(k) PROVE Kept(j)
    <2>1. CASE Apply(k) BY <2>1, OthersKept DEF Apply
    <2> QED BY <1>2, <2>1, TellKept, PublishKept DEF Goes
  <1>3. ASSUME NEW k \in Keys,
               \/ ApplyCut(k) \/ PublishFails(k) \/ Lapse(k) \/ LapseFirst(k) \/ Age(k)
               \/ Inform(k) \/ Over(k) \/ Redownload(k) \/ Delete(k)
        PROVE  Kept(j)
    BY <1>3, OthersKept
    DEF ApplyCut, PublishFails, Lapse, LapseFirst, Age, Inform, Over, Redownload, Delete
  <1>4. CASE UNCHANGED vars BY <1>4, OthersKept DEF vars
  <1> QED BY <1>1, <1>2, <1>3, <1>4, KeepsKept, OthersKept DEF Next

\* A dispatch in flight keeps its published slot until it is closed, over lapses,
\* late answers, the audit and rebuilds (ledger.go), for any set of items, any
\* budget and any number of faults and leaders.
THEOREM DispatchKeepsItsSlot == Spec => SlotOutlivesDispatch
  <1>1. ASSUME IInv, [Next]_vars
        PROVE  [\A k \in Keys :
                  /\ InFlight(status[k]) /\ InFlight(status'[k]) /\ status'[k].seq = status[k].seq
                  /\ Rebuilt' /\ (Rebuilt => Confirmed(k))
                  => Confirmed(k)']_vars
    BY <1>1, NextKept DEF Kept
  <1> QED BY InitIInv, NextIInv, <1>1, PTL DEF Spec, SlotOutlivesDispatch

-----------------------------------------------------------------------------
(* The budget. A slot is taken by an admission, which looks at the book. The *)
(* book misses only dispatches whose pass lost its effects, one for each     *)
(* fault; a publish, a stale view and a rebuild bring back no dispatch that  *)
(* is not in flight.                                                         *)

HIDE DEF Here, InFlight, Rebuilt, Seqs0, Statuses, Passes

\* A dispatch is closed, and followed by another, only after its answer record
\* or its Timeout; one the cache has not seen yet nobody has closed.
Heard(k) ==
    /\ status[k].answered <= over[k] /\ over[k] <= status[k].seq
    /\ cache[k].seq < status[k].seq => cache[k].seq <= over[k] /\ status[k].answered < status[k].seq

Issuing(k) == pass[k].pc = "apply" /\ pass[k].next.seq # pass[k].view.seq

\* A pass that issues a dispatch has its reservation; one that publishes again
\* does it while the item has a dispatch in flight, that one or a newer.
Backed(k) ==
    /\ ~Rebuilt => res[k] = 0
    /\ Issuing(k) => /\ pass[k].pub = pass[k].next.seq /\ res[k] = pass[k].pub
                     /\ status[k].seq < pass[k].pub /\ pass[k].view.seq <= over[k]
    /\ pass[k].pc = "apply" => pass[k].next.answered <= over[k] /\ pass[k].view.seq <= cache[k].seq
    /\ pass[k].pc # "idle" /\ pass[k].pub # 0 /\ ~Issuing(k) =>
         /\ Here(status[k]) => InFlight(status[k]) /\ pass[k].pub <= status[k].seq
         /\ pass[k].pc = "apply" => pass[k].next = pass[k].view

\* The book knows the dispatch in flight, or its pass is about to tell it.
Covered(k) ==
    \/ pub[k] = status[k].seq
    \/ pass[k].pc # "idle" /\ pass[k].pub = status[k].seq /\ res[k] = status[k].seq

Loose(k) == InFlight(status[k]) /\ ~Covered(k)

\* An item that holds a slot, or may without an admission.
Counts(k) ==
    /\ Here(status[k])
    /\ \/ k \in Booked \/ InFlight(status[k])
       \/ ~Rebuilt /\ InFlight(cache[k])
       \/ led = "install" /\ found[k] # 0

Counted == {k \in Keys : Counts(k)}
Missed == {k \in Keys : Loose(k)}

SizeInv ==
    /\ Cardinality(Counted) <= Budget + faults
    /\ Rebuilt => Cardinality(Missed) <= faults

\* The inductive invariant.
BudgetInv == IInv /\ (\A k \in Keys : Heard(k) /\ Backed(k)) /\ SizeInv

\* A step that lets no item count, or be missed, that was not before.
Calm(k) ==
    /\ Counts(k)' => Counts(k)
    /\ Rebuilt' /\ Loose(k)' => Rebuilt /\ Loose(k)

Own(k) == Heard(k)' /\ Backed(k)' /\ Calm(k)

LEMMA FiniteParts ==
  /\ IsFiniteSet(Counted) /\ IsFiniteSet(Missed) /\ IsFiniteSet(Booked)
  /\ IsFiniteSet(Counted') /\ IsFiniteSet(Missed')
  <1>1. \A S \in SUBSET Keys : IsFiniteSet(S) BY LedgerAssumption, FS_Subset
  <1>2. /\ Counted \in SUBSET Keys /\ Missed \in SUBSET Keys /\ Booked \in SUBSET Keys
        /\ Counted' \in SUBSET Keys /\ Missed' \in SUBSET Keys
    BY DEF Counted, Missed, Booked
  <1> QED BY <1>1, <1>2

\* Sizes of finite sets, for the provers.
LEMMA OneMore ==
  ASSUME NEW S, IsFiniteSet(S), NEW x
  PROVE  /\ IsFiniteSet(S \cup {x}) /\ Cardinality(S \cup {x}) \in Nat /\ Cardinality(S) \in Nat
         /\ Cardinality(S \cup {x}) <= Cardinality(S) + 1
  <1>1. Cardinality(S) \in Nat BY FS_CardinalityType
  <1>2. /\ IsFiniteSet(S \cup {x})
        /\ Cardinality(S \cup {x}) = IF x \in S THEN Cardinality(S) ELSE Cardinality(S) + 1
    BY FS_AddElement
  <1> QED BY <1>1, <1>2

LEMMA BothSizes ==
  ASSUME NEW S, IsFiniteSet(S), NEW T, IsFiniteSet(T)
  PROVE  /\ IsFiniteSet(S \cup T) /\ Cardinality(S \cup T) \in Nat
         /\ Cardinality(S) \in Nat /\ Cardinality(T) \in Nat
         /\ Cardinality(S \cup T) <= Cardinality(S) + Cardinality(T)
  <1>1. S \cap T \in SUBSET S OBVIOUS
  <1>2. IsFiniteSet(S \cap T) BY <1>1, FS_Subset
  <1>3. Cardinality(S \cap T) \in Nat /\ Cardinality(S) \in Nat /\ Cardinality(T) \in Nat
    BY <1>2, FS_CardinalityType
  <1>4. /\ IsFiniteSet(S \cup T)
        /\ Cardinality(S \cup T) = Cardinality(S) + Cardinality(T) - Cardinality(S \cap T)
    BY FS_Union
  <1>5. Cardinality(S \cup T) \in Nat BY <1>4, FS_CardinalityType
  <1> QED BY <1>3, <1>4, <1>5

LEMMA Numbers ==
  ASSUME TypeOK
  PROVE  /\ faults \in Nat /\ Budget \in Nat /\ clock \in Nat
         /\ Cardinality(Counted) \in Nat /\ Cardinality(Missed) \in Nat
         /\ \A k \in Keys : /\ status[k].seq \in Nat /\ status[k].answered \in Nat /\ over[k] \in Nat
                            /\ cache[k].seq \in Nat /\ cache[k].answered \in Nat
                            /\ res[k] \in Nat /\ pub[k] \in Nat /\ found[k] \in Nat
                            /\ pass[k].ans \in Nat /\ pass[k].pub \in Nat
                            /\ pass[k].view.seq \in Nat /\ pass[k].next.seq \in Nat
                            /\ pass[k].view.answered \in Nat /\ pass[k].next.answered \in Nat
  <1>1. Cardinality(Counted) \in Nat /\ Cardinality(Missed) \in Nat BY FiniteParts, FS_CardinalityType
  <1>2. faults \in Nat /\ Budget \in Nat /\ clock \in Nat
    BY LedgerAssumption DEF TypeOK, Budget, Seqs0
  <1>3. ASSUME NEW k \in Keys
        PROVE  /\ status[k] \in Statuses /\ cache[k] \in Statuses /\ pass[k] \in Passes
               /\ over[k] \in Seqs0 /\ res[k] \in Seqs0 /\ pub[k] \in Seqs0 /\ found[k] \in Seqs0
    BY DEF TypeOK
  <1>4. Seqs0 \in SUBSET Nat BY LedgerAssumption DEF Seqs0
  <1> QED BY <1>1, <1>2, <1>3, <1>4 DEF Statuses, Passes

\* What such steps, and a fault, do to the sizes.
LEMMA CalmSizes ==
  ASSUME TypeOK, TypeOK', SizeInv, \A k \in Keys : Calm(k), faults <= faults' PROVE SizeInv'
  <1>1. Counted' \in SUBSET Counted BY DEF Counted, Calm
  <1>2. /\ Rebuilt' /\ Rebuilt => Missed' \in SUBSET Missed
        /\ Rebuilt' /\ ~Rebuilt => Missed' = {}
    BY DEF Missed, Calm
  <1>3. Cardinality(Counted') <= Cardinality(Counted) BY <1>1, FiniteParts, FS_Subset
  <1>4. /\ Rebuilt' /\ Rebuilt => Cardinality(Missed') <= Cardinality(Missed)
        /\ Rebuilt' /\ ~Rebuilt => Cardinality(Missed') = 0
    BY <1>2, FiniteParts, FS_Subset, FS_EmptySet
  <1>5. /\ faults \in Nat /\ faults' \in Nat /\ Budget \in Nat
        /\ Cardinality(Counted) \in Nat /\ Cardinality(Missed) \in Nat
        /\ Cardinality(Counted') \in Nat /\ Cardinality(Missed') \in Nat
    BY Numbers, FiniteParts, FS_CardinalityType DEF TypeOK
  <1> QED BY <1>3, <1>4, <1>5 DEF SizeInv, Budget

LEMMA FaultSizes ==
  ASSUME TypeOK, TypeOK', SizeInv, NEW k \in Keys, \A j \in Keys \ {k} : Calm(j),
         Counts(k)' => Counts(k), Rebuilt' => Rebuilt, faults' = faults + 1
  PROVE  SizeInv'
  <1>1. Counted' \in SUBSET Counted BY DEF Counted, Calm
  <1>2. Rebuilt' => Missed' \in SUBSET (Missed \cup {k}) BY DEF Missed, Calm
  <1>3. Cardinality(Counted') <= Cardinality(Counted) BY <1>1, FiniteParts, FS_Subset
  <1>4. /\ faults \in Nat /\ Budget \in Nat /\ Cardinality(Counted) \in Nat /\ Cardinality(Missed) \in Nat
        /\ Cardinality(Counted') \in Nat /\ Cardinality(Missed') \in Nat
    BY Numbers, FiniteParts, FS_CardinalityType
  <1>5. IsFiniteSet(Missed \cup {k}) /\ Cardinality(Missed \cup {k}) <= Cardinality(Missed) + 1
    BY FiniteParts, OneMore
  <1>6. Cardinality(Missed \cup {k}) \in Nat BY <1>5, FS_CardinalityType
  <1>7. Rebuilt' => Cardinality(Missed') <= Cardinality(Missed \cup {k}) BY <1>2, <1>5, FS_Subset
  <1> QED BY <1>3, <1>4, <1>5, <1>6, <1>7 DEF SizeInv, Budget

\* What is not in the book and counts is missed.
LEMMA ReserveSizes ==
  ASSUME TypeOK, TypeOK', SizeInv, NEW k \in Keys, \A j \in Keys \ {k} : Calm(j),
         Rebuilt, Rebuilt', Cardinality(Booked \ {k}) < Budget, Loose(k)' => Loose(k), faults' = faults
  PROVE  SizeInv'
  <1>1. Missed' \in SUBSET Missed /\ Counted' \in SUBSET (Counted \cup {k}) BY DEF Missed, Counted, Calm
  <1>2. ASSUME NEW j \in Keys, Counts(j), j \notin Booked PROVE Loose(j)
    <2>1. InFlight(status[j]) BY <1>2 DEF Counts, Rebuilt
    <2>2. res[j] = 0 /\ pub[j] = 0 BY <1>2 DEF Booked
    <2>3. status[j].seq # 0 BY <2>1, Numbers DEF InFlight
    <2> QED BY <2>1, <2>2, <2>3 DEF Loose, Covered
  <1>3. Counted' \in SUBSET ((Booked \ {k}) \cup (Missed \cup {k})) BY <1>1, <1>2 DEF Counted, Missed
  <1>4. IsFiniteSet(Booked \ {k}) /\ IsFiniteSet(Missed) BY FiniteParts, FS_RemoveElement
  <1>5. IsFiniteSet(Missed \cup {k}) /\ Cardinality(Missed \cup {k}) <= Cardinality(Missed) + 1
    BY <1>4, OneMore
  <1>6. /\ IsFiniteSet((Booked \ {k}) \cup (Missed \cup {k}))
        /\ Cardinality((Booked \ {k}) \cup (Missed \cup {k}))
             <= Cardinality(Booked \ {k}) + Cardinality(Missed \cup {k})
    BY <1>4, <1>5, BothSizes
  <1>7. Cardinality(Counted') <= Cardinality((Booked \ {k}) \cup (Missed \cup {k}))
    BY <1>3, <1>6, FS_Subset
  <1>8. Cardinality(Missed') <= Cardinality(Missed) BY <1>1, <1>4, FS_Subset
  <1>9. /\ faults \in Nat /\ Budget \in Nat /\ Cardinality(Missed) \in Nat /\ Cardinality(Missed') \in Nat
        /\ Cardinality(Counted') \in Nat /\ Cardinality(Booked \ {k}) \in Nat
        /\ Cardinality(Missed \cup {k}) \in Nat
        /\ Cardinality((Booked \ {k}) \cup (Missed \cup {k})) \in Nat
    BY <1>4, <1>5, <1>6, Numbers, FiniteParts, FS_CardinalityType
  <1>10. Cardinality(Missed) <= faults BY DEF SizeInv
  <1>11. Cardinality(Counted') <= Budget + faults
    BY <1>5, <1>6, <1>7, <1>9, <1>10
  <1> QED BY <1>8, <1>9, <1>10, <1>11 DEF SizeInv, Budget

\* An item the step does not touch.
LEMMA Untouched ==
  ASSUME TypeOK, NEW j \in Keys, Heard(j), Backed(j),
         status'[j] = status[j], cache'[j] = cache[j], over'[j] = over[j], pass'[j] = pass[j],
         res'[j] = res[j], pub'[j] = pub[j], found'[j] = found[j], led' = led
  PROVE  Own(j)
  <1>1. (Rebuilt' <=> Rebuilt) /\ (Issuing(j)' <=> Issuing(j)) BY DEF Rebuilt, Issuing
  <1>2. (j \in Booked' <=> j \in Booked) /\ (Here(status[j])' <=> Here(status[j]))
        /\ (InFlight(status[j])' <=> InFlight(status[j])) /\ (InFlight(cache[j])' <=> InFlight(cache[j]))
    BY DEF Booked, Here, InFlight
  <1>3. Heard(j)' BY DEF Heard
  <1>4. Backed(j)' BY <1>1, <1>2 DEF Backed
  <1>5. Calm(j) BY <1>1, <1>2 DEF Calm, Counts, Loose, Covered
  <1> QED BY <1>3, <1>4, <1>5 DEF Own

LEMMA ItemFacts ==
  ASSUME BudgetInv, NEW k \in Keys
  PROVE  /\ IInv /\ TypeOK /\ KeyInv(k) /\ Heard(k) /\ Backed(k)
         /\ status[k].seq \in Nat /\ status[k].answered \in Nat /\ over[k] \in Nat
         /\ cache[k].seq \in Nat /\ cache[k].answered \in Nat
         /\ res[k] \in Nat /\ pub[k] \in Nat /\ found[k] \in Nat
         /\ pass[k].ans \in Nat /\ pass[k].pub \in Nat
         /\ pass[k].view.seq \in Nat /\ pass[k].next.seq \in Nat
         /\ pass[k].view.answered \in Nat /\ pass[k].next.answered \in Nat
         /\ cache[k].seq <= status[k].seq /\ cache[k].answered <= status[k].answered
         /\ Here(status[k]) => Here(cache[k])
  <1>1. IInv /\ TypeOK /\ KeyInv(k) /\ Heard(k) /\ Backed(k) BY DEF BudgetInv, IInv
  <1>2. Older(cache[k], status[k]) BY <1>1 DEF KeyInv
  <1> QED BY <1>1, <1>2, Numbers DEF Older

\* Only the pass, the reservation or nothing of the item changes.
LEMMA SameBook ==
  ASSUME BudgetInv, NEW k \in Keys, UNCHANGED <<status, cache, over, led, found>>,
         Backed(k)', k \in Booked' => k \in Booked, Covered(k) /\ InFlight(status[k]) => Covered(k)'
  PROVE  Own(k)
  <1>1. (Rebuilt' <=> Rebuilt) /\ (Here(status[k])' <=> Here(status[k]))
        /\ (InFlight(status[k])' <=> InFlight(status[k])) /\ (InFlight(cache[k])' <=> InFlight(cache[k]))
    BY DEF Rebuilt, Here, InFlight
  <1>2. Heard(k)' BY ItemFacts DEF Heard
  <1>3. Calm(k) BY <1>1 DEF Calm, Counts, Loose
  <1> QED BY <1>2, <1>3 DEF Own

\* A plan from the cache that issues nothing. What it publishes again has had no
\* answer, so it is still in flight, or a newer one is that the cache lacks.
LEMMA QuietOwn ==
  ASSUME BudgetInv, NEW k \in Keys, pass[k].pc = "idle", NEW next \in Statuses,
         NEW ans \in Seqs0, NEW publish \in Seqs0, Begins(k, next, ans, publish),
         UNCHANGED <<status, cache, over, res, pub, led, found>>,
         next.seq = cache[k].seq, next.answered <= over[k],
         publish # 0 => next = cache[k] /\ publish = cache[k].seq /\ cache[k].seq # over[k]
  PROVE  Own(k)
  <1>1. /\ pass'[k].pc = "apply" /\ pass'[k].view = cache[k] /\ pass'[k].next = next
        /\ pass'[k].pub = publish
    <2>1. TypeOK BY ItemFacts
    <2>2. pass'[k] = [pc |-> "apply", view |-> cache[k], next |-> next, ans |-> ans, pub |-> publish]
      BY <2>1, BeginsPass
    <2> QED BY <2>2
  <1>2. ~Issuing(k)' BY <1>1 DEF Issuing
  <1>3. publish # 0 => (Here(status[k]) => InFlight(status[k])) /\ publish <= status[k].seq
    <2>1. publish # 0 => status[k].answered < status[k].seq
      BY ItemFacts DEF Heard
    <2> QED BY <2>1, ItemFacts DEF InFlight
  <1>4. (Rebuilt' <=> Rebuilt) /\ (Here(status[k])' <=> Here(status[k]))
        /\ (InFlight(status[k])' <=> InFlight(status[k]))
    BY DEF Rebuilt, Here, InFlight
  <1>5. Backed(k)' BY <1>1, <1>2, <1>3, <1>4, ItemFacts DEF Backed
  <1>6. k \in Booked' => k \in Booked BY DEF Booked
  <1>7. Covered(k) => Covered(k)' BY DEF Covered
  <1> QED BY <1>5, <1>6, <1>7, SameBook

LEMMA PlanInFlightOwn == ASSUME BudgetInv, NEW k \in Keys, PlanInFlight(k) PROVE Own(k)
  <1>1. PICK s \in {0, cache[k].seq} : Begins(k, cache[k], 0, s) BY DEF PlanInFlight
  <1>2. cache[k] \in Statuses /\ cache[k].seq \in Seqs0 /\ s \in Seqs0 /\ 0 \in Seqs0
    BY ItemFacts, LedgerAssumption DEF TypeOK, Statuses, Seqs0
  <1>3. cache[k].seq # over[k]
    <2>1. ASSUME InFlight(Closed(k)), Closes(k) PROVE FALSE
      <3>1. Closed(k).seq <= Closed(k).answered
        BY <1>2, <2>1, ItemFacts DEF Closed, Statuses
      <3>2. Closed(k).seq \in Nat /\ Closed(k).answered \in Nat
        BY <1>2, <2>1, ItemFacts DEF Closed, Statuses
      <3> QED BY <2>1, <3>1, <3>2 DEF InFlight
    <2>2. CASE InFlight(Closed(k))
      <3>1. ~Closes(k) /\ Closed(k) = cache[k] BY <2>1, <2>2 DEF Closed
      <3> QED BY <2>2, <3>1, ItemFacts DEF Closes
    <2>3. CASE Outlived(k) BY <2>3, ItemFacts DEF Outlived
    <2> QED BY <2>2, <2>3 DEF PlanInFlight
  <1>4. cache[k].answered <= over[k] BY ItemFacts DEF Heard
  <1>5. UNCHANGED <<status, cache, over, res, pub, led, found>> /\ pass[k].pc = "idle"
    BY DEF PlanInFlight, items, book
  <1> QED BY <1>1, <1>2, <1>3, <1>4, <1>5, QuietOwn

\* ... and one that closes what has been answered.
LEMMA ClosedHeard ==
  ASSUME BudgetInv, NEW k \in Keys
  PROVE  /\ Closed(k) \in Statuses /\ Owed(k) \in Seqs0
         /\ Closed(k).seq = cache[k].seq /\ Closed(k).answered <= over[k]
  <1>1. Closed(k) \in Statuses /\ Owed(k) \in Seqs0 /\ Closed(k).seq = cache[k].seq
    BY ClosedFacts, ItemFacts
  <1>2. cache[k] \in Statuses BY ItemFacts DEF TypeOK
  <1>3. CASE Closes(k)
    <2>1. Closed(k).answered = cache[k].seq BY <1>2, <1>3 DEF Closed, Statuses
    <2> QED BY <1>1, <1>3, <2>1 DEF Closes
  <1>4. CASE ~Closes(k)
    BY <1>1, <1>4, ItemFacts DEF Closed, Heard
  <1> QED BY <1>1, <1>3, <1>4

LEMMA ClosingOwn ==
  ASSUME BudgetInv, NEW k \in Keys, pass[k].pc = "idle", Begins(k, Closed(k), Owed(k), 0),
         UNCHANGED <<status, cache, over, res, pub, led, found>>
  PROVE  Own(k)
  <1>1. 0 \in Seqs0 BY LedgerAssumption DEF Seqs0
  <1> QED BY <1>1, ClosedHeard, QuietOwn

LEMMA PassGoneOwn == ASSUME BudgetInv, NEW k \in Keys, PassGone(k) PROVE Own(k)
  <1>1. /\ UNCHANGED <<status, cache, over, pass, led, found>> /\ pass[k].pc = "idle"
        /\ ~Here(cache[k]) /\ Free(k)
    BY DEF PassGone, items
  <1>2. res'[k] = 0 /\ pub'[k] = 0 BY <1>1, ItemFacts DEF Free, TypeOK
  <1>3. ~Here(status[k]) /\ ~Here(status[k])' /\ ~InFlight(status[k])'
    BY <1>1, ItemFacts DEF Here, InFlight
  <1>4. Heard(k)' BY <1>1, ItemFacts DEF Heard
  <1>5. Backed(k)' BY <1>1, <1>2 DEF Backed, Issuing
  <1>6. Calm(k) BY <1>3 DEF Calm, Counts, Loose
  <1> QED BY <1>4, <1>5, <1>6 DEF Own

\* A search that is admitted: its slot is the reservation, and the dispatch it
\* will issue is newer than all that the item has.
LEMMA ReserveOwn ==
  ASSUME BudgetInv, NEW k \in Keys, pass[k].pc = "idle", Here(cache[k]), ~InFlight(Closed(k)),
         Reserve(k, clock + 1), clock + 1 \in Seqs0,
         Begins(k, [Closed(k) EXCEPT !.seq = clock + 1], IF Closes(k) THEN cache[k].seq ELSE 0, clock + 1),
         UNCHANGED <<status, cache, over, led, found>>
  PROVE  Heard(k)' /\ Backed(k)' /\ (Rebuilt' /\ Loose(k)' => Loose(k))
  <1> DEFINE next == [Closed(k) EXCEPT !.seq = clock + 1]
             ans == IF Closes(k) THEN cache[k].seq ELSE 0
  <1>1. /\ next \in Statuses /\ next.seq = clock + 1 /\ next.answered = Closed(k).answered
        /\ ans \in Seqs0
    <2>1. Closed(k) \in Statuses /\ cache[k].seq \in Seqs0 /\ 0 \in Seqs0
      BY ClosedHeard, ItemFacts, LedgerAssumption DEF TypeOK, Statuses, Seqs0
    <2> QED BY <2>1 DEF Statuses
  <1> HIDE DEF next, ans
  <1>2. /\ pass'[k].pc = "apply" /\ pass'[k].view = cache[k] /\ pass'[k].next = next
        /\ pass'[k].pub = clock + 1
    <2>1. TypeOK BY ItemFacts
    <2>2. Begins(k, next, ans, clock + 1) BY DEF next, ans
    <2>3. pass'[k] = [pc |-> "apply", view |-> cache[k], next |-> next, ans |-> ans, pub |-> clock + 1]
      BY <1>1, <2>1, <2>2, BeginsPass
    <2> QED BY <2>3
  <1>3. res'[k] = clock + 1 /\ pub' = pub BY ItemFacts DEF Reserve, TypeOK
  <1>4. Rebuilt /\ Rebuilt' BY DEF Reserve, Room, Rebuilt
  <1>5. status[k].seq <= clock /\ cache[k].seq <= clock /\ clock \in Nat
    BY ItemFacts, Numbers DEF KeyInv, Ticks
  <1>6. cache[k].seq <= over[k]
    <2>1. Closed(k).seq <= Closed(k).answered
      BY ClosedFacts, ItemFacts
    <2>2. Closed(k).answered \in Nat
      <3>1. Closed(k) \in Statuses BY ClosedHeard
      <3> QED BY <3>1, LedgerAssumption DEF Statuses, Seqs0
    <2> QED BY <2>1, <2>2, ClosedHeard, ItemFacts
  <1>7. Issuing(k)' BY <1>1, <1>2, <1>5 DEF Issuing
  <1>8. Heard(k)' BY ItemFacts DEF Heard
  <1>9. Backed(k)'
    <2>1. /\ pass'[k].pub = pass'[k].next.seq /\ res'[k] = pass'[k].pub
          /\ status'[k].seq < pass'[k].pub /\ pass'[k].view.seq <= over'[k]
      BY <1>1, <1>2, <1>3, <1>5, <1>6, ItemFacts
    <2>2. pass'[k].next.answered <= over'[k] /\ pass'[k].view.seq <= cache'[k].seq
      BY <1>1, <1>2, ClosedHeard, ItemFacts
    <2> QED BY <1>4, <1>7, <2>1, <2>2 DEF Backed
  <1>10. Loose(k)' => Loose(k)
    <2>1. InFlight(status[k])' => InFlight(status[k]) BY DEF InFlight, Here
    <2>2. Covered(k) => Covered(k)' BY <1>3 DEF Covered
    <2> QED BY <2>1, <2>2 DEF Loose
  <1> QED BY <1>8, <1>9, <1>10

-----------------------------------------------------------------------------
\* The pass's write: a new dispatch has its reservation, an old one stays.
LEMMA WritesCounts ==
  ASSUME BudgetInv, NEW k \in Keys, pass[k].pc = "apply", Writes(k),
         UNCHANGED <<cache, over, res, pub, led, found>>
  PROVE  /\ Heard(k)' /\ (Counts(k)' => Counts(k))
         /\ status'[k] = pass[k].next /\ status[k] = pass[k].view
         /\ InFlight(status'[k]) =>
              \/ ~Issuing(k) /\ InFlight(status[k]) /\ status'[k].seq = status[k].seq
              \/ Issuing(k) /\ status'[k].seq = pass[k].pub /\ res[k] = pass[k].pub
  <1>1. status'[k] = pass[k].next /\ status[k] = pass[k].view BY ItemFacts DEF Writes, TypeOK
  <1>2. /\ pass[k].next.life = pass[k].view.life /\ pass[k].view.seq <= pass[k].next.seq
        /\ pass[k].view.answered <= pass[k].next.answered
    BY ItemFacts DEF KeyInv, Applying, Older
  <1>3. (Here(status[k])' <=> Here(status[k])) BY <1>1, <1>2 DEF Here
  <1>4. pass[k].next.answered <= over[k] /\ pass[k].view.seq <= cache[k].seq BY ItemFacts DEF Backed
  <1>5. Issuing(k) => /\ pass[k].view.seq <= over[k] /\ res[k] = pass[k].pub
                      /\ pass[k].pub = pass[k].next.seq /\ pass[k].pub > status[k].seq
    BY ItemFacts DEF Backed
  <1>6. ~Issuing(k) => pass[k].next.seq = pass[k].view.seq BY DEF Issuing
  <1>7. Heard(k)'
    BY <1>1, <1>2, <1>4, <1>5, <1>6, ItemFacts DEF Heard
  <1>8. InFlight(status'[k]) =>
              \/ ~Issuing(k) /\ InFlight(status[k]) /\ status'[k].seq = status[k].seq
              \/ Issuing(k) /\ status'[k].seq = pass[k].pub /\ res[k] = pass[k].pub
    BY <1>1, <1>2, <1>5, <1>6, ItemFacts DEF InFlight, Here
  <1>9. Issuing(k) => k \in Booked BY <1>5, ItemFacts DEF Booked
  <1>10. (Rebuilt' <=> Rebuilt) /\ (k \in Booked' <=> k \in Booked) /\ (InFlight(cache[k])' <=> InFlight(cache[k]))
    BY DEF Rebuilt, Booked, InFlight, Here
  <1>11. InFlight(status[k])' => InFlight(status[k]) \/ k \in Booked BY <1>8, <1>9
  <1>12. Counts(k)' => Counts(k) BY <1>3, <1>10, <1>11 DEF Counts
  <1> QED BY <1>1, <1>7, <1>8, <1>12

LEMMA ApplyOwn == ASSUME BudgetInv, NEW k \in Keys, Apply(k) PROVE Own(k)
  <1>u. UNCHANGED <<cache, over, res, pub, led, found>> /\ pass[k].pc = "apply"
    BY DEF Apply, book
  <1>r. (Rebuilt' <=> Rebuilt) BY <1>u DEF Rebuilt
  <1>e. Effects(k) => /\ pass'[k].pc # "apply"
                      /\ pass'[k].pc # "idle" => pass'[k].pub = pass[k].pub
                      /\ pass[k].pub # 0 => pass'[k].pc # "idle"
    <2>1. TypeOK BY ItemFacts
    <2>2. Effects(k) /\ pass[k].pub # 0 => pass'[k].pc # "idle"
      <3>1. pass[k] \in Passes BY <2>1 DEF TypeOK
      <3> QED BY <2>1, <3>1 DEF Effects, TypeOK, Passes
    <2> QED BY <2>1, <2>2, EffectsPass
  <1>1. CASE Writes(k) /\ Effects(k)
    <2>1. /\ Heard(k)' /\ (Counts(k)' => Counts(k))
          /\ status'[k] = pass[k].next /\ status[k] = pass[k].view
          /\ InFlight(status'[k]) =>
               \/ ~Issuing(k) /\ InFlight(status[k]) /\ status'[k].seq = status[k].seq
               \/ Issuing(k) /\ status'[k].seq = pass[k].pub /\ res[k] = pass[k].pub
      BY <1>1, <1>u, WritesCounts
    <2>2. Backed(k)'
      <3>1. ~Issuing(k)' BY <1>1, <1>e DEF Issuing
      <3>2. ~Rebuilt' => res'[k] = 0 BY <1>u, <1>r, ItemFacts DEF Backed
      <3>3. ASSUME pass'[k].pc # "idle", pass'[k].pub # 0, Here(status'[k])
            PROVE  InFlight(status'[k]) /\ pass'[k].pub <= status'[k].seq
        <4>1. pass'[k].pub = pass[k].pub BY <1>1, <1>e, <3>3
        <4>2. CASE Issuing(k)
          <5>1. pass[k].pub = pass[k].next.seq /\ status[k].seq < pass[k].pub
                /\ pass[k].view.seq <= over[k] /\ pass[k].next.answered <= over[k]
            BY <1>u, <4>2, ItemFacts DEF Backed
          <5>2. pass[k].next.answered < pass[k].next.seq
            BY <5>1, ItemFacts DEF Heard
          <5>3. status'[k] = pass[k].next /\ pass'[k].pub = status'[k].seq BY <2>1, <4>1, <5>1
          <5> QED BY <3>3, <5>2, <5>3, ItemFacts DEF InFlight
        <4>3. CASE ~Issuing(k)
          <5>1. pass[k].next = pass[k].view /\ (Here(status[k]) => InFlight(status[k]) /\ pass[k].pub <= status[k].seq)
            BY <1>u, <3>3, <4>1, <4>3, ItemFacts DEF Backed
          <5> QED BY <2>1, <3>3, <4>1, <5>1
        <4> QED BY <4>2, <4>3
      <3> QED BY <1>1, <1>e, <3>1, <3>2, <3>3 DEF Backed
    <2>3. Rebuilt' /\ Loose(k)' => Rebuilt /\ Loose(k)
      <3>1. Loose(k)' => ~Issuing(k) /\ InFlight(status[k]) /\ status'[k].seq = status[k].seq
        <4>1. CASE Issuing(k)
          BY <1>1, <1>e, <1>u, <2>1, <4>1, ItemFacts DEF Loose, Covered, Backed
        <4> QED BY <2>1, <4>1 DEF Loose
      <3>2. Loose(k)' => Loose(k)
        BY <1>1, <1>e, <1>u, <3>1, ItemFacts DEF Loose, Covered, InFlight
      <3> QED BY <1>r, <3>2
    <2> QED BY <2>1, <2>2, <2>3 DEF Own, Calm
  <1>2. CASE Ends(k) /\ pass[k].next # pass[k].view /\ UNCHANGED status
    <2>1. pass'[k].pc = "idle" BY <1>2, ItemFacts, EndsPass
    <2>2. Backed(k)' BY <1>r, <1>u, <2>1, ItemFacts DEF Backed, Issuing
    <2>3. Covered(k) /\ InFlight(status[k]) => pub[k] = status[k].seq
      <3>1. InFlight(status[k]) => status[k].seq # 0 BY ItemFacts DEF InFlight
      <3> QED BY <1>2, <1>u, <3>1, ItemFacts DEF Covered, Backed
    <2>4. Covered(k) /\ InFlight(status[k]) => Covered(k)' BY <1>2, <1>u, <2>3 DEF Covered
    <2>5. k \in Booked' => k \in Booked BY <1>u DEF Booked
    <2> QED BY <1>2, <1>u, <2>2, <2>4, <2>5, SameBook
  <1>3. CASE pass[k].next = pass[k].view /\ Effects(k) /\ UNCHANGED status
    <2>1. ~Issuing(k) /\ ~Issuing(k)' BY <1>3, <1>e DEF Issuing
    <2>2. pass'[k].pc # "idle" /\ pass'[k].pub # 0 =>
            (Here(status[k]) => InFlight(status[k]) /\ pass'[k].pub <= status[k].seq)
      BY <1>3, <1>e, <1>u, <2>1, ItemFacts DEF Backed
    <2>3. Backed(k)' BY <1>3, <1>e, <1>r, <1>u, <2>1, <2>2, ItemFacts DEF Backed, Here, InFlight
    <2>4. Covered(k) /\ InFlight(status[k]) => Covered(k)'
      <3>1. InFlight(status[k]) => status[k].seq # 0 BY ItemFacts DEF InFlight
      <3> QED BY <1>3, <1>e, <1>u, <3>1 DEF Covered
    <2>5. k \in Booked' => k \in Booked BY <1>u DEF Booked
    <2> QED BY <1>3, <1>u, <2>3, <2>4, <2>5, SameBook
  <1> QED BY <1>1, <1>2, <1>3 DEF Apply

\* A pass that loses its effects leaves its dispatch to the next one.
LEMMA CutOwn ==
  ASSUME BudgetInv, NEW k \in Keys, ApplyCut(k) \/ PublishFails(k)
  PROVE  Heard(k)' /\ Backed(k)' /\ (Counts(k)' => Counts(k)) /\ (Rebuilt' => Rebuilt)
  <1>u. UNCHANGED <<cache, over, res, pub, led, found>> /\ Ends(k)
    BY DEF ApplyCut, PublishFails, book, items
  <1>r. (Rebuilt' <=> Rebuilt) BY <1>u DEF Rebuilt
  <1>1. pass'[k].pc = "idle" BY <1>u, ItemFacts, EndsPass
  <1>2. Backed(k)' BY <1>r, <1>u, <1>1, ItemFacts DEF Backed, Issuing
  <1>3. CASE pass[k].pc = "apply" /\ Writes(k) BY <1>2, <1>3, <1>r, <1>u, WritesCounts
  <1>4. CASE UNCHANGED status
    <2>1. /\ (k \in Booked' <=> k \in Booked) /\ (Here(status[k])' <=> Here(status[k]))
          /\ (InFlight(status[k])' <=> InFlight(status[k])) /\ (InFlight(cache[k])' <=> InFlight(cache[k]))
      BY <1>4, <1>u DEF Booked, Here, InFlight
    <2>2. Heard(k)' BY <1>4, <1>u, ItemFacts DEF Heard
    <2>3. Counts(k)' => Counts(k) BY <1>r, <1>u, <2>1 DEF Counts
    <2> QED BY <1>2, <1>r, <2>2, <2>3
  <1> QED BY <1>3, <1>4 DEF ApplyCut, PublishFails, items

\* The book is told of an answer: of no dispatch that is in flight.
LEMMA TellOwn == ASSUME BudgetInv, NEW k \in Keys, TellAnswered(k) PROVE Own(k)
  <1>u. /\ UNCHANGED <<status, cache, over, led, found>> /\ pass[k].pc = "answered"
        /\ Answered(k, pass[k].ans)
    BY DEF TellAnswered, items
  <1>t. TypeOK /\ pass[k].ans \in Seqs0 /\ pass[k] \in Passes
    BY ItemFacts DEF TypeOK, Passes
  <1>1. \/ res'[k] = 0 /\ pub'[k] = 0 /\ SlotSeq(k) <= pass[k].ans
        \/ res'[k] = res[k] /\ pub'[k] = pub[k]
    BY <1>t, <1>u, AnsweredBook
  <1>2. /\ pass'[k].pc # "apply" /\ (pass'[k].pc # "idle" => pass'[k].pub = pass[k].pub)
        /\ pass[k].pub # 0 => pass'[k].pc # "idle"
    <2>1. Idle.pc = "idle" BY DEF Idle
    <2> DEFINE on == [pass[k] EXCEPT !.pc = "publish"]
    <2>2. on.pc = "publish" /\ on.pub = pass[k].pub BY <1>t DEF Passes
    <2>3. pass' = [pass EXCEPT ![k] = IF pass[k].pub = 0 THEN Idle ELSE on] BY DEF TellAnswered
    <2> HIDE DEF on
    <2>4. pass'[k] = IF pass[k].pub = 0 THEN Idle ELSE on BY <1>t, <2>3 DEF TypeOK
    <2> QED BY <2>1, <2>2, <2>4
  <1>3. (Rebuilt' <=> Rebuilt) /\ ~Issuing(k) /\ ~Issuing(k)' BY <1>2, <1>u DEF Rebuilt, Issuing
  <1>4. Backed(k)'
    <2>1. ~Rebuilt' => res'[k] = 0 BY <1>1, <1>3, ItemFacts DEF Backed
    <2>2. pass'[k].pc # "idle" /\ pass'[k].pub # 0 =>
            (Here(status[k]) => InFlight(status[k]) /\ pass'[k].pub <= status[k].seq)
      BY <1>2, <1>3, <1>u, ItemFacts DEF Backed
    <2> QED BY <1>2, <1>3, <1>u, <2>1, <2>2 DEF Backed, Here, InFlight
  <1>5. Covered(k) /\ InFlight(status[k]) => Covered(k)'
    <2>1. InFlight(status[k]) => status[k].seq # 0 /\ pass[k].ans < status[k].seq
      BY <1>u, ItemFacts DEF InFlight, KeyInv, Telling
    <2>2. res[k] # 0 => res[k] > pub[k] BY <1>t DEF TypeOK
    <2>3. Covered(k) /\ InFlight(status[k]) => SlotSeq(k) >= status[k].seq
      BY <2>1, <2>2, ItemFacts DEF Covered, SlotSeq
    <2>4. SlotSeq(k) \in Nat BY ItemFacts DEF SlotSeq
    <2>5. Covered(k) /\ InFlight(status[k]) => res'[k] = res[k] /\ pub'[k] = pub[k]
      BY <1>1, <2>1, <2>3, <2>4, ItemFacts
    <2> QED BY <1>2, <1>u, <2>1, <2>5 DEF Covered
  <1>6. k \in Booked' => k \in Booked BY <1>1 DEF Booked
  <1> QED BY <1>u, <1>4, <1>5, <1>6, SameBook

\* A publish takes a slot only for an item with a dispatch in flight.
LEMMA PublishOwn == ASSUME BudgetInv, NEW k \in Keys, PublishTask(k) PROVE Own(k)
  <1>u. /\ UNCHANGED <<status, cache, over, led, found>> /\ pass[k].pc = "publish"
        /\ Published(k, pass[k].pub) /\ Ends(k)
    BY DEF PublishTask, items
  <1>t. TypeOK /\ pass[k].pub \in Seqs0 /\ SlotSeq(k) \in Nat
    BY ItemFacts DEF TypeOK, Passes, SlotSeq
  <1>1. \/ res'[k] = 0 /\ pub'[k] = pass[k].pub /\ SlotSeq(k) <= pass[k].pub
        \/ res'[k] = res[k] /\ pub'[k] = pub[k] /\ SlotSeq(k) > pass[k].pub
    BY <1>t, <1>u, PublishedBook
  <1>2. pass'[k].pc = "idle" BY <1>t, <1>u, EndsPass
  <1>3. /\ (Rebuilt' <=> Rebuilt) /\ (Here(status[k])' <=> Here(status[k]))
        /\ (InFlight(status[k])' <=> InFlight(status[k])) /\ (InFlight(cache[k])' <=> InFlight(cache[k]))
    BY <1>u DEF Rebuilt, Here, InFlight
  <1>4. pass[k].pub # 0 => (Here(status[k]) => InFlight(status[k]) /\ pass[k].pub <= status[k].seq)
    BY <1>u, ItemFacts DEF Backed, Issuing
  <1>5. Heard(k)' BY <1>u, ItemFacts DEF Heard
  <1>6. Backed(k)' BY <1>1, <1>2, <1>3, ItemFacts DEF Backed, Issuing
  <1>7. Counts(k)' => Counts(k)
    <2>1. k \in Booked' => k \in Booked \/ pass[k].pub # 0 BY <1>1 DEF Booked
    <2> QED BY <1>3, <1>4, <1>u, <2>1 DEF Counts
  <1>8. Loose(k)' => Loose(k)
    <2>1. InFlight(status[k]) => status[k].seq # 0 /\ Here(status[k]) BY ItemFacts DEF InFlight
    <2>2. res[k] # 0 => res[k] > pub[k] BY <1>t DEF TypeOK
    <2>3. InFlight(status[k]) /\ Covered(k) => pub'[k] = status[k].seq
      BY <1>1, <1>4, <1>t, <2>1, <2>2, ItemFacts DEF Covered, SlotSeq
    <2> QED BY <1>3, <1>u, <2>3 DEF Loose, Covered
  <1> QED BY <1>3, <1>5, <1>6, <1>7, <1>8 DEF Own, Calm

-----------------------------------------------------------------------------
LEMMA LapseOwn == ASSUME BudgetInv, NEW k \in Keys, Lapse(k) PROVE Own(k)
  <1>u. /\ UNCHANGED <<status, cache, over, pass, pub, led, found>> /\ res'[k] = 0
        /\ pass[k].pub # res[k]
    BY ItemFacts DEF Lapse, items, TypeOK
  <1>1. ~Issuing(k) /\ ~Issuing(k)' BY <1>u, ItemFacts DEF Backed, Issuing
  <1>2. Backed(k)' BY <1>1, <1>u, ItemFacts DEF Backed, Here, InFlight
  <1>3. Covered(k) => Covered(k)' BY <1>u DEF Covered
  <1>4. k \in Booked' => k \in Booked BY <1>u DEF Booked
  <1> QED BY <1>u, <1>2, <1>3, <1>4, SameBook

LEMMA InformOwn == ASSUME BudgetInv, NEW k \in Keys, Inform(k) PROVE Own(k)
  <1>u. UNCHANGED <<status, over, pass, res, pub, led, found>> /\ cache'[k] = status[k]
    BY ItemFacts DEF Inform, book, TypeOK
  <1>1. /\ (Rebuilt' <=> Rebuilt) /\ (k \in Booked' <=> k \in Booked) /\ (Here(status[k])' <=> Here(status[k]))
        /\ (InFlight(status[k])' <=> InFlight(status[k])) /\ (InFlight(cache[k])' <=> InFlight(status[k]))
    BY <1>u DEF Rebuilt, Booked, Here, InFlight
  <1>2. Heard(k)' BY <1>u, ItemFacts DEF Heard
  <1>3. Backed(k)' BY <1>u, <1>1, ItemFacts DEF Backed, Issuing
  <1>4. Calm(k) BY <1>u, <1>1 DEF Calm, Counts, Loose, Covered
  <1> QED BY <1>2, <1>3, <1>4 DEF Own

LEMMA OverOwn == ASSUME BudgetInv, NEW k \in Keys, Over(k) PROVE Own(k)
  <1>u. /\ UNCHANGED <<status, cache, pass, res, pub, led, found>>
        /\ over'[k] = status[k].seq /\ over[k] < status[k].seq
    BY ItemFacts DEF Over, book, TypeOK
  <1>1. /\ (Rebuilt' <=> Rebuilt) /\ (k \in Booked' <=> k \in Booked) /\ (Here(status[k])' <=> Here(status[k]))
        /\ (InFlight(status[k])' <=> InFlight(status[k])) /\ (InFlight(cache[k])' <=> InFlight(cache[k]))
    BY <1>u DEF Rebuilt, Booked, Here, InFlight
  <1>2. Heard(k)' BY <1>u, ItemFacts DEF Heard
  <1>3. Backed(k)' BY <1>u, <1>1, ItemFacts DEF Backed, Issuing
  <1>4. Calm(k) BY <1>u, <1>1 DEF Calm, Counts, Loose, Covered
  <1> QED BY <1>2, <1>3, <1>4 DEF Own

LEMMA DeleteOwn == ASSUME BudgetInv, NEW k \in Keys, Delete(k) PROVE Own(k)
  <1>u. UNCHANGED <<cache, over, pass, res, pub, led, found>> BY DEF Delete, book
  <1>s. status'[k].seq = status[k].seq /\ status'[k].answered = status[k].answered /\ status'[k].life = "gone"
    <2>1. status \in [Keys -> Statuses] BY ItemFacts DEF TypeOK
    <2>2. status'[k] = [status[k] EXCEPT !.life = "gone"] BY <2>1 DEF Delete
    <2>3. status[k] \in Statuses BY <2>1
    <2> QED BY <2>2, <2>3 DEF Statuses
  <1>1. (Rebuilt' <=> Rebuilt) /\ ~Here(status[k])' /\ ~InFlight(status[k])' BY <1>s, <1>u DEF Rebuilt, Here, InFlight
  <1>2. Heard(k)' BY <1>s, <1>u, ItemFacts DEF Heard
  <1>3. Backed(k)' BY <1>s, <1>u, <1>1, ItemFacts DEF Backed, Issuing
  <1>4. Calm(k) BY <1>1 DEF Calm, Counts, Loose
  <1> QED BY <1>2, <1>3, <1>4 DEF Own

\* The rebuild brings back what it listed, and misses nothing in flight.
LEMMA KeepsOwn == ASSUME BudgetInv, Keeps, NEW k \in Keys PROVE Own(k)
  <1>1. CASE RebuildList
    <2>u. /\ UNCHANGED <<status, cache, over, pass, res, pub>> /\ led = "start" /\ led' = "install"
          /\ found'[k] = IF InFlight(cache[k]) THEN cache[k].seq ELSE 0
      BY <1>1 DEF RebuildList, items, book
    <2>1. /\ ~Rebuilt /\ ~Rebuilt' /\ (k \in Booked' <=> k \in Booked) /\ (Here(status[k])' <=> Here(status[k]))
          /\ (InFlight(status[k])' <=> InFlight(status[k])) /\ (InFlight(cache[k])' <=> InFlight(cache[k]))
      BY <2>u DEF Rebuilt, Booked, Here, InFlight
    <2>2. Heard(k)' BY <2>u, ItemFacts DEF Heard
    <2>3. Backed(k)' BY <2>u, <2>1, ItemFacts DEF Backed, Issuing
    <2>4. Calm(k) BY <2>u, <2>1 DEF Calm, Counts
    <2> QED BY <2>2, <2>3, <2>4 DEF Own
  <1>2. CASE RebuildInstall
    <2>u. /\ UNCHANGED <<status, cache, over, pass>> /\ led = "install" /\ led' = "serving"
          /\ res'[k] = 0 /\ pub'[k] = found[k]
      BY <1>2, ItemFacts DEF RebuildInstall, items, Nothing, TypeOK
    <2>1. /\ ~Rebuilt /\ Rebuilt' /\ (Here(status[k])' <=> Here(status[k]))
          /\ (InFlight(status[k])' <=> InFlight(status[k]))
      BY <2>u DEF Rebuilt, Here, InFlight
    <2>2. ~Issuing(k) /\ ~Issuing(k)' BY <2>u, <2>1, ItemFacts DEF Issuing, KeyInv, Applying
    <2>3. Heard(k)' BY <2>u, ItemFacts DEF Heard
    <2>4. Backed(k)' BY <2>u, <2>1, <2>2, ItemFacts DEF Backed
    <2>5. InFlight(status[k]) => found[k] = status[k].seq BY <2>u, <2>1, ItemFacts DEF KeyInv, Listed
    <2>6. ~Loose(k)' BY <2>u, <2>1, <2>5 DEF Loose, Covered
    <2>7. Counts(k)' => Counts(k)
      <3>1. k \in Booked' => found[k] # 0 BY <2>u DEF Booked
      <3> QED BY <2>u, <2>1, <3>1 DEF Counts
    <2> QED BY <2>3, <2>4, <2>6, <2>7 DEF Own, Calm
  <1>3. CASE AuditRead
    <2>u. UNCHANGED <<status, cache, over, pass, res, pub>> /\ led = "serving" /\ led' = "drop"
      BY <1>3 DEF AuditRead, items, book
    <2>1. /\ Rebuilt /\ Rebuilt' /\ (k \in Booked' <=> k \in Booked) /\ (Here(status[k])' <=> Here(status[k]))
          /\ (InFlight(status[k])' <=> InFlight(status[k])) /\ (InFlight(cache[k])' <=> InFlight(cache[k]))
      BY <2>u DEF Rebuilt, Booked, Here, InFlight
    <2>2. Heard(k)' BY <2>u, ItemFacts DEF Heard
    <2>3. Backed(k)' BY <2>u, <2>1, ItemFacts DEF Backed, Issuing
    <2>4. Calm(k) BY <2>u, <2>1 DEF Calm, Counts, Loose, Covered
    <2> QED BY <2>2, <2>3, <2>4 DEF Own
  <1>4. CASE AuditDrop
    <2>u. /\ UNCHANGED <<status, cache, over, pass, res>> /\ led = "drop" /\ led' = "serving"
          /\ pub'[k] = IF found[k] # 0 /\ res[k] = 0 /\ pub[k] = found[k] /\ k \in aged THEN 0 ELSE pub[k]
      BY <1>4 DEF AuditDrop, items
    <2>1. /\ Rebuilt /\ Rebuilt' /\ (Here(status[k])' <=> Here(status[k]))
          /\ (InFlight(status[k])' <=> InFlight(status[k])) /\ (InFlight(cache[k])' <=> InFlight(cache[k]))
          /\ (k \in Booked' => k \in Booked)
      BY <2>u DEF Rebuilt, Booked, Here, InFlight
    <2>2. Heard(k)' BY <2>u, ItemFacts DEF Heard
    <2>3. Backed(k)' BY <2>u, <2>1, ItemFacts DEF Backed, Issuing
    <2>4. InFlight(status[k]) => found[k] # status[k].seq BY <2>u, ItemFacts DEF KeyInv, Audited
    <2>5. InFlight(status[k]) /\ Covered(k) => Covered(k)' BY <2>u, <2>4 DEF Covered
    <2>6. Calm(k) BY <2>u, <2>1, <2>5 DEF Calm, Counts, Loose
    <2> QED BY <2>2, <2>3, <2>6 DEF Own
  <1> QED BY <1>1, <1>2, <1>3, <1>4 DEF Keeps

LEMMA LeaderOwn == ASSUME BudgetInv, LeaderChange, NEW k \in Keys PROVE Own(k)
  <1>u. /\ UNCHANGED <<status, over>> /\ cache'[k] = status[k] /\ pass'[k] = Idle
        /\ res'[k] = 0 /\ pub'[k] = 0 /\ led' = "start"
    BY ItemFacts DEF LeaderChange, Nothing, TypeOK
  <1>i. pass'[k].pc = "idle" BY <1>u DEF Idle
  <1>1. /\ ~Rebuilt' /\ k \notin Booked' /\ (Here(status[k])' <=> Here(status[k]))
        /\ (InFlight(status[k])' <=> InFlight(status[k])) /\ (InFlight(cache[k])' <=> InFlight(status[k]))
    BY <1>u DEF Rebuilt, Booked, Here, InFlight
  <1>2. Heard(k)' BY <1>u, ItemFacts DEF Heard
  <1>3. Backed(k)' BY <1>u, <1>i DEF Backed, Issuing
  <1>4. Calm(k) BY <1>u, <1>1 DEF Calm, Counts
  <1> QED BY <1>2, <1>3, <1>4 DEF Own

-----------------------------------------------------------------------------
\* The steps of one item leave the others alone.
LEMMA OthersOwn ==
  ASSUME BudgetInv, NEW k \in Keys, NEW j \in Keys \ {k},
         \/ Plan(k) \/ Goes(k) \/ ApplyCut(k) \/ PublishFails(k)
         \/ Lapse(k) \/ LapseFirst(k) \/ Age(k)
         \/ Inform(k) \/ Over(k) \/ Redownload(k) \/ Delete(k)
  PROVE  Own(j)
  <1>t. TypeOK /\ Heard(j) /\ Backed(j) /\ j \in Keys /\ j # k BY ItemFacts
  <1>b. Answered(k, pass[k].ans) \/ Published(k, pass[k].pub) => res'[j] = res[j] /\ pub'[j] = pub[j]
    <2>1. pass[k].ans \in Seqs0 /\ pass[k].pub \in Seqs0 BY <1>t DEF TypeOK, Passes
    <2> QED BY <1>t, <2>1, AnsweredBook, PublishedBook
  <1>p. \A next, ans, publish : Begins(k, next, ans, publish) => pass'[j] = pass[j]
    BY <1>t DEF Begins, TypeOK
  <1>1. pass'[j] = pass[j]
    BY <1>t, <1>p DEF Plan, Goes, PlanInFlight, PlanNothing, PlanSearch, PassGone, Apply, TellAnswered,
       PublishTask, ApplyCut, PublishFails, Lapse, LapseFirst, Age, Inform, Over, Redownload, Delete,
       Effects, Ends, TypeOK
  <1>2. status'[j] = status[j] /\ cache'[j] = cache[j] /\ over'[j] = over[j]
    BY <1>t DEF Plan, Goes, PlanInFlight, PlanNothing, PlanSearch, PassGone, Apply, TellAnswered,
       PublishTask, ApplyCut, PublishFails, Lapse, LapseFirst, Age, Inform, Over, Redownload, Delete,
       Writes, items, TypeOK
  <1>3. res'[j] = res[j] /\ pub'[j] = pub[j]
    BY <1>t, <1>b DEF Plan, Goes, PlanInFlight, PlanNothing, PlanSearch, PassGone, Apply, TellAnswered,
       PublishTask, ApplyCut, PublishFails, Lapse, LapseFirst, Age, Inform, Over, Redownload, Delete,
       Reserve, Refuse, Free, book, TypeOK
  <1>4. UNCHANGED <<led, found>>
    BY DEF Plan, Goes, PlanInFlight, PlanNothing, PlanSearch, PassGone, Apply, TellAnswered,
       PublishTask, ApplyCut, PublishFails, Lapse, LapseFirst, Age, Inform, Over, Redownload, Delete
  <1> QED BY <1>t, <1>1, <1>2, <1>3, <1>4, Untouched

LEMMA InitBudget == Init => BudgetInv
  <1> SUFFICES ASSUME Init PROVE BudgetInv OBVIOUS
  <1>1. IInv BY InitIInv
  <1>2. ASSUME NEW k \in Keys
        PROVE  /\ status[k] = New /\ cache[k] = New /\ over[k] = 0 /\ res[k] = 0 /\ pub[k] = 0
               /\ pass[k].pc = "idle" /\ found[k] = 0 /\ ~InFlight(New)
    BY <1>2 DEF Init, Nothing, Idle, New, InFlight
  <1>3. ASSUME NEW k \in Keys PROVE Heard(k) /\ Backed(k) /\ ~Counts(k)
    BY <1>2, <1>3 DEF Heard, Backed, Issuing, Counts, Booked, New
  <1>4. Counted = {} /\ ~Rebuilt BY <1>3 DEF Counted, Rebuilt, Init
  <1>5. Cardinality(Counted) = 0 BY <1>4, FS_EmptySet
  <1>6. Budget \in Nat /\ faults \in Nat BY <1>1, Numbers DEF IInv
  <1> QED BY <1>1, <1>3, <1>4, <1>5, <1>6 DEF BudgetInv, SizeInv

\* admit's limit is at most the budget, and below it by the redownloads that wait.
LEMMA RoomFacts ==
  ASSUME TypeOK, NEW k \in Keys, Room(k)
  PROVE  /\ Rebuilt /\ Cardinality(Booked \ {k}) < Budget
         /\ Cardinality(Booked \ {k}) \in Nat /\ Cardinality(first \ {k}) \in Nat
         /\ k \notin redo => Cardinality(Booked \ {k}) < Budget - Cardinality(first \ {k})
  <1>1. IsFiniteSet(first \ {k}) /\ IsFiniteSet(Booked \ {k})
    <2>1. first \ {k} \in SUBSET Keys /\ Booked \ {k} \in SUBSET Keys BY DEF TypeOK, Booked
    <2> QED BY <2>1, LedgerAssumption, FS_Subset
  <1>2. Cardinality(Booked \ {k}) \in Nat /\ Cardinality(first \ {k}) \in Nat BY <1>1, FS_CardinalityType
  <1>3. Budget \in Nat BY Numbers
  <1> QED BY <1>2, <1>3 DEF Room

LEMMA SearchSizes ==
  ASSUME BudgetInv, NEW k \in Keys, PlanSearch(k), TypeOK'
  PROVE  Heard(k)' /\ Backed(k)' /\ SizeInv'
  <1>t. /\ TypeOK /\ SizeInv /\ pass[k].pc = "idle" /\ Here(cache[k]) /\ ~InFlight(Closed(k))
        /\ clock < MaxSeq /\ UNCHANGED <<status, cache, over, redo, led, found, faults>>
    BY ItemFacts DEF PlanSearch, BudgetInv
  <1>o. \A j \in Keys \ {k} : Calm(j) BY OthersOwn DEF Plan, Own
  <1>f. faults \in Nat BY <1>t, Numbers
  <1>1. CASE /\ Reserve(k, clock + 1)
             /\ Begins(k, [Closed(k) EXCEPT !.seq = clock + 1], IF Closes(k) THEN cache[k].seq ELSE 0, clock + 1)
    <2>1. clock + 1 \in Seqs0 BY <1>t, LedgerAssumption DEF TypeOK, Seqs0
    <2>2. Heard(k)' /\ Backed(k)' /\ (Rebuilt' /\ Loose(k)' => Loose(k)) BY <1>1, <1>t, <2>1, ReserveOwn
    <2>3. Rebuilt /\ Cardinality(Booked \ {k}) < Budget BY <1>1, <1>t, RoomFacts DEF Reserve
    <2>4. Rebuilt' BY <1>t, <2>3 DEF Rebuilt
    <2> QED BY <1>o, <1>t, <2>2, <2>3, <2>4, ReserveSizes
  <1>2. CASE Refuse(k) /\ Begins(k, Closed(k), Owed(k), 0)
    <2>1. UNCHANGED <<res, pub>> BY <1>2 DEF Refuse
    <2>2. Own(k) BY <1>2, <1>t, <2>1, ClosingOwn
    <2>3. \A j \in Keys : Calm(j) BY <1>o, <2>2 DEF Own
    <2> QED BY <1>f, <1>t, <2>2, <2>3, CalmSizes DEF Own
  <1> QED BY <1>1, <1>2 DEF PlanSearch

LEMMA NextBudget == ASSUME BudgetInv, [Next]_vars PROVE BudgetInv'
  <1>t. IInv /\ TypeOK /\ SizeInv /\ IInv' /\ TypeOK' /\ faults \in Nat
    <2>1. IInv /\ SizeInv BY DEF BudgetInv
    <2>2. IInv' BY <2>1, NextIInv
    <2> QED BY <2>1, <2>2, Numbers DEF IInv
  <1>c. ASSUME \A j \in Keys : Own(j), faults' = faults PROVE BudgetInv'
    <2>1. SizeInv' BY <1>c, <1>t, CalmSizes DEF Own
    <2> QED BY <1>c, <1>t, <2>1 DEF BudgetInv, Own
  <1>s. ASSUME NEW k \in Keys, Own(k), faults' = faults,
               \/ Plan(k) \/ Goes(k) \/ ApplyCut(k) \/ PublishFails(k)
               \/ Lapse(k) \/ LapseFirst(k) \/ Age(k)
               \/ Inform(k) \/ Over(k) \/ Redownload(k) \/ Delete(k)
        PROVE  BudgetInv'
    <2>1. \A j \in Keys \ {k} : Own(j) BY <1>s, OthersOwn
    <2> QED BY <1>s, <1>c, <2>1
  <1>1. ASSUME NEW k \in Keys, Plan(k) PROVE BudgetInv'
    <2>1. CASE PlanInFlight(k) BY <1>1, <1>s, <2>1, PlanInFlightOwn DEF PlanInFlight
    <2>2. CASE PlanNothing(k)
      <3>1. Own(k) BY <2>2, ClosingOwn DEF PlanNothing, items, book
      <3> QED BY <1>1, <1>s, <2>2, <3>1 DEF PlanNothing
    <2>3. CASE PlanSearch(k)
      <3>1. Heard(k)' /\ Backed(k)' /\ SizeInv' BY <1>t, <2>3, SearchSizes
      <3>2. \A j \in Keys \ {k} : Own(j) BY <1>1, OthersOwn
      <3> QED BY <1>t, <3>1, <3>2 DEF BudgetInv, Own
    <2>4. CASE PassGone(k) BY <1>1, <1>s, <2>4, PassGoneOwn DEF PassGone
    <2> QED BY <1>1, <2>1, <2>2, <2>3, <2>4 DEF Plan
  <1>2. ASSUME NEW k \in Keys, Goes(k) PROVE BudgetInv'
    <2>1. CASE Apply(k) BY <1>2, <1>s, <2>1, ApplyOwn DEF Apply
    <2>2. CASE TellAnswered(k) BY <1>2, <1>s, <2>2, TellOwn DEF TellAnswered
    <2>3. CASE PublishTask(k) BY <1>2, <1>s, <2>3, PublishOwn DEF PublishTask
    <2> QED BY <1>2, <2>1, <2>2, <2>3 DEF Goes
  <1>3. ASSUME NEW k \in Keys, ApplyCut(k) \/ PublishFails(k) PROVE BudgetInv'
    <2>1. Heard(k)' /\ Backed(k)' /\ (Counts(k)' => Counts(k)) /\ (Rebuilt' => Rebuilt) BY <1>3, CutOwn
    <2>2. \A j \in Keys \ {k} : Own(j) BY <1>3, OthersOwn
    <2>3. faults' = faults + 1 BY <1>3 DEF ApplyCut, PublishFails, Fault
    <2>4. SizeInv' BY <1>t, <2>1, <2>2, <2>3, FaultSizes DEF Own
    <2> QED BY <1>t, <2>1, <2>2, <2>4 DEF BudgetInv, Own
  <1>4. ASSUME NEW k \in Keys, Lapse(k) \/ Inform(k) \/ Over(k) \/ Delete(k) PROVE BudgetInv'
    <2>1. Own(k) BY <1>4, LapseOwn, InformOwn, OverOwn, DeleteOwn
    <2>2. faults' = faults BY <1>4 DEF Lapse, Inform, Over, Delete
    <2> QED BY <1>4, <1>s, <2>1, <2>2
  <1>5. ASSUME NEW k \in Keys, LapseFirst(k) \/ Age(k) \/ Redownload(k) PROVE BudgetInv'
    <2>1. UNCHANGED <<status, cache, over, pass, res, pub, found, led, faults>>
      BY <1>5 DEF LapseFirst, Age, Redownload, items, book
    <2>2. \A j \in Keys : Own(j) BY <2>1, ItemFacts, Untouched
    <2> QED BY <1>c, <2>1, <2>2
  <1>6. CASE Keeps
    <2>1. faults' = faults BY <1>6 DEF Keeps, RebuildList, RebuildInstall, AuditRead, AuditDrop
    <2> QED BY <1>6, <1>c, <2>1, KeepsOwn
  <1>7. CASE LeaderChange
    <2>1. faults' = faults BY <1>7 DEF LeaderChange
    <2> QED BY <1>7, <1>c, <2>1, LeaderOwn
  <1>8. CASE UNCHANGED vars
    <2>1. UNCHANGED <<status, cache, over, pass, res, pub, found, led, faults>> BY <1>8 DEF vars, items, book
    <2>2. \A j \in Keys : Own(j) BY <2>1, ItemFacts, Untouched
    <2> QED BY <1>c, <2>1, <2>2
  <1> QED BY <1>1, <1>2, <1>3, <1>4, <1>5, <1>6, <1>7, <1>8 DEF Next

\* The items that exist hold at most the budget's slots, and one more for each pass
\* that lost its effects (ledger.go's admit, Published, Answered, rebuild and audit),
\* for any set of items, any budget and any number of faults and leaders.
THEOREM BudgetKept == Spec => []WithinBudget
  <1>1. BudgetInv => WithinBudget
    <2> SUFFICES ASSUME BudgetInv PROVE WithinBudget OBVIOUS
    <2>1. TypeOK /\ SizeInv BY DEF BudgetInv, IInv
    <2>2. {k \in Booked : Here(status[k])} \in SUBSET Counted BY DEF Counted, Counts, Booked
    <2>3. /\ IsFiniteSet({k \in Booked : Here(status[k])})
          /\ Cardinality({k \in Booked : Here(status[k])}) <= Cardinality(Counted)
      BY <2>2, FiniteParts, FS_Subset
    <2>4. Cardinality({k \in Booked : Here(status[k])}) \in Nat BY <2>3, FS_CardinalityType
    <2>5. Cardinality(Counted) <= Budget + faults BY <2>1 DEF SizeInv
    <2> QED BY <2>1, <2>3, <2>4, <2>5, Numbers DEF WithinBudget
  <1> QED BY <1>1, InitBudget, NextBudget, PTL DEF Spec

-----------------------------------------------------------------------------
(* The slot of a waiting redownload.                                       *)

\* Only an admission reserves.
LEMMA ReservesOnly ==
  ASSUME TypeOK, [Next]_vars, NEW k \in Keys, res[k] = 0, res'[k] # 0
  PROVE  Room(k) /\ Booked' = Booked \cup {k}
  <1>1. ASSUME NEW i \in Keys, Reserve(i, clock + 1) PROVE Room(k) /\ Booked' = Booked \cup {k}
    <2>1. res' = [res EXCEPT ![i] = clock + 1] /\ pub' = pub /\ Room(i) BY <1>1 DEF Reserve
    <2>2. i = k BY <2>1 DEF TypeOK
    <2>3. \A j \in Keys : res'[j] = IF j = k THEN clock + 1 ELSE res[j] BY <2>1, <2>2 DEF TypeOK
    <2>4. clock + 1 # 0 BY LedgerAssumption DEF TypeOK, Seqs0
    <2> QED BY <2>1, <2>2, <2>3, <2>4 DEF Booked
  <1>2. ASSUME UNCHANGED res \/ res' = Nothing PROVE FALSE BY <1>2 DEF Nothing
  <1>3. ASSUME NEW i \in Keys, res' = [res EXCEPT ![i] = 0] PROVE FALSE BY <1>3 DEF TypeOK
  <1>4. ASSUME NEW i \in Keys, Plan(i) PROVE Room(k) /\ Booked' = Booked \cup {k}
    BY <1>1, <1>2, <1>3, <1>4
    DEF Plan, PlanInFlight, PlanNothing, PlanSearch, PassGone, Refuse, Free, book
  <1>5. ASSUME NEW i \in Keys, Goes(i) PROVE FALSE
    BY <1>2, <1>3, <1>5 DEF Goes, Apply, TellAnswered, PublishTask, Answered, Published, Free, book
  <1>6. ASSUME NEW i \in Keys,
               \/ ApplyCut(i) \/ PublishFails(i) \/ Lapse(i) \/ LapseFirst(i) \/ Age(i)
               \/ Inform(i) \/ Over(i) \/ Redownload(i) \/ Delete(i)
        PROVE  FALSE
    BY <1>2, <1>3, <1>6
    DEF ApplyCut, PublishFails, Lapse, LapseFirst, Age, Inform, Over, Redownload, Delete, book
  <1>7. CASE Keeps \/ LeaderChange \/ UNCHANGED vars
    BY <1>2, <1>7 DEF Keeps, RebuildList, RebuildInstall, AuditRead, AuditDrop, LeaderChange, vars, book
  <1> QED BY <1>4, <1>5, <1>6, <1>7 DEF Next

\* A routine search never takes the slot that is free for a waiting redownload
\* (AdmitFirst and admit), for any set of items and any budget.
THEOREM RedownloadsGoFirst == Spec => RedownloadKeepsItsSlot
  <1>1. ASSUME IInv, [Next]_vars, NEW j \in first, NEW k \in Keys \ redo,
               Cardinality(Booked \ {j}) < Budget, res[k] = 0, res'[k] # 0
        PROVE  Cardinality(Booked' \ {j}) < Budget
    <2>1. TypeOK /\ k \in Keys /\ k \notin redo BY <1>1 DEF IInv
    <2>2. Room(k) /\ Booked' = Booked \cup {k} BY <1>1, <2>1, ReservesOnly
    <2>3. CASE j = k
      <3>1. Booked' \ {j} = Booked \ {j} BY <2>2, <2>3
      <3> QED BY <1>1, <3>1
    <2>4. CASE j # k
      <3>1. /\ Cardinality(Booked \ {k}) < Budget - Cardinality(first \ {k})
            /\ Cardinality(Booked \ {k}) \in Nat /\ Cardinality(first \ {k}) \in Nat
        BY <2>1, <2>2, RoomFacts
      <3>2. IsFiniteSet(first \ {k}) /\ IsFiniteSet(Booked \ {k})
        <4>1. first \ {k} \in SUBSET Keys /\ Booked \ {k} \in SUBSET Keys BY <2>1 DEF TypeOK, Booked
        <4> QED BY <4>1, LedgerAssumption, FS_Subset
      <3>3. Cardinality(first \ {k}) # 0 BY <2>4, <3>2, FS_EmptySet
      <3>4. Booked' \ {j} \in SUBSET ((Booked \ {k}) \cup {k}) BY <2>2
      <3>5. /\ IsFiniteSet((Booked \ {k}) \cup {k}) /\ Cardinality((Booked \ {k}) \cup {k}) \in Nat
            /\ Cardinality((Booked \ {k}) \cup {k}) <= Cardinality(Booked \ {k}) + 1
        BY <3>2, OneMore
      <3>6. IsFiniteSet(Booked' \ {j}) /\ Cardinality(Booked' \ {j}) <= Cardinality((Booked \ {k}) \cup {k})
        BY <3>4, <3>5, FS_Subset
      <3>7. Cardinality(Booked' \ {j}) \in Nat /\ Budget \in Nat BY <2>1, <3>6, FS_CardinalityType, Numbers
      <3> QED BY <3>1, <3>3, <3>5, <3>6, <3>7
    <2> QED BY <2>3, <2>4
  <1>2. ASSUME IInv, [Next]_vars
        PROVE  [\A j \in first, k \in Keys \ redo :
                  /\ Cardinality(Booked \ {j}) < Budget
                  /\ res[k] = 0 /\ res'[k] # 0
                  => Cardinality(Booked' \ {j}) < Budget]_vars
    BY <1>1, <1>2
  <1> QED BY InitIInv, NextIInv, <1>2, PTL DEF Spec, RedownloadKeepsItsSlot
=============================================================================
