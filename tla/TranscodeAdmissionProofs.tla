---------------------- MODULE TranscodeAdmissionProofs ----------------------
(* Proofs about TranscodeAdmission, for any files, slots and window and any *)
(* number of faults and leaders: no slot is given twice, and no view that   *)
(* arrives late frees one.                                                  *)
EXTENDS TranscodeAdmission, FiniteSetTheorems, TLAPS

-----------------------------------------------------------------------------
(* Views. A stored status only moves on: its seq never falls and, at the    *)
(* same seq, its rank never does. A view is a status the file once had, so  *)
(* a view of a file in flight that shows it elsewhere has a smaller seq.    *)

NoLater(u, v) == u.seq < v.seq \/ (u.seq = v.seq /\ rank(u.phase) <= rank(v.phase))
Past(u, v) == u = Absent \/ v = Absent \/ NoLater(u, v)

InFlight(v) == slotPhase(v.phase)
Aside(u) == u # Absent /\ ~InFlight(u)

\* Views have sequence numbers and phases, and only the absent one is gone.
LEMMA ViewFacts ==
    ASSUME NEW v \in Views
    PROVE  /\ v.seq \in Nat
           /\ v # Absent => v.phase \in Phases /\ v.seq \in 0 .. MaxSeq
           /\ InFlight(v) => v # Absent
           /\ rank(v.phase) \in 1 .. 3
  BY AdmissionAssumption DEF Views, Absent, Phases, InFlight, slotPhase, rank

LEMMA AbsentView == Absent \in Views /\ ~InFlight(Absent)
  BY DEF Views, Absent, InFlight, slotPhase

\* The order of views.
LEMMA PastTrans ==
    ASSUME NEW u \in Views, NEW v \in Views, NEW w \in Views, v # Absent, Past(u, v), Past(v, w)
    PROVE  Past(u, w)
  BY ViewFacts DEF Past, NoLater

LEMMA PastSelf == ASSUME NEW u \in Views PROVE Past(u, u)
  BY ViewFacts DEF Past, NoLater

\* A past view of a file in flight that shows it elsewhere is of an earlier seq.
LEMMA AsideEarlier ==
    ASSUME NEW u \in Views, NEW v \in Views, Past(u, v), Aside(u), InFlight(v)
    PROVE  u.seq < v.seq
<1>1. u # Absent /\ v # Absent /\ u.phase \in Phases /\ v.phase \in Phases
  BY ViewFacts DEF Aside
<1>2. rank(u.phase) = 3 /\ rank(v.phase) < 3
  BY <1>1 DEF Aside, InFlight, slotPhase, rank, Phases
<1> QED BY <1>1, <1>2, ViewFacts DEF Past, NoLater

\* observeLocked: of two views the later is kept.
LEMMA OlderFacts ==
    ASSUME NEW v \in Views, NEW cur \in Views
    PROVE  /\ cur # Absent /\ v.seq < cur.seq => Older(v, cur)
           /\ cur # Absent /\ ~Older(v, cur) => cur.seq <= v.seq
           /\ v # Absent /\ Past(cur, v) => ~Older(v, cur)
           /\ cur.seq < v.seq => ~Older(v, cur)
  BY ViewFacts DEF Older, Past, NoLater

\* What a pass may apply is a view that is no earlier; a file gets in flight by a
\* dispatch grant alone.
LEMMA PlansFacts ==
    ASSUME NEW a \in Views, a # Absent, NEW kind, NEW swaps \in BOOLEAN, NEW v \in Plans(a, kind, swaps)
    PROVE  /\ v \in Views /\ v # Absent
           /\ Past(a, v)
           /\ InFlight(v) /\ ~InFlight(a) => kind = "dispatch"
           /\ InFlight(a) /\ a.phase = "running" /\ InFlight(v) => v.phase = "running"
<1>0. a.seq \in 0 .. MaxSeq /\ a.phase \in Phases /\ MaxSeq \in Nat
  BY ViewFacts, AdmissionAssumption
<1>1. \A n \in Seqs(a) : n \in 0 .. MaxSeq /\ a.seq <= n
  BY <1>0 DEF Seqs
<1>2. Unaided(a.phase) \subseteq Phases
  BY <1>0 DEF Unaided, Phases
<1>3. \A p \in Unaided(a.phase) : rank(a.phase) <= rank(p)
  BY <1>0 DEF Unaided, Phases, rank
<1>4. \A p \in Unaided(a.phase) : slotPhase(p) => slotPhase(a.phase)
  BY <1>0 DEF Unaided, Phases, slotPhase
<1>5. a.phase = "running" => "queued" \notin Unaided(a.phase)
  BY DEF Unaided, Phases
<1>6. "gone" \notin Phases
  BY DEF Phases
<1>7. CASE v \in [seq : Seqs(a), phase : Unaided(a.phase)]
  <2>1. v.seq \in 0 .. MaxSeq /\ a.seq <= v.seq /\ v.phase \in Phases /\ rank(a.phase) <= rank(v.phase)
        /\ v = [seq |-> v.seq, phase |-> v.phase]
    BY <1>1, <1>2, <1>3, <1>7
  <2>2. v \in Views /\ v # Absent
    BY <1>6, <2>1 DEF Views, Absent
  <2>3. Past(a, v)
    BY <1>0, <2>1 DEF Past, NoLater
  <2> QED BY <1>4, <1>5, <1>7, <2>2, <2>3 DEF InFlight, slotPhase
<1>8. CASE a.phase = "out" /\ v \in [seq : Seqs(a), phase : {"planned"}]
  <2>1. v.seq \in 0 .. MaxSeq /\ a.seq <= v.seq /\ v.phase = "planned"
        /\ v = [seq |-> v.seq, phase |-> v.phase]
    BY <1>1, <1>8
  <2>2. v \in Views /\ v # Absent
    BY <1>6, <2>1 DEF Views, Absent, Phases
  <2>3. Past(a, v)
    BY <1>0, <1>8, <2>1 DEF Past, NoLater, rank
  <2> QED BY <1>8, <2>1, <2>2, <2>3 DEF InFlight, slotPhase
<1>9. CASE kind = "dispatch" /\ a.phase = "planned" /\ v \in [seq : Issued(a), phase : {"queued"}]
  <2>1. v.seq \in 0 .. MaxSeq /\ a.seq < v.seq /\ v.phase = "queued"
        /\ v = [seq |-> v.seq, phase |-> v.phase]
    BY <1>0, <1>1, <1>9 DEF Issued
  <2>2. v \in Views /\ v # Absent
    BY <1>6, <2>1 DEF Views, Absent, Phases
  <2>3. Past(a, v)
    BY <1>0, <2>1 DEF Past, NoLater
  <2> QED BY <1>9, <2>1, <2>2, <2>3 DEF InFlight, slotPhase
<1> QED BY <1>7, <1>8, <1>9 DEF Plans

-----------------------------------------------------------------------------
(* Types.                                                                  *)

LEMMA ListsFacts ==
    /\ Listed = 4 /\ Scanned = 5
    /\ Lists[1] = "planned" /\ Lists[2] = "queued" /\ Lists[3] = "running" /\ Lists[4] = "swapping"
  BY DEF Listed, Scanned, Lists

LEMMA NothingType == Nothing \in [Files -> Views] /\ NoScan \in Scans
  BY AbsentView DEF Nothing, NoScan, Scans

LEMMA GrantFacts ==
    /\ NoGrant \in Grants /\ NoGrant.kind = "none" /\ NoGrant.inUse = FALSE
    /\ \A kind \in {"window", "dispatch"} : Grant(kind) \in Grants /\ Grant(kind).kind = kind /\ ~Grant(kind).inUse
    /\ \A g \in Grants : /\ g.inUse \in BOOLEAN /\ g.kind \in {"none", "window", "dispatch"}
                         /\ g # NoGrant => g.kind # "none"
                         /\ g.inUse => g.kind # "none"
<1>1. NoGrant \in Grants /\ NoGrant.kind = "none" /\ NoGrant.inUse = FALSE
  BY DEF Grants, NoGrant
<1>2. \A kind \in {"window", "dispatch"} : Grant(kind) \in Grants /\ Grant(kind).kind = kind /\ ~Grant(kind).inUse
  BY DEF Grants, Grant
<1>3. ASSUME NEW g \in Grants
      PROVE  /\ g.inUse \in BOOLEAN /\ g.kind \in {"none", "window", "dispatch"}
             /\ g # NoGrant => g.kind # "none"
             /\ g.inUse => g.kind # "none"
  <2>1. CASE g = NoGrant
    BY <1>1, <2>1
  <2>2. CASE g \in [kind : {"window", "dispatch"}, inUse : BOOLEAN]
    BY <2>2
  <2> QED BY <2>1, <2>2 DEF Grants
<1> QED BY <1>1, <1>2, <1>3

\* What the ledger makes of a grant is a grant; one in use outlives the views.
LEMMA StoredGrantFacts ==
    ASSUME TypeOK, NEW f \in Files, NEW v
    PROVE  /\ StoredGrant(f, v) \in {grant[f], NoGrant} /\ grant[f] \in Grants
           /\ grant[f].inUse => StoredGrant(f, v) = grant[f]
           /\ Returned(f) \in {grant[f], NoGrant}
  BY DEF TypeOK, StoredGrant, Returned

\* What a pass applies is a view the file moves on to.
LEMMA AppliesFacts ==
    ASSUME TypeOK, NEW f \in Files, NEW v \in Applies(f)
    PROVE  /\ ~Landed(f) /\ api[f] # Absent /\ cache[f] = api[f]
           /\ v \in Views /\ v # Absent /\ Past(api[f], v)
           /\ InFlight(v) /\ ~InFlight(api[f]) => grant[f].inUse /\ grant[f].kind = "dispatch"
           /\ api[f].phase = "running" /\ InFlight(v) => v.phase = "running"
<1>1. ~Landed(f) /\ api[f] # Absent /\ cache[f] = api[f] /\ v \in Plans(api[f], Held(f), f \in Swapped)
  BY DEF Applies
<1>2. api[f] \in Views /\ (f \in Swapped) \in BOOLEAN
  BY DEF TypeOK
<1>3. /\ v \in Views /\ v # Absent /\ Past(api[f], v)
      /\ InFlight(v) /\ ~InFlight(api[f]) => Held(f) = "dispatch"
      /\ InFlight(api[f]) /\ api[f].phase = "running" /\ InFlight(v) => v.phase = "running"
  BY <1>1, <1>2, PlansFacts
<1>4. api[f].phase = "running" => InFlight(api[f])
  BY DEF InFlight, slotPhase
<1>5. Held(f) = "dispatch" => grant[f].inUse /\ grant[f].kind = "dispatch"
  BY DEF Held
<1> QED BY <1>1, <1>3, <1>4, <1>5

LEMMA TypeStep == TypeOK /\ [Next]_vars => TypeOK'
<1> SUFFICES ASSUME TypeOK, [Next]_vars PROVE TypeOK'
  OBVIOUS
<1> USE AdmissionAssumption
<1>0. CASE UNCHANGED vars
  BY <1>0 DEF vars, TypeOK
<1>1. CASE AdmissionPass
  <2>1. grant' \in [Files -> Grants]
    BY <1>1, GrantFacts DEF AdmissionPass, TypeOK
  <2> QED BY <1>1, <2>1 DEF AdmissionPass, TypeOK, world, led, bounds
<1>2. ASSUME NEW f \in Files, Passing(f) PROVE TypeOK'
  <2>1. CASE PassGone(f)
    BY <2>1, AbsentView, GrantFacts DEF PassGone, TypeOK, world, led, bounds
  <2>2. CASE TakeGrant(f)
    <3>1. [grant[f] EXCEPT !.inUse = TRUE] \in Grants
      BY <2>2 DEF TakeGrant, TypeOK, Grants, NoGrant
    <3>2. grant' \in [Files -> Grants]
      BY <2>2, <3>1 DEF TakeGrant, TypeOK
    <3> QED BY <2>2, <3>2 DEF TakeGrant, TypeOK, world, led, bounds
  <2>3. CASE Apply(f)
    <3>1. PICK v \in Applies(f) : Stores(f, v) /\ landed' = [landed EXCEPT ![f] = v] /\ lost' = Lost(f, v, FALSE)
      BY <2>3 DEF Apply
    <3>2. v \in Views
      BY AppliesFacts
    <3> QED BY <2>3, <3>1, <3>2 DEF Apply, Stores, Lost, TypeOK, ledger, led, bounds
  <2>4. CASE ApplyLost(f)
    <3>1. PICK v \in Applies(f) : Stores(f, v) /\ lost' = Lost(f, v, TRUE)
      BY <2>4 DEF ApplyLost
    <3>2. v \in Views
      BY AppliesFacts
    <3>3. grant' \in [Files -> Grants]
      BY <2>4, GrantFacts, StoredGrantFacts DEF ApplyLost, TypeOK
    <3> QED BY <2>4, <3>1, <3>2, <3>3 DEF ApplyLost, Stores, Lost, Fault, TypeOK, led
  <2>5. CASE Aborts(f)
    <3>1. grant' \in [Files -> Grants]
      BY <2>5, GrantFacts, StoredGrantFacts DEF Aborts, TypeOK
    <3> QED BY <2>5, <3>1 DEF Aborts, TypeOK, world, led, bounds
  <2>6. ASSUME NEW v \in Views, Told(f, v)
        PROVE  known' \in [Files -> Views] /\ grant' \in [Files -> Grants] /\ scan' \in Scans
    <3>1. known' \in [Files -> Views]
      BY <2>6 DEF Told, TypeOK
    <3>2. grant' \in [Files -> Grants]
      BY <2>6, GrantFacts, StoredGrantFacts DEF Told, TypeOK
    <3>3. scan' \in Scans
      BY <2>6 DEF Told, TypeOK, Scans
    <3> QED BY <3>1, <3>2, <3>3
  <2>7. CASE Quiet(f)
    <3>1. cache[f] \in Views
      BY DEF TypeOK
    <3> QED BY <2>6, <2>7, <3>1 DEF Quiet, TypeOK, world, bounds
  <2>8. CASE Observe(f)
    <3>1. landed[f] \in Views
      BY DEF TypeOK
    <3> QED BY <2>6, <2>8, <3>1, AbsentView DEF Observe, TypeOK, world, bounds
  <2> QED BY <1>2, <2>1, <2>2, <2>3, <2>4, <2>5, <2>7, <2>8 DEF Passing
<1>3. CASE Rebuilding
  <2>1. ASSUME NEW pc \in 0 .. 5, NEW files \in SUBSET Files, NEW views \in [Files -> Views],
               Reads(pc, files, views)
        PROVE  TypeOK'
    <3>1. scan' \in Scans
      BY <2>1, AbsentView DEF Reads, TypeOK, Scans
    <3> QED BY <2>1, <3>1 DEF Reads, TypeOK, world, ledger, bounds
  <2>2. CASE ListPhase
    <3>1. scan.pc \in 0 .. 5 /\ api \in [Files -> Views]
      BY DEF TypeOK, Scans
    <3>2. scan.pc + 1 \in 0 .. 5
      BY <2>2, <3>1, ListsFacts DEF ListPhase
    <3>3. {f \in Files : api[f].phase = Lists[scan.pc + 1]} \in SUBSET Files
      OBVIOUS
    <3> QED BY <2>1, <2>2, <3>1, <3>2, <3>3 DEF ListPhase
  <2>3. CASE ScanBacklog
    <3>1. Scanned \in 0 .. 5 /\ cache \in [Files -> Views] /\ {f \in Files : cache[f] # Absent} \in SUBSET Files
      BY ListsFacts DEF TypeOK
    <3> QED BY <2>1, <2>3, <3>1 DEF ScanBacklog
  <2>4. CASE \E f \in Files : CorrectUnseen(f)
    <3>1. PICK f \in Files : Reads(Listed, {f}, api)
      BY <2>4 DEF CorrectUnseen
    <3>2. Listed \in 0 .. 5 /\ api \in [Files -> Views] /\ {f} \in SUBSET Files
      BY ListsFacts DEF TypeOK
    <3> QED BY <2>1, <3>1, <3>2
  <2>5. CASE ObserveRead
    <3>1. scan.got \in [Files -> Views]
      BY DEF TypeOK, Scans
    <3>2. known' \in [Files -> Views] /\ grant' \in [Files -> Grants]
      BY <2>5, <3>1, AbsentView, GrantFacts, StoredGrantFacts DEF ObserveRead, Observed, TypeOK
    <3>3. scan' \in Scans
      BY <2>5, NothingType DEF ObserveRead, Stored, TypeOK, Scans
    <3> QED BY <2>5, <3>2, <3>3 DEF ObserveRead, TypeOK, world, bounds
  <2>6. CASE MarkRebuilt \/ ScanFails
    <3>1. /\ scan' = NoScan /\ rebuilt' \in BOOLEAN /\ faults' \in 0 .. MaxFaults
          /\ UNCHANGED <<api, cache, landed, known, grant, lost, reigns>>
      <4>1. CASE MarkRebuilt
        BY <4>1 DEF MarkRebuilt, TypeOK, world, ledger, bounds
      <4>2. CASE ScanFails
        BY <4>2 DEF ScanFails, Fault, TypeOK, world, ledger
      <4> QED BY <2>6, <4>1, <4>2
    <3> QED BY <3>1, NothingType DEF TypeOK
  <2> QED BY <1>3, <2>2, <2>3, <2>4, <2>5, <2>6 DEF Rebuilding
<1>4. ASSUME NEW f \in Files, Inform(f) \/ Delete(f) PROVE TypeOK'
  BY <1>4, AbsentView DEF Inform, Delete, Stores, TypeOK, ledger, led, bounds
<1>5. CASE LeaderChange
  <2>1. grant' \in [Files -> Grants]
    BY <1>5, GrantFacts DEF LeaderChange
  <2>2. reigns' \in 0 .. MaxReigns
    BY <1>5 DEF LeaderChange, TypeOK
  <2> QED BY <1>5, <2>1, <2>2, NothingType DEF LeaderChange, TypeOK, world
<1> QED BY <1>0, <1>1, <1>2, <1>3, <1>4, <1>5 DEF Next

-----------------------------------------------------------------------------
(* The invariant, file by file.                                            *)

\* Views are the past of the stored status.
ViewsPast(f) ==
    /\ Past(cache[f], api[f]) /\ Past(landed[f], api[f])
    /\ Past(known[f], api[f]) /\ Past(scan.got[f], api[f])

\* What is found gone is gone, and only what a scan has at hand is read.
GoneIsGone(f) ==
    /\ cache[f] = Absent => api[f] = Absent
    /\ f \in scan.at /\ scan.got[f] = Absent => api[f] = Absent
    /\ f \notin scan.at => scan.got[f] = Absent

\* A pass that has applied and not told the ledger has the file to itself.
LandedIsStored(f) == Landed(f) /\ api[f] # Absent => landed[f] = api[f]

\* Before the rebuild has landed nothing is granted and nothing replaced.
NothingEarly(f) == ~rebuilt => ~scan.replace /\ grant[f] = NoGrant

\* The dispatched file whose pass has yet to tell the ledger: its grant counts it.
ByGrant(f) == Landed(f) /\ grant[f].kind = "dispatch" /\ grant[f].inUse

\* The entry counts the file, and no view at hand that shows it elsewhere replaces it.
ByEntry(f) ==
    /\ InFlight(known[f])
    /\ Aside(cache[f]) => cache[f].seq < known[f].seq
    /\ Aside(scan.got[f]) => scan.got[f].seq < known[f].seq
    /\ f \in scan.at /\ f \in Replaces =>
         /\ InFlight(scan.got[f])
         /\ Aside(cache[f]) => cache[f].seq < scan.got[f].seq

Covered(f) == rebuilt /\ InFlight(api[f]) /\ f \notin lost => ByGrant(f) \/ ByEntry(f)

\* During a rebuild the views that show a file in flight elsewhere are older than
\* those that show it there, and the list of its phase finds it.
Apart(f) ==
    \A u \in {cache[f], known[f], scan.got[f]}, s \in {api[f], cache[f], known[f], scan.got[f]} :
        Aside(u) /\ InFlight(s) => u.seq < s.seq

Found(f) ==
    \/ scan.pc < 2
    \/ scan.pc = 2 /\ api[f].phase = "running"
    \/ InFlight(known[f])
    \/ InFlight(scan.got[f])

Rebuilt(f) == ~rebuilt /\ InFlight(api[f]) => Apart(f) /\ Found(f)

FileInv(f) ==
    /\ f \in lost => InFlight(api[f])
    /\ ViewsPast(f) /\ GoneIsGone(f) /\ LandedIsStored(f) /\ NothingEarly(f)
    /\ Covered(f) /\ Rebuilt(f)

\* A step that leaves alone what the invariant of f reads.
LEMMA Frame ==
    ASSUME NEW f \in Files, FileInv(f),
           api'[f] = api[f], cache'[f] = cache[f], landed'[f] = landed[f],
           known'[f] = known[f], grant'[f] = grant[f], rebuilt' = rebuilt,
           scan'.pc = scan.pc, scan'.replace = scan.replace, scan'.got[f] = scan.got[f],
           f \in scan'.at <=> f \in scan.at, f \in scan'.fresh <=> f \in scan.fresh,
           f \in lost' <=> f \in lost
    PROVE  FileInv(f)'
  BY DEF FileInv, ViewsPast, GoneIsGone, LandedIsStored, NothingEarly, Covered, Rebuilt,
         ByGrant, ByEntry, Apart, Found, Landed, Replaces

\* The types of what the invariant of f reads.
LEMMA FileTypes ==
    ASSUME TypeOK, NEW f \in Files
    PROVE  /\ api[f] \in Views /\ cache[f] \in Views /\ landed[f] \in Views /\ known[f] \in Views
           /\ scan.got[f] \in Views /\ grant[f] \in Grants /\ scan.pc \in 0 .. 5
           /\ scan.at \in SUBSET Files /\ scan.fresh \in SUBSET Files /\ scan.replace \in BOOLEAN
  BY DEF TypeOK, Scans

\* A step that only touches a grant that is not in use, or of a file whose pass has
\* not applied.
LEMMA GrantMoves ==
    ASSUME NEW f \in Files, FileInv(f), rebuilt,
           ~Landed(f) \/ grant'[f] = grant[f] \/ ~grant[f].inUse,
           UNCHANGED <<api, cache, landed, known, rebuilt, scan, lost>>
    PROVE  FileInv(f)'
<1>1. ByGrant(f) => ByGrant(f)'
  BY DEF ByGrant, Landed
<1>2. ByEntry(f) => ByEntry(f)'
  BY DEF ByEntry, Replaces
<1> QED BY <1>1, <1>2 DEF FileInv, ViewsPast, GoneIsGone, LandedIsStored, NothingEarly, Covered, Rebuilt, Landed

LEMMA AdmissionFile ==
    ASSUME TypeOK, NEW f \in Files, FileInv(f), AdmissionPass
    PROVE  FileInv(f)'
<1>0. PICK late \in SUBSET Expirable :
        \E admitted \in SUBSET Candidates(late), entered \in SUBSET Backlog(late) :
          grant' = [g \in Files |-> IF g \in admitted THEN Grant("dispatch")
                                    ELSE IF g \in entered THEN Grant("window")
                                    ELSE IF g \in late THEN NoGrant ELSE grant[g]]
  BY DEF AdmissionPass
<1>1. PICK admitted \in SUBSET Candidates(late), entered \in SUBSET Backlog(late) :
        grant' = [g \in Files |-> IF g \in admitted THEN Grant("dispatch")
                                  ELSE IF g \in entered THEN Grant("window")
                                  ELSE IF g \in late THEN NoGrant ELSE grant[g]]
  BY <1>0
<1>2. grant'[f] = grant[f] \/ ~grant[f].inUse
  BY <1>1, GrantFacts DEF Expirable, Candidates, Backlog
<1>3. rebuilt /\ UNCHANGED <<api, cache, landed, known, rebuilt, scan, lost>>
  BY DEF AdmissionPass, world, led
<1> QED BY <1>2, <1>3, GrantMoves

LEMMA PassGrantFile ==
    ASSUME TypeOK, NEW f \in Files, FileInv(f), TakeGrant(f) \/ Aborts(f)
    PROVE  FileInv(f)'
<1>1. grant[f] \in Grants /\ grant[f] # NoGrant
  BY GrantFacts DEF TakeGrant, Aborts, TypeOK
<1>2. rebuilt
  BY <1>1 DEF FileInv, NothingEarly
<1>3. ~Landed(f) /\ UNCHANGED <<api, cache, landed, known, rebuilt, scan, lost>>
  BY DEF TakeGrant, Aborts, world, led
<1> QED BY <1>2, <1>3, GrantMoves

\* A file that is gone has no place to keep.
LEMMA AbsentFile ==
    ASSUME NEW f \in Files, api'[f] = Absent, f \notin lost',
           NothingEarly(f)', f \notin scan'.at => scan'.got[f] = Absent
    PROVE  FileInv(f)'
  BY AbsentView DEF FileInv, ViewsPast, Past, GoneIsGone, LandedIsStored, Covered, Rebuilt

LEMMA PassGoneFile ==
    ASSUME TypeOK, NEW f \in Files, FileInv(f), PassGone(f)
    PROVE  FileInv(f)'
<1>1. api[f] = Absent /\ UNCHANGED <<api, rebuilt, scan, lost>> /\ grant'[f] = NoGrant
  BY DEF PassGone, FileInv, GoneIsGone, world, led, TypeOK
<1>2. f \notin lost
  BY <1>1, AbsentView DEF FileInv
<1> QED BY <1>1, <1>2, AbsentFile DEF FileInv, GoneIsGone, NothingEarly

LEMMA DeleteFile ==
    ASSUME TypeOK, NEW f \in Files, FileInv(f), Delete(f)
    PROVE  FileInv(f)'
  BY AbsentFile DEF Delete, Stores, TypeOK, FileInv, GoneIsGone, NothingEarly, ledger, led

LEMMA InformFile ==
    ASSUME TypeOK, NEW f \in Files, FileInv(f), Inform(f)
    PROVE  FileInv(f)'
<1>1. UNCHANGED <<api, lost, landed, known, grant, rebuilt, scan>> /\ cache'[f] = api[f]
  BY DEF Inform, TypeOK, ledger, led
<1>2. api[f] \in Views
  BY DEF TypeOK
<1>3. ViewsPast(f)' /\ GoneIsGone(f)' /\ LandedIsStored(f)' /\ NothingEarly(f)'
  BY <1>1, <1>2, PastSelf DEF FileInv, ViewsPast, GoneIsGone, LandedIsStored, NothingEarly, Landed
<1>4. Covered(f)'
  <2>1. ByGrant(f) => ByGrant(f)'
    BY <1>1 DEF ByGrant, Landed
  <2>2. InFlight(api[f]) /\ ByEntry(f) => ByEntry(f)'
    BY <1>1 DEF ByEntry, Replaces, Aside
  <2> QED BY <1>1, <2>1, <2>2 DEF FileInv, Covered
<1>5. Rebuilt(f)'
  <2>1. InFlight(api[f]) /\ Apart(f) => Apart(f)'
    BY <1>1 DEF Apart, Aside
  <2> QED BY <1>1, <2>1 DEF FileInv, Rebuilt, Found
<1> QED BY <1>1, <1>3, <1>4, <1>5 DEF FileInv

\* PatchStatusCAS lands. A file gets in flight under a dispatch grant in use, which
\* counts it until the pass has told the ledger; when the call fails the file is lost.
LEMMA ApplyFile ==
    ASSUME TypeOK, NEW f \in Files, FileInv(f), Apply(f) \/ ApplyLost(f)
    PROVE  FileInv(f)'
<1>1. PICK v \in Applies(f) :
        /\ Stores(f, v)
        /\ \/ /\ landed' = [landed EXCEPT ![f] = v] /\ lost' = Lost(f, v, FALSE) /\ UNCHANGED grant
           \/ /\ UNCHANGED landed /\ lost' = Lost(f, v, TRUE) /\ grant' = [grant EXCEPT ![f] = Returned(f)]
  BY DEF Apply, ApplyLost, ledger
<1>2. UNCHANGED <<known, rebuilt, scan>>
  BY DEF Apply, ApplyLost, ledger, led
<1>3. /\ ~Landed(f) /\ api[f] # Absent /\ cache[f] = api[f]
      /\ v \in Views /\ v # Absent /\ Past(api[f], v)
      /\ InFlight(v) /\ ~InFlight(api[f]) => grant[f].inUse /\ grant[f].kind = "dispatch"
      /\ api[f].phase = "running" /\ InFlight(v) => v.phase = "running"
  BY AppliesFacts
<1>4. api'[f] = v /\ cache'[f] \in {api[f], v}
  BY <1>1, <1>3 DEF Stores, TypeOK
<1>5. \/ /\ landed'[f] = v /\ grant'[f] = grant[f]
         /\ f \in lost' <=> f \in lost /\ InFlight(v)
      \/ /\ landed'[f] = Absent /\ grant'[f] \in {grant[f], NoGrant}
         /\ f \in lost' <=> InFlight(v) /\ (f \in lost \/ ~InFlight(api[f]))
  BY <1>1, <1>3, StoredGrantFacts DEF TypeOK, Lost, InFlight, Landed
<1>6. /\ api[f] \in Views /\ cache[f] \in Views /\ landed[f] \in Views /\ known[f] \in Views
      /\ scan.got[f] \in Views
  BY FileTypes
<1>7. ViewsPast(f)'
  <2>1. \A u \in Views : Past(u, api[f]) => Past(u, v)
    BY <1>3, <1>6, PastTrans
  <2>2. Past(v, v) /\ Past(Absent, v)
    BY <1>3, PastSelf DEF Past
  <2> QED BY <1>2, <1>3, <1>4, <1>5, <1>6, <2>1, <2>2 DEF FileInv, ViewsPast
<1>8. GoneIsGone(f)' /\ LandedIsStored(f)' /\ NothingEarly(f)'
  BY <1>2, <1>3, <1>4, <1>5 DEF FileInv, GoneIsGone, LandedIsStored, NothingEarly, Landed
<1>9. Covered(f)'
  <2> SUFFICES ASSUME rebuilt, InFlight(v), f \notin lost' PROVE ByGrant(f)' \/ ByEntry(f)'
    BY <1>2, <1>4 DEF Covered
  <2>1. CASE InFlight(api[f])
    <3>1. ByEntry(f)
      BY <1>3, <1>5, <2>1 DEF FileInv, Covered, ByGrant
    <3> QED BY <1>2, <1>4, <2>1, <3>1 DEF ByEntry, Aside, Replaces
  <2>2. CASE ~InFlight(api[f])
    BY <1>3, <1>5, <2>2 DEF ByGrant, Landed
  <2> QED BY <2>1, <2>2
<1>10. Rebuilt(f)'
  <2> SUFFICES ASSUME ~rebuilt, InFlight(v) PROVE Apart(f)' /\ Found(f)'
    BY <1>2, <1>4 DEF Rebuilt
  <2>1. InFlight(api[f])
    BY <1>3, GrantFacts DEF FileInv, NothingEarly
  <2>2. Apart(f) /\ Found(f)
    BY <2>1 DEF FileInv, Rebuilt
  <2>3. api[f].seq <= v.seq /\ api[f].seq \in Nat /\ v.seq \in Nat
    BY <1>3, <1>6, ViewFacts DEF Past, NoLater
  <2>4. known[f].seq \in Nat /\ scan.got[f].seq \in Nat
    BY <1>6, ViewFacts
  <2>5. Apart(f)'
    <3> SUFFICES ASSUME NEW u \in {known[f], scan.got[f]}, NEW s \in {api[f], v, known[f], scan.got[f]},
                        Aside(u), InFlight(s)
                 PROVE  u.seq < s.seq
      BY <1>2, <1>4, <2>1 DEF Apart, Aside
    <3>1. u.seq < api[f].seq /\ (s # v => u.seq < s.seq)
      BY <2>1, <2>2 DEF Apart
    <3> QED BY <2>3, <2>4, <3>1
  <2>6. Found(f)'
    BY <1>2, <1>3, <1>4, <2>2 DEF Found
  <2> QED BY <2>5, <2>6
<1> QED BY <1>4, <1>5, <1>7, <1>8, <1>9, <1>10 DEF FileInv

\* The ledger is told of a view that is at hand. An entry that counts a file in
\* flight gives way to no view that shows it elsewhere.
LEMMA ToldFile ==
    ASSUME TypeOK, NEW f \in Files, FileInv(f), NEW v, v # Absent, Told(f, v),
           \/ v = cache[f] /\ ~Landed(f) /\ UNCHANGED landed
           \/ v = landed[f] /\ landed' = [landed EXCEPT ![f] = Absent],
           UNCHANGED <<api, cache, lost, rebuilt>>
    PROVE  FileInv(f)'
<1>0. /\ api[f] \in Views /\ cache[f] \in Views /\ landed[f] \in Views /\ known[f] \in Views
      /\ scan.got[f] \in Views /\ grant[f] \in Grants /\ v \in Views
  BY FileTypes
<1>1. /\ known'[f] = (IF ~Older(v, known[f]) THEN v ELSE known[f])
      /\ grant'[f] \in {grant[f], NoGrant}
      /\ scan'.pc = scan.pc /\ scan'.at = scan.at /\ scan'.got = scan.got /\ scan'.replace = scan.replace
      /\ scan'.fresh = IF scan.replace /\ ~Older(v, known[f]) THEN scan.fresh \cup {f} ELSE scan.fresh
  BY StoredGrantFacts DEF Told, TypeOK, Scans
<1>2. landed'[f] = Absent
  BY DEF TypeOK, Landed
<1>3. Past(v, api[f])
  BY DEF FileInv, ViewsPast
<1>4. ViewsPast(f)'
  BY <1>1, <1>2, <1>3 DEF FileInv, ViewsPast, Past
<1>5. GoneIsGone(f)' /\ LandedIsStored(f)' /\ NothingEarly(f)'
  BY <1>1, <1>2 DEF FileInv, GoneIsGone, LandedIsStored, NothingEarly, Landed
<1>6. \A u \in Views : u.seq \in Nat
  BY ViewFacts
<1>7. f \in Replaces' => f \in Replaces /\ (Older(v, known[f]) \/ f \notin scan'.fresh)
  BY <1>1 DEF Replaces
<1>8. Covered(f)'
  <2> SUFFICES ASSUME rebuilt, InFlight(api[f]), f \notin lost PROVE ByEntry(f)'
    BY DEF Covered
  <2>1. CASE ByGrant(f)
    <3>1. v = api[f] /\ InFlight(v)
      BY <2>1, AbsentView DEF ByGrant, FileInv, LandedIsStored, Landed
    <3>2. ~Older(v, known[f])
      BY <1>0, <3>1, OlderFacts DEF FileInv, ViewsPast
    <3>3. f \notin Replaces'
      BY <1>1, <3>2 DEF Replaces
    <3>4. /\ Aside(cache[f]) => cache[f].seq < api[f].seq
          /\ Aside(scan.got[f]) => scan.got[f].seq < api[f].seq
      BY <1>0, AsideEarlier DEF FileInv, ViewsPast
    <3> QED BY <1>1, <3>1, <3>2, <3>3, <3>4 DEF ByEntry
  <2>2. CASE ~ByGrant(f)
    <3>1. ByEntry(f)
      BY <2>2 DEF FileInv, Covered
    <3>2. known[f] # Absent
      BY <3>1, AbsentView DEF ByEntry
    <3>3. CASE Older(v, known[f])
      BY <1>1, <1>7, <3>1, <3>3 DEF ByEntry
    <3>4. CASE ~Older(v, known[f])
      <4>1. ~Aside(v) \/ v = landed[f]
        BY <1>0, <3>1, <3>2, <3>4, OlderFacts DEF ByEntry
      <4>2. InFlight(v)
        BY <4>1, AbsentView DEF Aside, FileInv, LandedIsStored, Landed
      <4>3. known[f].seq <= v.seq
        BY <1>0, <3>2, <3>4, OlderFacts
      <4>4. f \notin Replaces'
        BY <1>1, <3>4 DEF Replaces
      <4>5. /\ Aside(cache[f]) => cache[f].seq < v.seq
            /\ Aside(scan.got[f]) => scan.got[f].seq < v.seq
        BY <1>0, <1>6, <3>1, <4>3 DEF ByEntry
      <4> QED BY <1>1, <3>4, <4>2, <4>4, <4>5 DEF ByEntry
    <3> QED BY <3>3, <3>4
  <2> QED BY <2>1, <2>2
<1>9. Rebuilt(f)'
  <2> SUFFICES ASSUME ~rebuilt, InFlight(api[f]) PROVE Apart(f)' /\ Found(f)'
    BY DEF Rebuilt
  <2>1. Apart(f) /\ Found(f)
    BY DEF FileInv, Rebuilt
  <2>2. v \in {cache[f], api[f]}
    BY AbsentView DEF FileInv, LandedIsStored, Landed
  <2>3. Apart(f)'
    BY <1>1, <2>1, <2>2 DEF Apart, Aside
  <2>4. InFlight(known[f]) => InFlight(known'[f])
    <3> SUFFICES ASSUME InFlight(known[f]), ~InFlight(v) PROVE Older(v, known[f])
      BY <1>1
    <3>1. v = cache[f] /\ Aside(v)
      BY <2>2 DEF Aside
    <3>2. v.seq < known[f].seq /\ known[f] # Absent
      BY <2>1, <3>1, AbsentView DEF Apart
    <3> QED BY <1>0, <3>2, OlderFacts
  <2>5. Found(f)'
    BY <1>1, <2>1, <2>4 DEF Found
  <2> QED BY <2>3, <2>5
<1> QED BY <1>4, <1>5, <1>8, <1>9 DEF FileInv

\* One read of a scan: the stored statuses, or at its end the cache.
LEMMA ReadsFile ==
    ASSUME TypeOK, NEW f \in Files, FileInv(f), NEW pc \in 0 .. 5, NEW files \in SUBSET Files,
           NEW views \in {api, cache}, Reads(pc, files, views),
           pc <= Listed => views = api,
           views = api \/ \A x \in files : cache[x] # Absent,
           ~rebuilt /\ InFlight(api[f]) => Found(f)'
    PROVE  FileInv(f)'
<1>0. /\ api[f] \in Views /\ cache[f] \in Views /\ known[f] \in Views /\ scan \in Scans
  BY DEF TypeOK
<1>1. /\ UNCHANGED <<api, cache, lost, landed, known, grant, rebuilt>>
      /\ scan'.pc = pc /\ scan'.at = files
      /\ scan'.got[f] = (IF f \in files THEN views[f] ELSE Absent)
      /\ scan'.replace = (IF scan.pc = 0 THEN rebuilt ELSE scan.replace)
      /\ scan'.fresh = scan.fresh
  BY <1>0 DEF Reads, Scans, world, ledger, bounds
<1>2. scan'.got[f] \in {Absent, api[f], cache[f]}
  BY <1>1
<1>3. ViewsPast(f)'
  BY <1>0, <1>1, <1>2, PastSelf DEF FileInv, ViewsPast, Past
<1>4. GoneIsGone(f)' /\ LandedIsStored(f)' /\ NothingEarly(f)'
  BY <1>1 DEF FileInv, GoneIsGone, LandedIsStored, NothingEarly, Landed
<1>5. Covered(f)'
  <2> SUFFICES ASSUME rebuilt, InFlight(api[f]), f \notin lost PROVE ByGrant(f)' \/ ByEntry(f)'
    BY <1>1 DEF Covered
  <2>1. ByGrant(f) => ByGrant(f)'
    BY <1>1 DEF ByGrant, Landed
  <2>2. ASSUME ByEntry(f) PROVE ByEntry(f)'
    <3>1. InFlight(known[f]) /\ (Aside(cache[f]) => cache[f].seq < known[f].seq)
      BY <2>2 DEF ByEntry
    <3>2. Aside(cache[f]) => cache[f].seq < api[f].seq
      BY <1>0, AsideEarlier DEF FileInv, ViewsPast
    <3>3. Aside(scan'.got[f]) => scan'.got[f] = cache[f]
      BY <1>2 DEF Aside
    <3>4. f \in scan'.at /\ f \in Replaces' => scan'.got[f] = api[f]
      BY <1>1 DEF Replaces
    <3> QED BY <1>1, <3>1, <3>2, <3>3, <3>4 DEF ByEntry
  <2> QED BY <2>1, <2>2 DEF FileInv, Covered
<1>6. Rebuilt(f)'
  <2> SUFFICES ASSUME ~rebuilt, InFlight(api[f]) PROVE Apart(f)' /\ Found(f)'
    BY <1>1 DEF Rebuilt
  <2>1. Apart(f)
    BY DEF FileInv, Rebuilt
  <2>2. Apart(f)'
    BY <1>1, <1>2, <2>1, AbsentView DEF Apart, Aside
  <2> QED BY <2>2
<1> QED BY <1>1, <1>3, <1>4, <1>5, <1>6 DEF FileInv

LEMMA ScansFile ==
    ASSUME TypeOK, NEW f \in Files, FileInv(f),
           ListPhase \/ ScanBacklog \/ \E x \in Files : CorrectUnseen(x)
    PROVE  FileInv(f)'
<1>0. scan.pc \in 0 .. 5 /\ api[f] \in Views /\ scan \in Scans
  BY DEF TypeOK, Scans
<1>1. scan.at = {} => ~InFlight(scan.got[f])
  BY AbsentView DEF FileInv, GoneIsGone
<1>2. CASE ListPhase
  <2> DEFINE files == {x \in Files : api[x].phase = Lists[scan.pc + 1]}
  <2>1. Reads(scan.pc + 1, files, api) /\ scan.pc < 4 /\ scan.at = {}
    BY <1>2, ListsFacts DEF ListPhase, Reads
  <2>2. files \in SUBSET Files /\ scan.pc + 1 \in 0 .. 5
    BY <1>0, <2>1
  <2>3. ASSUME ~rebuilt, InFlight(api[f]) PROVE Found(f)'
    <3>1. Found(f)
      BY <2>3 DEF FileInv, Rebuilt
    <3>2. /\ scan'.pc = scan.pc + 1 /\ api' = api /\ known' = known
          /\ f \in files => scan'.got[f] = api[f]
      BY <1>0, <2>1 DEF Reads, Scans, world, ledger
    <3>3. api[f].phase \in {"queued", "running"}
      BY <2>3 DEF InFlight, slotPhase
    <3>4. CASE scan.pc = 0
      BY <3>2, <3>4 DEF Found
    <3>5. CASE scan.pc = 1
      BY <2>3, <3>2, <3>3, <3>5, ListsFacts DEF Found
    <3>6. CASE scan.pc = 2
      BY <1>1, <2>1, <2>3, <3>1, <3>2, <3>3, <3>6, ListsFacts DEF Found
    <3>7. CASE scan.pc = 3
      BY <1>1, <2>1, <3>1, <3>2, <3>7 DEF Found
    <3> QED BY <1>0, <2>1, <3>4, <3>5, <3>6, <3>7
  <2> HIDE DEF files
  <2> QED BY <2>1, <2>2, <2>3, ReadsFile
<1>3. CASE ScanBacklog \/ \E x \in Files : CorrectUnseen(x)
  <2>1. ASSUME ~rebuilt, InFlight(api[f]), scan.pc = 4, scan.at = {}, UNCHANGED <<api, known>>
        PROVE  Found(f)'
    <3>1. Found(f)
      BY <2>1 DEF FileInv, Rebuilt
    <3> QED BY <1>1, <2>1, <3>1 DEF Found
  <2>2. CASE ScanBacklog
    <3> DEFINE files == {x \in Files : cache[x] # Absent}
    <3>1. /\ Reads(5, files, cache) /\ scan.pc = 4 /\ scan.at = {}
          /\ UNCHANGED <<api, known>> /\ files \in SUBSET Files /\ \A x \in files : cache[x] # Absent
      BY <2>2, ListsFacts DEF ScanBacklog, Reads, world, ledger
    <3> HIDE DEF files
    <3> QED BY <2>1, <3>1, ReadsFile, ListsFacts
  <2>3. CASE \E x \in Files : CorrectUnseen(x)
    <3>1. PICK x \in Files : CorrectUnseen(x)
      BY <2>3
    <3>2. /\ Reads(4, {x}, api) /\ scan.pc = 4 /\ scan.at = {}
          /\ UNCHANGED <<api, known>> /\ {x} \in SUBSET Files
      BY <3>1, ListsFacts DEF CorrectUnseen, Reads, world, ledger
    <3> QED BY <2>1, <3>2, ReadsFile
  <2> QED BY <1>3, <2>2, <2>3
<1> QED BY <1>2, <1>3

\* What was read is observed, in the order of views or, in a resync, by replacement.
LEMMA ObserveReadFile ==
    ASSUME TypeOK, NEW f \in Files, FileInv(f), ObserveRead
    PROVE  FileInv(f)'
<1> DEFINE got == scan.got[f]
           stores == got # Absent /\ (f \in Replaces \/ ~Older(got, known[f]))
<1>0. /\ api[f] \in Views /\ cache[f] \in Views /\ known[f] \in Views /\ got \in Views
      /\ scan \in Scans /\ grant[f] \in Grants /\ \A u \in Views : u.seq \in Nat
  BY FileTypes, ViewFacts DEF TypeOK
<1>1. /\ UNCHANGED <<api, cache, lost, landed, rebuilt>>
      /\ scan'.at = {} /\ scan'.got[f] = Absent /\ scan'.pc = scan.pc /\ scan'.replace = scan.replace
  BY <1>0 DEF ObserveRead, Scans, Nothing, world
<1>2. CASE f \in scan.at /\ got = Absent
  <2>1. api[f] = Absent /\ grant'[f] = NoGrant /\ f \notin lost
    BY <1>2, AbsentView DEF FileInv, GoneIsGone, ObserveRead, Observed
  <2> QED BY <1>1, <2>1, AbsentFile DEF FileInv, NothingEarly
<1>3. CASE ~(f \in scan.at /\ got = Absent)
  <2>1. /\ known'[f] = (IF stores THEN got ELSE known[f])
        /\ grant'[f] \in {grant[f], NoGrant} /\ (grant[f].inUse => grant'[f] = grant[f])
    BY <1>3, StoredGrantFacts DEF ObserveRead, Observed, Stored
  <2>2. Past(got, api[f]) /\ Past(known[f], api[f]) /\ Past(cache[f], api[f])
    BY DEF FileInv, ViewsPast
  <2> HIDE DEF got
  <2>3. ViewsPast(f)'
    BY <1>1, <2>1, <2>2 DEF FileInv, ViewsPast, Past
  <2>4. GoneIsGone(f)' /\ LandedIsStored(f)' /\ NothingEarly(f)'
    BY <1>1, <2>1 DEF FileInv, GoneIsGone, LandedIsStored, NothingEarly, Landed
  <2>5. Covered(f)'
    <3> SUFFICES ASSUME rebuilt, InFlight(api[f]), f \notin lost PROVE ByGrant(f)' \/ ByEntry(f)'
      BY <1>1 DEF Covered
    <3>1. ByGrant(f) => ByGrant(f)'
      BY <1>1, <2>1 DEF ByGrant, Landed
    <3>2. ASSUME ByEntry(f) PROVE ByEntry(f)'
      <4>1. /\ InFlight(known[f]) /\ known[f] # Absent
            /\ Aside(cache[f]) => cache[f].seq < known[f].seq
            /\ Aside(got) => got.seq < known[f].seq
            /\ f \in scan.at /\ f \in Replaces =>
                 InFlight(got) /\ (Aside(cache[f]) => cache[f].seq < got.seq)
        BY <3>2, AbsentView DEF ByEntry, got
      <4>2. CASE ~stores
        BY <1>1, <2>1, <4>1, <4>2, AbsentView DEF ByEntry, Aside
      <4>3. CASE stores /\ f \in Replaces
        <5>1. f \in scan.at
          BY <4>3 DEF FileInv, GoneIsGone, got
        <5> QED BY <1>1, <2>1, <4>1, <4>3, <5>1, AbsentView DEF ByEntry, Aside
      <4>4. CASE stores /\ ~Older(got, known[f])
        <5>1. InFlight(got) /\ known[f].seq <= got.seq
          BY <1>0, <4>1, <4>4, OlderFacts DEF Aside
        <5>2. Aside(cache[f]) => cache[f].seq < got.seq
          BY <1>0, <4>1, <5>1
        <5> QED BY <1>1, <2>1, <4>4, <5>1, <5>2, AbsentView DEF ByEntry, Aside
      <4> QED BY <4>2, <4>3, <4>4
    <3> QED BY <3>1, <3>2 DEF FileInv, Covered
  <2>6. Rebuilt(f)'
    <3> SUFFICES ASSUME ~rebuilt, InFlight(api[f]) PROVE Apart(f)' /\ Found(f)'
      BY <1>1 DEF Rebuilt
    <3>1. Apart(f) /\ Found(f) /\ f \notin Replaces
      BY DEF FileInv, Rebuilt, NothingEarly, Replaces
    <3>2. Apart(f)'
      BY <1>1, <2>1, <3>1, AbsentView DEF Apart, Aside, got
    <3>3. ASSUME InFlight(known[f]) \/ InFlight(got) PROVE InFlight(known'[f])
      <4>1. CASE InFlight(known[f]) /\ ~InFlight(got)
        <5>1. got # Absent => got.seq < known[f].seq /\ known[f] # Absent
          BY <3>1, <4>1, AbsentView DEF Apart, Aside, got
        <5>2. ~stores
          BY <1>0, <3>1, <5>1, OlderFacts
        <5> QED BY <2>1, <4>1, <5>2
      <4>2. CASE InFlight(known[f]) /\ InFlight(got)
        BY <2>1, <4>2
      <4>3. CASE ~InFlight(known[f]) /\ InFlight(got)
        <5>1. known[f] = Absent \/ known[f].seq < got.seq
          BY <3>1, <4>3 DEF Apart, Aside, got
        <5>2. ~Older(got, known[f]) /\ got # Absent
          BY <1>0, <4>3, <5>1, OlderFacts, AbsentView DEF Older
        <5> QED BY <2>1, <4>3, <5>2
      <4> QED BY <3>3, <4>1, <4>2, <4>3
    <3>4. Found(f)'
      BY <1>1, <3>1, <3>3 DEF Found, got
    <3> QED BY <3>2, <3>4
  <2> QED BY <1>1, <2>3, <2>4, <2>5, <2>6 DEF FileInv
<1> QED BY <1>2, <1>3

\* A scan ends or is given up. The first one that ends has found every file in flight.
LEMMA ScanEndsFile ==
    ASSUME TypeOK, NEW f \in Files, FileInv(f), MarkRebuilt \/ ScanFails
    PROVE  FileInv(f)'
<1>0. NoScan.pc = 0 /\ NoScan.replace = FALSE /\ NoScan.at = {} /\ NoScan.got[f] = Absent /\ NoScan.fresh = {}
  BY DEF NoScan, Nothing
<1>1. /\ UNCHANGED <<api, cache, lost, landed, known, grant>> /\ scan' = NoScan /\ scan.at = {}
      /\ \/ rebuilt' = rebuilt
         \/ rebuilt' /\ scan.pc = 5
  BY ListsFacts DEF MarkRebuilt, ScanFails, world, ledger
<1>2. scan.got[f] = Absent
  BY <1>1 DEF FileInv, GoneIsGone
<1>3. ViewsPast(f)' /\ GoneIsGone(f)' /\ LandedIsStored(f)' /\ NothingEarly(f)'
  BY <1>0, <1>1 DEF FileInv, ViewsPast, Past, GoneIsGone, LandedIsStored, NothingEarly, Landed
<1>4. Covered(f)'
  <2> SUFFICES ASSUME rebuilt', InFlight(api[f]), f \notin lost PROVE ByGrant(f)' \/ ByEntry(f)'
    BY <1>1 DEF Covered
  <2>1. CASE rebuilt
    <3>1. ByGrant(f) => ByGrant(f)'
      BY <1>1 DEF ByGrant, Landed
    <3>2. ByEntry(f) => ByEntry(f)'
      BY <1>0, <1>1 DEF ByEntry, Aside
    <3> QED BY <2>1, <3>1, <3>2 DEF FileInv, Covered
  <2>2. CASE ~rebuilt
    <3>1. scan.pc = 5 /\ Apart(f) /\ Found(f)
      BY <1>1, <2>2 DEF FileInv, Rebuilt
    <3>2. InFlight(known[f])
      BY <1>2, <3>1, AbsentView DEF Found
    <3>3. Aside(cache[f]) => cache[f].seq < known[f].seq
      BY <3>1, <3>2 DEF Apart
    <3> QED BY <1>0, <1>1, <3>2, <3>3 DEF ByEntry, Aside
  <2> QED BY <2>1, <2>2
<1>5. Rebuilt(f)'
  <2> SUFFICES ASSUME ~rebuilt', InFlight(api[f]) PROVE Apart(f)' /\ Found(f)'
    BY <1>1 DEF Rebuilt
  <2>1. Apart(f)
    BY <1>1 DEF FileInv, Rebuilt
  <2> QED BY <1>0, <1>1, <1>2, <2>1 DEF Apart, Found
<1> QED BY <1>1, <1>3, <1>4, <1>5 DEF FileInv

LEMMA LeaderFile ==
    ASSUME TypeOK, NEW f \in Files, FileInv(f), LeaderChange
    PROVE  FileInv(f)'
<1>0. NoScan.pc = 0 /\ NoScan.replace = FALSE /\ NoScan.at = {} /\ NoScan.got[f] = Absent
  BY DEF NoScan, Nothing
<1>1. /\ UNCHANGED <<api, cache, lost>> /\ scan' = NoScan /\ rebuilt' = FALSE
      /\ landed'[f] = Absent /\ known'[f] = Absent /\ grant'[f] = NoGrant
  BY DEF LeaderChange, world, Nothing
<1>2. api[f] \in Views /\ cache[f] \in Views
  BY FileTypes
<1>3. ViewsPast(f)' /\ GoneIsGone(f)' /\ LandedIsStored(f)' /\ NothingEarly(f)' /\ Covered(f)'
  BY <1>0, <1>1 DEF FileInv, ViewsPast, Past, GoneIsGone, LandedIsStored, NothingEarly, Landed, Covered
<1>4. Rebuilt(f)'
  <2>1. InFlight(api[f]) /\ Aside(cache[f]) => cache[f].seq < api[f].seq
    BY <1>2, AsideEarlier DEF FileInv, ViewsPast
  <2> QED BY <1>0, <1>1, <2>1, AbsentView DEF Rebuilt, Apart, Found, Aside
<1> QED BY <1>1, <1>3, <1>4 DEF FileInv

-----------------------------------------------------------------------------
(* The slots.                                                              *)

\* The files in flight, but for the lost ones, and the dispatch grants fit the
\* slots together.
Committed == (InSlot \ lost) \cup {f \in Files : grant[f].kind = "dispatch"}
Fitting == Cardinality(Committed) <= Slots

\* The inductive invariant.
Inv == TypeOK /\ (\A f \in Files : FileInv(f)) /\ Fitting

\* A pass over x leaves the other files alone.
LEMMA OtherFile ==
    ASSUME TypeOK, NEW f \in Files, FileInv(f), NEW x \in Files, x # f,
           Passing(x) \/ Inform(x) \/ Delete(x)
    PROVE  FileInv(f)'
<1>1. /\ api'[f] = api[f] /\ cache'[f] = cache[f] /\ landed'[f] = landed[f]
      /\ known'[f] = known[f] /\ grant'[f] = grant[f] /\ rebuilt' = rebuilt
      /\ f \in lost' <=> f \in lost
  BY DEF Passing, PassGone, TakeGrant, Apply, ApplyLost, Aborts, Quiet, Observe, Told, Inform, Delete,
         Stores, Lost, TypeOK, world, ledger, led
<1>2. /\ scan'.pc = scan.pc /\ scan'.replace = scan.replace /\ scan'.got[f] = scan.got[f]
      /\ f \in scan'.at <=> f \in scan.at
      /\ f \in scan'.fresh <=> f \in scan.fresh
  <2>1. CASE UNCHANGED scan
    BY <2>1
  <2>2. CASE scan' # scan
    <3>1. PICK v : Told(x, v)
      BY <2>2 DEF Passing, PassGone, TakeGrant, Apply, ApplyLost, Aborts, Quiet, Observe, Inform, Delete, led
    <3> QED BY <3>1 DEF Told, TypeOK, Scans
  <2> QED BY <2>1, <2>2
<1> QED BY <1>1, <1>2, Frame

LEMMA PassFile ==
    ASSUME TypeOK, NEW f \in Files, FileInv(f), Passing(f) \/ Inform(f) \/ Delete(f)
    PROVE  FileInv(f)'
<1>1. CASE Quiet(f)
  BY <1>1, ToldFile DEF Quiet, world
<1>2. CASE Observe(f)
  BY <1>2, ToldFile DEF Observe, Landed, world
<1> QED BY <1>1, <1>2, PassGoneFile, PassGrantFile, ApplyFile, InformFile, DeleteFile DEF Passing

LEMMA FilesStep ==
    ASSUME TypeOK, NEW f \in Files, FileInv(f), [Next]_vars
    PROVE  FileInv(f)'
<1>1. CASE UNCHANGED vars
  BY <1>1, Frame DEF vars
<1>2. CASE \E x \in Files : Passing(x) \/ Inform(x) \/ Delete(x)
  BY <1>2, OtherFile, PassFile
<1>3. CASE Rebuilding
  BY <1>3, ScansFile, ObserveReadFile, ScanEndsFile DEF Rebuilding
<1> QED BY <1>1, <1>2, <1>3, AdmissionFile, LeaderFile DEF Next

LEMMA CommittedFinite == IsFiniteSet(Files) /\ Committed \in SUBSET Files /\ IsFiniteSet(Committed)
<1>1. Committed \in SUBSET Files /\ IsFiniteSet(Files)
  BY AdmissionAssumption DEF Committed, InSlot
<1> QED BY <1>1, FS_Subset

\* What an admission pass counts as taken covers what is committed.
LEMMA CommittedTaken ==
    ASSUME Inv, rebuilt, NEW late \in SUBSET Expirable
    PROVE  Committed \ late \subseteq Taken(late) /\ (InSlot \ lost) \subseteq Taken(late)
<1>1. ASSUME NEW f \in InSlot \ lost PROVE f \in Taken(late)
  <2>1. f \in Files /\ InFlight(api[f])
    BY DEF InSlot, InFlight
  <2>2. ByGrant(f) \/ ByEntry(f)
    BY <2>1 DEF Inv, FileInv, Covered
  <2>3. CASE ByGrant(f)
    BY <2>1, <2>3 DEF ByGrant, Taken, Expirable
  <2>4. CASE ByEntry(f)
    BY <2>1, <2>4 DEF ByEntry, Taken, InFlight
  <2> QED BY <2>2, <2>3, <2>4
<1>2. \A f \in Committed \ late : f \in InSlot \ lost \/ f \in Taken(late)
  BY DEF Committed, Taken
<1> QED BY <1>1, <1>2

\* A step commits no more than is committed, but for an admission pass.
LEMMA CommittedShrinks ==
    ASSUME Inv, [Next]_vars, ~AdmissionPass
    PROVE  Committed' \subseteq Committed
<1> SUFFICES ASSUME NEW f \in Files, f \in Committed', f \notin Committed PROVE FALSE
  BY DEF Committed, InSlot
<1>0. /\ TypeOK /\ FileInv(f) /\ grant[f] \in Grants
      /\ grant[f].kind # "dispatch" /\ (f \in lost \/ ~InFlight(api[f]))
  BY DEF Inv, TypeOK, Committed, InSlot, InFlight
<1>1. grant'[f].kind = "dispatch" \/ (InFlight(api'[f]) /\ f \notin lost')
  BY DEF Committed, InSlot, InFlight
<1>2. grant'[f].kind \in {grant[f].kind, "none"}
  <2>1. CASE UNCHANGED grant
    BY <2>1
  <2>2. ASSUME NEW x \in Files, Passing(x) PROVE grant'[f].kind \in {grant[f].kind, "none"}
    <3>1. CASE x # f
      <4>1. grant'[f] = grant[f]
        BY <1>0, <2>2, <3>1 DEF Passing, PassGone, TakeGrant, Apply, ApplyLost, Aborts, Quiet, Observe, Told,
                  TypeOK, ledger
      <4> QED BY <4>1
    <3>2. CASE x = f /\ TakeGrant(x)
      BY <1>0, <3>2 DEF TakeGrant, TypeOK, Grants, NoGrant
    <3>3. CASE x = f /\ ~TakeGrant(x)
      <4>1. grant'[f] \in {grant[f], NoGrant}
        <5>1. CASE PassGone(f) \/ Apply(f) \/ ApplyLost(f) \/ Aborts(f)
          BY <1>0, <5>1, StoredGrantFacts DEF PassGone, Apply, ApplyLost, Aborts, TypeOK, ledger
        <5>2. CASE Quiet(f) \/ Observe(f)
          BY <1>0, <5>2, StoredGrantFacts DEF Quiet, Observe, Told, TypeOK
        <5> QED BY <2>2, <3>3, <5>1, <5>2 DEF Passing
      <4> QED BY <4>1, GrantFacts
    <3> QED BY <3>1, <3>2, <3>3
  <2>3. CASE ObserveRead \/ LeaderChange
    <3>1. grant'[f] \in {grant[f], NoGrant}
      BY <1>0, <2>3, StoredGrantFacts DEF ObserveRead, Observed, LeaderChange
    <3> QED BY <3>1, GrantFacts
  <2>4. CASE Rebuilding /\ ~ObserveRead
    BY <2>1, <2>4 DEF Rebuilding, ListPhase, ScanBacklog, MarkRebuilt, ScanFails, CorrectUnseen, Reads, ledger
  <2>5. CASE \E x \in Files : Inform(x) \/ Delete(x)
    BY <2>1, <2>5 DEF Inform, Delete, ledger
  <2>6. CASE UNCHANGED vars
    BY <2>1, <2>6 DEF vars
  <2> QED BY <2>2, <2>3, <2>4, <2>5, <2>6 DEF Next
<1>3. InFlight(api'[f]) /\ f \notin lost'
  BY <1>0, <1>1, <1>2
<1>4. ASSUME UNCHANGED <<api, lost>> PROVE FALSE
  BY <1>0, <1>3, <1>4
<1>5. ASSUME NEW x \in Files, Apply(x) \/ ApplyLost(x) PROVE FALSE
  <2>1. PICK v \in Applies(x) : Stores(x, v) /\ (lost' = Lost(x, v, FALSE) \/ lost' = Lost(x, v, TRUE))
    BY <1>5 DEF Apply, ApplyLost
  <2>2. CASE x # f
    BY <1>0, <1>3, <2>1, <2>2 DEF Stores, Lost, TypeOK
  <2>3. CASE x = f
    <3>1. api'[f] = v
      BY <1>0, <2>1, <2>3 DEF Stores, TypeOK
    <3>2. InFlight(api[f])
      BY <1>0, <1>3, <2>3, <3>1, AppliesFacts
    <3> QED BY <1>0, <1>3, <2>1, <2>3, <3>1, <3>2 DEF Lost, InFlight
  <2> QED BY <2>2, <2>3
<1>6. ASSUME NEW x \in Files, Delete(x) PROVE FALSE
  BY <1>0, <1>3, <1>6, AbsentView DEF Delete, Stores, TypeOK
<1>7. CASE \E x \in Files : Passing(x) /\ ~Apply(x) /\ ~ApplyLost(x)
  BY <1>4, <1>7 DEF Passing, PassGone, TakeGrant, Aborts, Quiet, Observe, world
<1>8. CASE \E x \in Files : Inform(x)
  BY <1>4, <1>8 DEF Inform
<1>9. CASE Rebuilding
  BY <1>4, <1>9 DEF Rebuilding, ListPhase, ScanBacklog, ObserveRead, MarkRebuilt, ScanFails, CorrectUnseen, Reads, world
<1>10. CASE LeaderChange \/ UNCHANGED vars
  BY <1>4, <1>10 DEF LeaderChange, vars, world
<1> QED BY <1>5, <1>6, <1>7, <1>8, <1>9, <1>10 DEF Next, Passing

\* The slots hold what is committed.
LEMMA FittingStep ==
    ASSUME Inv, [Next]_vars
    PROVE  Fitting'
<1>0. Cardinality(Committed) <= Slots /\ Slots \in Nat
  BY AdmissionAssumption DEF Inv, Fitting
<1>1. ASSUME Committed' \subseteq Committed PROVE Fitting'
  <2>1. IsFiniteSet(Committed) /\ Cardinality(Committed) \in Nat
    BY CommittedFinite, FS_CardinalityType
  <2>2. IsFiniteSet(Committed') /\ Cardinality(Committed') <= Cardinality(Committed)
    BY <1>1, <2>1, FS_Subset
  <2>3. Cardinality(Committed') \in Nat
    BY <2>2, FS_CardinalityType
  <2> QED BY <1>0, <2>1, <2>2, <2>3 DEF Fitting
<1>2. CASE ~AdmissionPass
  BY <1>1, <1>2, CommittedShrinks
<1>3. CASE AdmissionPass
  <2>1. PICK late \in SUBSET Expirable :
          \E admitted \in SUBSET Candidates(late), entered \in SUBSET Backlog(late) :
            /\ Room(late, admitted)
            /\ grant' = [g \in Files |-> IF g \in admitted THEN Grant("dispatch")
                                         ELSE IF g \in entered THEN Grant("window")
                                         ELSE IF g \in late THEN NoGrant ELSE grant[g]]
    BY <1>3 DEF AdmissionPass
  <2>2. PICK admitted \in SUBSET Candidates(late), entered \in SUBSET Backlog(late) :
            /\ Room(late, admitted)
            /\ grant' = [g \in Files |-> IF g \in admitted THEN Grant("dispatch")
                                         ELSE IF g \in entered THEN Grant("window")
                                         ELSE IF g \in late THEN NoGrant ELSE grant[g]]
    BY <2>1
  <2>3. rebuilt /\ UNCHANGED <<api, lost>>
    BY <1>3 DEF AdmissionPass, world
  <2>4. \A g \in Files : grant'[g].kind = "dispatch" =>
          g \in admitted \/ (g \notin late /\ grant[g].kind = "dispatch")
    BY <2>2, GrantFacts
  <2>5. CASE admitted = {}
    <3>1. Committed' \subseteq Committed
      BY <2>3, <2>4, <2>5 DEF Committed, InSlot
    <3> QED BY <1>1, <3>1
  <2>6. CASE admitted # {}
    <3>1. Cardinality(Taken(late) \cup admitted) <= Slots
      BY <2>2, <2>6 DEF Room
    <3>2. Committed \ late \subseteq Taken(late) /\ (InSlot \ lost) \subseteq Taken(late)
      BY <2>3, CommittedTaken
    <3>3. Committed' \subseteq Taken(late) \cup admitted
      BY <2>3, <2>4, <3>2 DEF Committed, InSlot
    <3>4. Taken(late) \cup admitted \in SUBSET Files
      BY <2>2 DEF Taken, Candidates
    <3>5. IsFiniteSet(Taken(late) \cup admitted)
      BY <3>4, CommittedFinite, FS_Subset
    <3>6. Cardinality(Committed') <= Cardinality(Taken(late) \cup admitted) /\ IsFiniteSet(Committed')
      BY <3>3, <3>5, FS_Subset
    <3>7. Cardinality(Committed') \in Nat /\ Cardinality(Taken(late) \cup admitted) \in Nat
      BY <3>5, <3>6, FS_CardinalityType
    <3> QED BY <1>0, <3>1, <3>6, <3>7 DEF Fitting
  <2> QED BY <2>5, <2>6
<1> QED BY <1>2, <1>3

LEMMA InvStep == Inv /\ [Next]_vars => Inv'
  BY TypeStep, FilesStep, FittingStep DEF Inv

LEMMA InvInit == Init => Inv
<1> SUFFICES ASSUME Init PROVE Inv
  OBVIOUS
<1>0. NoScan.pc = 0 /\ NoScan.replace = FALSE /\ NoScan.at = {} /\ NoScan.got = Nothing
  BY DEF NoScan
<1>1. [seq |-> 0, phase |-> "out"] \in Views /\ ~InFlight([seq |-> 0, phase |-> "out"])
      /\ [seq |-> 0, phase |-> "out"] # Absent
  BY AdmissionAssumption DEF Views, Absent, Phases, InFlight, slotPhase
<1>2. TypeOK
  <2>1. api \in [Files -> Views] /\ cache \in [Files -> Views]
    BY <1>1 DEF Init
  <2>2. grant \in [Files -> Grants]
    BY GrantFacts DEF Init
  <2>3. lost = {} /\ scan \in Scans /\ landed \in [Files -> Views] /\ known \in [Files -> Views]
    BY NothingType DEF Init
  <2>4. rebuilt \in BOOLEAN /\ faults = 0 /\ reigns = 0
    BY DEF Init
  <2>5. faults \in 0 .. MaxFaults /\ reigns \in 0 .. MaxReigns
    BY <2>4, AdmissionAssumption
  <2> QED BY <2>1, <2>2, <2>3, <2>4, <2>5 DEF TypeOK
<1>3. ASSUME NEW f \in Files PROVE FileInv(f)
  <2> DEFINE out == [seq |-> 0, phase |-> "out"]
  <2>1. api[f] = out /\ cache[f] = out /\ landed[f] = Absent /\ known[f] = Absent /\ scan.got[f] = Absent
        /\ scan.at = {} /\ ~scan.replace /\ grant[f] = NoGrant /\ lost = {} /\ ~rebuilt
    BY <1>0 DEF Init, Nothing
  <2>2. Past(out, out)
    BY <1>1, PastSelf
  <2>3. ~InFlight(out) /\ out # Absent
    BY <1>1
  <2> HIDE DEF out
  <2>4. ViewsPast(f)
    BY <2>1, <2>2 DEF ViewsPast, Past
  <2>5. GoneIsGone(f)
    BY <2>1, <2>3 DEF GoneIsGone
  <2>6. LandedIsStored(f) /\ NothingEarly(f)
    BY <2>1 DEF LandedIsStored, NothingEarly, Landed
  <2>7. Covered(f) /\ Rebuilt(f)
    BY <2>1, <2>3 DEF Covered, Rebuilt
  <2> QED BY <2>1, <2>4, <2>5, <2>6, <2>7 DEF FileInv
<1>4. Fitting
  <2>1. Committed = {}
    BY <1>1, GrantFacts DEF Init, Committed, InSlot, InFlight
  <2> QED BY <2>1, FS_EmptySet, AdmissionAssumption DEF Fitting
<1> QED BY <1>2, <1>3, <1>4 DEF Inv

\* The apiserver, the loop and the ledger have their types in every state.
THEOREM TypeCorrect == Spec => []TypeOK
<1>1. Init => TypeOK
  BY InvInit DEF Inv
<1> QED BY <1>1, TypeStep, PTL DEF Spec

\* No more files are in flight than the class has slots, beside those whose dispatch
\* landed although its call failed (Admit, TakeGrant, ReleaseUnconfirmed).
THEOREM SlotsNotOverrun == Spec => []WithinSlots
<1>1. Inv => WithinSlots
  <2> SUFFICES ASSUME Inv PROVE WithinSlots
    OBVIOUS
  <2>1. (InSlot \ lost) \in SUBSET Committed
    BY DEF Committed
  <2>2. IsFiniteSet(InSlot \ lost) /\ Cardinality(InSlot \ lost) <= Cardinality(Committed)
    BY <2>1, CommittedFinite, FS_Subset
  <2>3. Cardinality(InSlot \ lost) \in Nat /\ Cardinality(Committed) \in Nat
    BY <2>2, CommittedFinite, FS_CardinalityType
  <2> QED BY <2>2, <2>3, AdmissionAssumption DEF Inv, Fitting, WithinSlots
<1> QED BY <1>1, InvInit, InvStep, PTL DEF Spec

\* A step of a leader that has yet to rebuild keeps the entry of a file in flight.
LEMMA EntryKept ==
    ASSUME Inv, [Next]_vars, reigns' = reigns, ~rebuilt, NEW f \in Files,
           InFlight(known[f]), InFlight(api'[f])
    PROVE  InFlight(known'[f])
<1>0. TypeOK /\ FileInv(f) /\ grant[f] = NoGrant
  BY DEF Inv, FileInv, NothingEarly
<1>1. /\ api[f] \in Views /\ cache[f] \in Views /\ landed[f] \in Views /\ known[f] \in Views
      /\ scan.got[f] \in Views
  BY <1>0, FileTypes
<1>2. InFlight(api[f])
  <2>1. CASE api'[f] = api[f]
    BY <2>1
  <2>2. CASE api'[f] # api[f]
    <3>1. PICK x \in Files : Apply(x) \/ ApplyLost(x) \/ Delete(x)
      BY <2>2 DEF Next, vars, AdmissionPass, Rebuilding, ListPhase, ScanBacklog, ObserveRead, MarkRebuilt, ScanFails,
                  CorrectUnseen, Reads, LeaderChange, Passing, PassGone, TakeGrant, Aborts, Quiet, Observe, Inform, world
    <3>2. x = f
      BY <1>0, <2>2, <3>1 DEF Apply, ApplyLost, Delete, Stores, TypeOK
    <3>3. ~Delete(f)
      BY <1>0, AbsentView DEF Delete, Stores, TypeOK
    <3>4. PICK v \in Applies(f) : Stores(f, v)
      BY <3>1, <3>2, <3>3 DEF Apply, ApplyLost
    <3>5. api'[f] = v
      BY <1>0, <3>4 DEF Stores, TypeOK
    <3> QED BY <1>0, <3>5, AppliesFacts, GrantFacts
  <2> QED BY <2>1, <2>2
<1>3. Apart(f) /\ known[f] # Absent /\ api[f] # Absent
  BY <1>0, <1>2, AbsentView DEF FileInv, Rebuilt
<1>4. \A u \in {cache[f], landed[f], scan.got[f]} : u # Absent /\ ~InFlight(u) => Older(u, known[f])
  <2>1. ~InFlight(landed[f]) => landed[f] = Absent
    BY <1>0, <1>2, <1>3 DEF FileInv, LandedIsStored, Landed
  <2>2. \A u \in {cache[f], scan.got[f]} : u # Absent /\ ~InFlight(u) => u.seq < known[f].seq
    BY <1>3 DEF Apart, Aside
  <2> QED BY <1>1, <1>3, <2>1, <2>2, OlderFacts
<1>5. CASE UNCHANGED known
  BY <1>5
<1>6. ASSUME NEW x \in Files, PassGone(x) PROVE InFlight(known'[f])
  <2>1. x # f
    BY <1>0, <1>3, <1>6 DEF PassGone, FileInv, GoneIsGone
  <2> QED BY <1>0, <1>6, <2>1 DEF PassGone, TypeOK
<1>7. ASSUME NEW x \in Files, Quiet(x) \/ Observe(x) PROVE InFlight(known'[f])
  <2>1. CASE x # f
    BY <1>0, <1>7, <2>1 DEF Quiet, Observe, Told, TypeOK
  <2>2. CASE x = f
    <3>1. PICK v \in {cache[f], landed[f]} : v # Absent /\ known' = [known EXCEPT ![f] = IF ~Older(v, known[f]) THEN v ELSE @]
      BY <1>7, <2>2 DEF Quiet, Observe, Told, Landed
    <3>2. known'[f] = IF ~Older(v, known[f]) THEN v ELSE known[f]
      BY <1>0, <3>1 DEF TypeOK
    <3> QED BY <1>4, <3>1, <3>2
  <2> QED BY <2>1, <2>2
<1>8. CASE ObserveRead
  <2>1. f \notin Replaces
    BY <1>0 DEF FileInv, NothingEarly, Replaces
  <2>2. ~(f \in scan.at /\ scan.got[f] = Absent)
    BY <1>0, <1>3 DEF FileInv, GoneIsGone
  <2>3. known'[f] = IF scan.got[f] # Absent /\ ~Older(scan.got[f], known[f]) THEN scan.got[f] ELSE known[f]
    BY <1>8, <2>1, <2>2 DEF ObserveRead, Observed, Stored
  <2> QED BY <1>4, <2>3
<1>9. CASE ListPhase \/ ScanBacklog \/ MarkRebuilt \/ ScanFails \/ \E x \in Files : CorrectUnseen(x)
  BY <1>5, <1>9 DEF ListPhase, ScanBacklog, MarkRebuilt, ScanFails, CorrectUnseen, Reads, ledger
<1>10. CASE \E x \in Files : TakeGrant(x) \/ Apply(x) \/ ApplyLost(x) \/ Aborts(x) \/ Inform(x) \/ Delete(x)
  BY <1>5, <1>10 DEF TakeGrant, Apply, ApplyLost, Aborts, Inform, Delete, ledger
<1>11. ~LeaderChange
  BY <1>0 DEF LeaderChange, TypeOK
<1>12. CASE AdmissionPass \/ UNCHANGED vars
  BY <1>5, <1>12 DEF AdmissionPass, vars
<1> QED BY <1>6, <1>7, <1>8, <1>9, <1>10, <1>11, <1>12 DEF Next, Passing, Rebuilding

\* A stale view never frees a slot: a leader's ledger stops counting a file, by its
\* entry or its grant, only when it is not in flight (observeLocked, observeQuorum).
THEOREM SlotsKept == Spec => SlotKept
<1>1. ASSUME Inv, [Next]_vars, reigns' = reigns
      PROVE  Taken({}) \cap (InSlot \ lost)' \subseteq Taken({})'
  <2> SUFFICES ASSUME NEW f \in Files, f \in Taken({}), InFlight(api'[f]), f \notin lost'
               PROVE  f \in Taken({})'
    BY DEF Taken, InSlot, InFlight
  <2>1. CASE rebuilt
    <3>1. rebuilt'
      <4>1. ~LeaderChange
        BY <1>1 DEF LeaderChange, Inv, TypeOK
      <4> QED BY <1>1, <2>1, <4>1 DEF Next, vars, AdmissionPass, Rebuilding, ListPhase, ScanBacklog, ObserveRead,
                  MarkRebuilt, ScanFails, CorrectUnseen, Reads, Passing, PassGone, TakeGrant, Apply, ApplyLost,
                  Aborts, Quiet, Observe, Inform, Delete, led
    <3>2. Covered(f)'
      BY <1>1, InvStep DEF Inv, FileInv
    <3>3. ByGrant(f)' \/ ByEntry(f)'
      BY <3>1, <3>2 DEF Covered
    <3> QED BY <3>3 DEF ByGrant, ByEntry, Taken, InFlight
  <2>2. CASE ~rebuilt
    <3>1. grant[f] = NoGrant
      BY <1>1, <2>2 DEF Inv, FileInv, NothingEarly
    <3>2. InFlight(known[f])
      BY <3>1, GrantFacts DEF Taken, InFlight
    <3>3. InFlight(known'[f])
      BY <1>1, <2>2, <3>2, EntryKept
    <3> QED BY <3>3 DEF Taken, InFlight
  <2> QED BY <2>1, <2>2
<1>2. Inv /\ [Next]_vars => (reigns' = reigns => Taken({}) \cap (InSlot \ lost)' \subseteq Taken({})')
  BY <1>1
<1> QED BY <1>2, InvInit, InvStep, PTL DEF Spec, SlotKept
=============================================================================
