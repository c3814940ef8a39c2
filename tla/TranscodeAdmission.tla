------------------------- MODULE TranscodeAdmission -------------------------
(* Transcode admission: the manager's ledger of files, the grants it issues *)
(* and the loop's passes that use them. One class of slots and one profile, *)
(* which stays, so that no file in flight is orphaned (pass.go's            *)
(* orphanedLocked); a deleted file does not come back under its name.       *)
(* The stored status is the apiserver's; the loop is its only writer and    *)
(* plans from the informer's cache, which may be behind. The ledger merges  *)
(* views of a file that arrive from passes, from quorum reads and from the  *)
(* cache, in whichever order they come.                                     *)
EXTENDS Integers, FiniteSets, Sequences

CONSTANTS Files,      \* the files
          Slots,      \* the class's slots (--slots)
          Window,     \* the profile's window (--job-window); 0 is unlimited
          MaxSeq,     \* bound: status.lastSeq
          MaxFaults,  \* bound: calls that fail, informers that lag
          MaxReigns,  \* bound: leaders after the first
          Deletable,  \* bound: the files that may be deleted
          Swapped,    \* bound: the files whose attempts may end in a swap
          Lagging     \* bound: the files whose informer may be behind

ASSUME AdmissionAssumption ==
    /\ IsFiniteSet(Files)
    /\ Slots \in Nat /\ Window \in Nat /\ MaxSeq \in Nat /\ MaxFaults \in Nat /\ MaxReigns \in Nat
    /\ Deletable \subseteq Files /\ Swapped \subseteq Files /\ Lagging \subseteq Files

VARIABLES api,      \* the files' stored statuses
          cache,    \* what the informer last delivered of them
          landed,   \* the applies of passes that have not told the ledger
          known,    \* the ledger's entries
          grant,    \* the ledger's grants
          rebuilt,  \* whether the first quorum read has landed
          scan,     \* the rebuild or resync under way
          lost,     \* the files in flight whose dispatch landed although its call failed
          faults, reigns

vars == <<api, cache, landed, known, grant, rebuilt, scan, lost, faults, reigns>>
world == <<api, cache, lost>>
ledger == <<known, grant>>
led == <<rebuilt, scan>>
bounds == <<faults, reigns>>

-----------------------------------------------------------------------------
(* Views of a file.                                                        *)

\* Out: no block or an ended one. Planned stands for Pending too.
Phases == {"out", "planned", "queued", "running", "swapping"}
slotPhase(p) == p \in {"queued", "running"}
windowPhase(p) == p \in {"planned", "queued", "running", "swapping"}

\* No such file, or none the ledger has an entry for.
Absent == [seq |-> 0, phase |-> "gone"]
Views == [seq : 0 .. MaxSeq, phase : Phases] \cup {Absent}

rank(p) == CASE p = "queued" -> 1 [] p = "running" -> 2 [] OTHER -> 3

NoGrant == [kind |-> "none", inUse |-> FALSE]
Grants == [kind : {"window", "dispatch"}, inUse : BOOLEAN] \cup {NoGrant}
Grant(kind) == [kind |-> kind, inUse |-> FALSE]

\* A rebuild: the reads it has made, whether it replaces (a resync), the files it
\* has read and not observed and what it read, and those observed since it started.
Scans == [pc : 0 .. 5, replace : BOOLEAN, at : SUBSET Files, got : [Files -> Views], fresh : SUBSET Files]
Nothing == [f \in Files |-> Absent]
NoScan == [pc |-> 0, replace |-> FALSE, at |-> {}, got |-> Nothing, fresh |-> {}]

\* One type for the apiserver, the loop and the ledger.
TypeOK ==
    /\ api \in [Files -> Views] /\ cache \in [Files -> Views]
    /\ landed \in [Files -> Views]
    /\ known \in [Files -> Views] /\ grant \in [Files -> Grants]
    /\ rebuilt \in BOOLEAN /\ scan \in Scans
    /\ lost \subseteq Files
    /\ faults \in 0 .. MaxFaults /\ reigns \in 0 .. MaxReigns

Init ==
    /\ api = [f \in Files |-> [seq |-> 0, phase |-> "out"]] /\ cache = api
    /\ landed = Nothing
    /\ known = Nothing /\ grant = [f \in Files |-> NoGrant]
    /\ rebuilt = FALSE /\ scan = NoScan
    /\ lost = {}
    /\ faults = 0 /\ reigns = 0

Fault == faults < MaxFaults /\ faults' = faults + 1 /\ UNCHANGED reigns

-----------------------------------------------------------------------------
(* The ledger.                                                             *)

\* Mutant of Older: the last view to arrive wins.
OlderNever(v, cur) == FALSE

\* observeLocked's order: a view older than the entry does not replace it.
Older(v, cur) ==
    /\ cur # Absent
    /\ v.seq < cur.seq \/ (v.seq = cur.seq /\ rank(v.phase) < rank(cur.phase))

\* storeLocked: an unused grant goes once the view holds its place, and a
\* dispatch grant goes with the Planned block it was for.
StoredGrant(f, v) ==
    IF ~grant[f].inUse /\ (windowPhase(v.phase) \/ grant[f].kind = "dispatch") THEN NoGrant ELSE grant[f]

\* The files of new that replace their entries: those that are no older, and in
\* a resync those whose entry was not observed since it started.
Stored(new, replaces) ==
    {f \in Files : new[f] # Absent /\ (f \in replaces \/ ~Older(new[f], known[f]))}

Observed(new, replaces, gone) ==
    LET stored == Stored(new, replaces)
    IN  /\ known' = [f \in Files |-> IF f \in gone THEN Absent ELSE IF f \in stored THEN new[f] ELSE known[f]]
        /\ grant' = [f \in Files |-> IF f \in gone THEN NoGrant
                                     ELSE IF f \in stored THEN StoredGrant(f, new[f]) ELSE grant[f]]

\* The slots taken: the files in flight, and the dispatch grants of others.
Taken(late) == {f \in Files : slotPhase(known[f].phase) \/ (f \notin late /\ grant[f].kind = "dispatch")}

\* The window places taken.
Open(late) == {f \in Files : windowPhase(known[f].phase) \/ (f \notin late /\ grant[f].kind = "window")}

\* The Planned files that compete: no grant, none that just expired (backoff).
Candidates(late) == {f \in Files \ late : known[f].phase = "planned" /\ grant[f] = NoGrant}
Backlog(late) == {f \in Files \ late : known[f].phase = "out" /\ grant[f] = NoGrant}

\* Mutant of Room: a grant not yet used takes no slot.
RoomByBlocks(late, admitted) ==
    admitted = {} \/ Cardinality({f \in Files : slotPhase(known[f].phase)} \cup admitted) <= Slots

\* Admit: nothing is admitted beyond the slots, even when they are overrun.
Room(late, admitted) == admitted = {} \/ Cardinality(Taken(late) \cup admitted) <= Slots

Fits(late, entered) ==
    Window = 0 \/ entered = {} \/ Cardinality(Open(late) \cup entered) <= Window

\* Unused grants that have run out of their TTL.
Expirable == {f \in Files : grant[f].kind # "none" /\ ~grant[f].inUse}

\* One admission pass: expired grants go, some of the Planned files that compete
\* get a slot each, some of the backlog a place in the window. Which of them
\* wins (priority, class, hold, backoff) is left open.
AdmissionPass ==
    /\ rebuilt /\ scan.pc = 0
    /\ \E late \in SUBSET Expirable :
       \E admitted \in SUBSET Candidates(late), entered \in SUBSET Backlog(late) :
         /\ late \cup admitted \cup entered # {}
         /\ Room(late, admitted) /\ Fits(late, entered)
         /\ grant' = [f \in Files |-> IF f \in admitted THEN Grant("dispatch")
                                      ELSE IF f \in entered THEN Grant("window")
                                      ELSE IF f \in late THEN NoGrant ELSE grant[f]]
    /\ UNCHANGED <<world, landed, known, led, bounds>>

-----------------------------------------------------------------------------
(* The loop's pass over a file. Passes of a file do not overlap and only   *)
(* they write its status, so what a pass does between the take of a grant  *)
(* and the apply, a compare-and-swap, is one step with it, and so is all   *)
(* of a pass that applies nothing. Telling the ledger comes after.         *)

Landed(f) == landed[f] # Absent

\* A file that is gone: forgetTranscode drops its entry and its grant.
PassGone(f) ==
    /\ ~Landed(f) /\ cache[f] = Absent /\ known[f] # Absent
    /\ known' = [known EXCEPT ![f] = Absent] /\ grant' = [grant EXCEPT ![f] = NoGrant]
    /\ UNCHANGED <<world, landed, led, bounds>>

\* Mutant of TakeGrant: a file without a grant takes one too.
TakeAnyGrant(f) ==
    /\ ~Landed(f) /\ cache[f] # Absent /\ ~grant[f].inUse
    /\ grant' = [grant EXCEPT ![f].inUse = TRUE]
    /\ UNCHANGED <<world, landed, known, led, bounds>>

\* TakeGrant: a grant in use does not expire and outlives the views that come.
TakeGrant(f) ==
    /\ ~Landed(f) /\ cache[f] # Absent /\ grant[f] # NoGrant /\ ~grant[f].inUse
    /\ grant' = [grant EXCEPT ![f].inUse = TRUE]
    /\ UNCHANGED <<world, landed, known, led, bounds>>

\* What the planner makes of a phase without a grant: an attempt goes on, ends
\* or returns to Planned; a fact found late is a swap.
Unaided(p) ==
    CASE p = "out" -> {"out", "swapping"}
      [] p = "planned" -> {"planned", "out", "swapping"}
      [] p = "queued" -> Phases
      [] p = "running" -> Phases \ {"queued"}
      [] p = "swapping" -> {"swapping", "out"}

\* Any planner of the file may issue a sequence number of its own.
Seqs(v) == v.seq .. (IF v.seq < MaxSeq THEN v.seq + 1 ELSE v.seq)

\* issue: a dispatch has a sequence number of its own.
Issued(v) == Seqs(v) \ {v.seq}

\* Plan: a window grant plans a file of the backlog, a dispatch grant queues a
\* Planned one; with either the planner may also decline.
Plans(v, kind, swaps) ==
    [seq : Seqs(v), phase : IF swaps THEN Unaided(v.phase) ELSE Unaided(v.phase) \ {"swapping"}]
    \cup (IF kind = "window" /\ v.phase = "out" THEN [seq : Seqs(v), phase : {"planned"}] ELSE {})
    \cup (IF kind = "dispatch" /\ v.phase = "planned" THEN [seq : Issued(v), phase : {"queued"}] ELSE {})

Held(f) == IF grant[f].inUse THEN grant[f].kind ELSE "none"

\* A grant in use when the pass ends: confirmed, released by an effect, or
\* ReleaseUnconfirmed.
Returned(f) == IF grant[f].inUse THEN NoGrant ELSE grant[f]

\* What a pass may apply: a view that is behind conflicts.
Applies(f) ==
    IF ~Landed(f) /\ api[f] # Absent /\ cache[f] = api[f]
    THEN Plans(api[f], Held(f), f \in Swapped) \ {api[f]}
    ELSE {}

\* The informer follows.
Stores(f, v) ==
    /\ api' = [api EXCEPT ![f] = v]
    /\ cache' = [cache EXCEPT ![f] = IF f \in Lagging THEN @ ELSE v]

\* The dispatches whose calls failed, when f becomes v.
Lost(f, v, failed) ==
    IF ~slotPhase(v.phase) THEN lost \ {f}
    ELSE IF failed /\ ~slotPhase(api[f].phase) THEN lost \cup {f} ELSE lost

\* PatchStatusCAS.
Apply(f) ==
    /\ \E v \in Applies(f) :
         /\ Stores(f, v)
         /\ landed' = [landed EXCEPT ![f] = v]
         /\ lost' = Lost(f, v, FALSE)
    /\ UNCHANGED <<ledger, led, bounds>>

\* The apply lands and its call fails all the same; the grant goes back.
ApplyLost(f) ==
    /\ Fault
    /\ \E v \in Applies(f) : Stores(f, v) /\ lost' = Lost(f, v, TRUE)
    /\ grant' = [grant EXCEPT ![f] = Returned(f)]
    /\ UNCHANGED <<landed, known, led>>

\* The pass ends before it stored anything (its view was behind, another write
\* moved the file, a read failed): the grant it took goes back.
Aborts(f) ==
    /\ ~Landed(f) /\ grant[f].inUse
    /\ grant' = [grant EXCEPT ![f] = Returned(f)]
    /\ UNCHANGED <<world, landed, known, led, bounds>>

\* observeTranscode, then the effects. An entry notes when it was observed; only a
\* resync asks. The grant goes with its effect, after the observe: until then it
\* takes the place the entry takes.
Told(f, v) ==
    LET stored == ~Older(v, known[f])
    IN  /\ known' = [known EXCEPT ![f] = IF stored THEN v ELSE @]
        /\ grant' = [grant EXCEPT ![f] = IF @.inUse THEN NoGrant ELSE IF stored THEN StoredGrant(f, v) ELSE @]
        /\ scan' = [scan EXCEPT !.fresh = IF scan.replace /\ stored THEN @ \cup {f} ELSE @]

\* A pass that changes nothing hands the ledger the status it read. The memo that
\* stops one whose cache is behind this process's last apply lapses after
\* staleWindow, and the cache may be further behind: it is taken to have lapsed.
Quiet(f) ==
    /\ ~Landed(f) /\ cache[f] # Absent
    /\ Told(f, cache[f])
    /\ UNCHANGED <<world, landed, rebuilt, bounds>>

Observe(f) ==
    /\ Landed(f)
    /\ Told(f, landed[f])
    /\ landed' = [landed EXCEPT ![f] = Absent]
    /\ UNCHANGED <<world, rebuilt, bounds>>

-----------------------------------------------------------------------------
(* Rebuild and resync: a quorum list per window phase, then, in a resync,  *)
(* the entries they did not return, then the cache.                        *)

Lists == <<"planned", "queued", "running", "swapping">>
Listed == Len(Lists)
Scanned == Len(Lists) + 1

Reads(pc, files, views) ==
    /\ scan.at = {}
    /\ scan' = [scan EXCEPT !.pc = pc, !.at = files,
                           !.got = [f \in Files |-> IF f \in files THEN views[f] ELSE Absent],
                           !.replace = IF scan.pc = 0 THEN rebuilt ELSE @]
    /\ UNCHANGED <<world, landed, ledger, rebuilt, bounds>>

\* One list through the quorum reader; the first starts the rebuild.
ListPhase ==
    /\ scan.pc < Listed
    /\ Reads(scan.pc + 1, {f \in Files : api[f].phase = Lists[scan.pc + 1]}, api)

\* correctUnseen: the entries in the window that no list returned and no pass has
\* observed meanwhile (what a list returns is observed at once).
Missed == {f \in Files \ scan.fresh : scan.replace /\ windowPhase(known[f].phase)}

CorrectUnseen(f) == scan.pc = Listed /\ f \in Missed /\ Reads(Listed, {f}, api)

\* scanBacklog: the files of the cache.
ScanBacklog ==
    /\ scan.pc = Listed /\ Missed = {}
    /\ Reads(Scanned, {f \in Files : cache[f] # Absent}, cache)

\* In a resync a quorum view replaces an entry observed before the lists started.
Replaces == IF scan.replace /\ scan.pc <= Listed THEN Files \ scan.fresh ELSE {}

\* What was read is observed; a file that was not found is forgotten.
ObserveRead ==
    /\ scan.at # {}
    /\ Observed(scan.got, Replaces, {f \in scan.at : scan.got[f] = Absent})
    /\ scan' = [scan EXCEPT !.at = {}, !.got = Nothing,
                           !.fresh = IF scan.replace THEN @ \cup Stored(scan.got, Replaces) ELSE @]
    /\ UNCHANGED <<world, landed, rebuilt, bounds>>

MarkRebuilt ==
    /\ scan.pc = Scanned /\ scan.at = {}
    /\ rebuilt' = TRUE /\ scan' = NoScan
    /\ UNCHANGED <<world, landed, ledger, bounds>>

\* A list or a get fails: the reconcile is tried again from its start.
ScanFails ==
    /\ scan.pc \in 1 .. Listed /\ scan.at = {} /\ Fault
    /\ scan' = NoScan
    /\ UNCHANGED <<world, landed, ledger, rebuilt>>

-----------------------------------------------------------------------------
(* Around them.                                                            *)

Inform(f) ==
    /\ cache[f] # api[f]
    /\ cache' = [cache EXCEPT ![f] = api[f]]
    /\ UNCHANGED <<api, lost, landed, ledger, led, bounds>>

Delete(f) ==
    /\ f \in Deletable /\ api[f] # Absent
    /\ Stores(f, Absent) /\ lost' = lost \ {f}
    /\ UNCHANGED <<landed, ledger, led, bounds>>

\* Another manager leads: what the last one remembered is gone, and its informer
\* may be as far behind.
LeaderChange ==
    /\ reigns < MaxReigns /\ reigns' = reigns + 1
    /\ landed' = Nothing
    /\ known' = Nothing /\ grant' = [f \in Files |-> NoGrant]
    /\ rebuilt' = FALSE /\ scan' = NoScan
    /\ UNCHANGED <<world, faults>>

Passing(f) ==
    \/ PassGone(f) \/ TakeGrant(f) \/ Apply(f) \/ ApplyLost(f) \/ Aborts(f) \/ Quiet(f)
    \/ Observe(f)
Rebuilding ==
    \/ ListPhase \/ ScanBacklog \/ ObserveRead \/ MarkRebuilt \/ ScanFails
    \/ \E f \in Files : CorrectUnseen(f)

Next ==
    \/ AdmissionPass \/ Rebuilding \/ LeaderChange
    \/ \E f \in Files : Passing(f) \/ Inform(f) \/ Delete(f)

Spec == Init /\ [][Next]_vars

-----------------------------------------------------------------------------
(* Properties.                                                             *)

InSlot == {f \in Files : slotPhase(api[f].phase)}

\* No more files are in flight than the class has slots, beside those whose
\* dispatch landed although its call failed: the ledger never heard of them (Admit,
\* TakeGrant, ReleaseUnconfirmed).
WithinSlots == Cardinality(InSlot \ lost) <= Slots

\* A stale view never frees a slot: whatever views of a file arrive, in whichever
\* order, a leader's ledger stops counting it, by its entry or its grant, only when
\* it is not in flight (observeLocked, observeQuorum).
SlotKept ==
    [][reigns' = reigns =>
         Taken({}) \cap (InSlot \ lost)' \subseteq Taken({})']_vars
=============================================================================
