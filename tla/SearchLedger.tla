---------------------------- MODULE SearchLedger ----------------------------
(* The dispatch ledger of a rebuildable durable (the automatic searches) and *)
(* the item passes that use it: a pass reads its item from the cache, asks   *)
(* the ledger for a slot, applies the item's status at the version it read,  *)
(* and only then tells the ledger what was published or answered. The ledger *)
(* lives in the leader's memory: a new leader rebuilds it from the cache,    *)
(* while passes already run, and audits it against the cache ever after.     *)
EXTENDS Integers, FiniteSets

CONSTANTS Keys,       \* the items
          MaxAckPending,  \* of the durable's consumer
          MaxSeq,     \* bound: dispatches asked for
          MaxFaults,  \* bound: effects of a pass that fail or are lost
          MaxReigns,  \* bound: leaders
          Failing,    \* bound: the items whose grabs may fail
          Deletable   \* bound: the items that may be deleted

ASSUME LedgerAssumption ==
    /\ IsFiniteSet(Keys) /\ MaxAckPending \in Nat \ {0}
    /\ MaxSeq \in Nat /\ MaxFaults \in Nat /\ MaxReigns \in Nat
    /\ Failing \subseteq Keys /\ Deletable \subseteq Keys

VARIABLES status,  \* each item's searchDispatch in the API server, and whether the item exists
          cache,   \* ... in the leader's informer
          clock,   \* the highest seq asked for (a seq is the time, so they grow)
          over,    \* the highest seq whose answer record stands, or past its Timeout
          redo,    \* the items a redownload is due for
          pass,    \* each item's pass
          res,     \* the ledger's book: the newest reservation, 0 for none
          pub,     \* ... the published dispatch, 0 for none
          aged,    \* ... not restamped for AuditAge
          first,   \* the keys waiting through AdmitFirst
          led,     \* where the ledger's goroutine is
          found,   \* what its rebuild, or its audit, read
          faults,  \* faults so far
          reigns   \* leaders so far

items == <<status, cache, clock, over, redo>>
book == <<res, pub, aged, first>>
vars == <<items, pass, book, led, found, faults, reigns>>

Seqs0 == 0 .. MaxSeq
Statuses == [seq : Seqs0, answered : Seqs0, life : {"here", "gone"}]
Passes == [pc : {"idle", "apply", "answered", "publish"},
           view : Statuses, next : Statuses, ans : Seqs0, pub : Seqs0]

New == [seq |-> 0, answered |-> 0, life |-> "here"]
Idle == [pc |-> "idle", view |-> New, next |-> New, ans |-> 0, pub |-> 0]
Nothing == [k \in Keys |-> 0]

\* The types, and the shape of a key's slots: a reservation is newer than the
\* dispatch it supersedes, and only a published slot ages.
TypeOK ==
    /\ status \in [Keys -> Statuses] /\ cache \in [Keys -> Statuses]
    /\ clock \in Seqs0 /\ over \in [Keys -> Seqs0]
    /\ redo \in SUBSET Keys /\ pass \in [Keys -> Passes]
    /\ res \in [Keys -> Seqs0] /\ pub \in [Keys -> Seqs0]
    /\ aged \in SUBSET Keys /\ first \in SUBSET Keys
    /\ led \in {"start", "install", "serving", "drop"} /\ found \in [Keys -> Seqs0]
    /\ faults \in 0 .. MaxFaults /\ reigns \in 0 .. MaxReigns
    /\ \A k \in Keys : (res[k] # 0 => res[k] > pub[k]) /\ (k \in aged => pub[k] # 0)

Init ==
    /\ status = [k \in Keys |-> New] /\ cache = [k \in Keys |-> New]
    /\ clock = 0 /\ over = Nothing
    /\ redo = {}
    /\ pass = [k \in Keys |-> Idle]
    /\ res = Nothing /\ pub = Nothing /\ aged = {} /\ first = {}
    /\ led = "start" /\ found = Nothing
    /\ faults = 0 /\ reigns = 0

Fault == faults < MaxFaults /\ faults' = faults + 1

Here(d) == d.life = "here"
InFlight(d) == Here(d) /\ d.seq > d.answered

-----------------------------------------------------------------------------
(* The ledger's calls. A key's slot is its newest reservation, or else its  *)
(* published dispatch, which comes back when the reservation lapses.        *)

Budget == 2 * MaxAckPending
Rebuilt == led \in {"serving", "drop"}
Booked == {k \in Keys : res[k] # 0 \/ pub[k] # 0}
SlotSeq(k) == IF res[k] # 0 THEN res[k] ELSE pub[k]

Free(k) ==
    /\ res' = [res EXCEPT ![k] = 0] /\ pub' = [pub EXCEPT ![k] = 0]
    /\ aged' = aged \ {k}

\* Mutants of Room: a routine search does not mind the waiting redownloads; a
\* new leader admits before it has rebuilt.
RoomForAll(k) == Rebuilt /\ Cardinality(Booked \ {k}) < Budget
RoomUnrebuilt(k) ==
    LET limit == IF k \in redo THEN Budget ELSE Budget - Cardinality(first \ {k})
    IN  Cardinality(Booked \ {k}) < limit

\* admit's test: the key's own older slot aside, and one slot less for every
\* waiting redownload when the key's search is a routine one.
Room(k) ==
    LET limit == IF k \in redo THEN Budget ELSE Budget - Cardinality(first \ {k})
    IN  Rebuilt /\ Cardinality(Booked \ {k}) < limit

\* Admitted at n: reserved, over whatever the key holds.
Reserve(k, n) ==
    /\ Room(k)
    /\ res' = [res EXCEPT ![k] = n] /\ first' = first \ {k}
    /\ UNCHANGED <<pub, aged>>

\* Refused: a redownload keeps its claim on the next slot.
Refuse(k) ==
    /\ ~Room(k)
    /\ first' = IF Rebuilt /\ k \in redo THEN first \cup {k} ELSE first
    /\ UNCHANGED <<res, pub, aged>>

\* Mutant of Published: the reservation it confirms stays.
PublishedBeside(k, s) ==
    /\ IF SlotSeq(k) > s THEN UNCHANGED <<pub, aged>>
                         ELSE pub' = [pub EXCEPT ![k] = s] /\ aged' = aged \ {k}
    /\ UNCHANGED <<res, first>>

Published(k, s) ==
    /\ IF SlotSeq(k) > s
       THEN UNCHANGED <<res, pub, aged>>
       ELSE /\ res' = [res EXCEPT ![k] = 0] /\ pub' = [pub EXCEPT ![k] = s]
            /\ aged' = aged \ {k}
    /\ UNCHANGED first

Holds(k, s) == k \in Booked /\ SlotSeq(k) <= s

Answered(k, s) ==
    /\ IF Holds(k, s) THEN Free(k) ELSE UNCHANGED <<res, pub, aged>>
    /\ UNCHANGED first

\* Mutant of Lapse: the superseded dispatch goes with the reservation.
LapseWhole(k) ==
    /\ res[k] # 0 /\ pass[k].pub # res[k]
    /\ Free(k)
    /\ UNCHANGED <<items, pass, first, led, found, faults, reigns>>

\* lapseLocked. Timing: a pass that reserved a slot comes to its publish within
\* ReservationTTL.
Lapse(k) ==
    /\ res[k] # 0 /\ pass[k].pub # res[k]
    /\ res' = [res EXCEPT ![k] = 0]
    /\ UNCHANGED <<items, pass, pub, aged, first, led, found, faults, reigns>>

\* firstWaitingLocked: the claim of a key that stopped asking is forgotten.
LapseFirst(k) ==
    /\ k \in first \ redo
    /\ first' = first \ {k}
    /\ UNCHANGED <<items, pass, res, pub, aged, led, found, faults, reigns>>

\* AuditAge passes over a published slot. Timing: no cache is that old.
Age(k) ==
    /\ pub[k] # 0 /\ k \notin aged /\ cache[k] = status[k]
    /\ aged' = aged \cup {k}
    /\ UNCHANGED <<items, pass, res, pub, first, led, found, faults, reigns>>

-----------------------------------------------------------------------------
(* The item's pass.                                                        *)

Begins(k, next, ans, publish) ==
    pass' = [pass EXCEPT ![k] = [pc |-> "apply", view |-> cache[k], next |-> next,
                                 ans |-> ans, pub |-> publish]]

\* Decide's closing rows: the dispatch after its answer record or its Timeout.
Closes(k) == InFlight(cache[k]) /\ cache[k].seq <= over[k]
Closed(k) == IF Closes(k) THEN [cache[k] EXCEPT !.answered = cache[k].seq] ELSE cache[k]

\* A dispatch followed by one that is over itself: its answer record was replaced,
\* so a view that still shows it in flight closes it only after its Timeout.
Outlived(k) == InFlight(cache[k]) /\ cache[k].seq < over[k]

\* The answer owed to the ledger: of the dispatch closed now, or of one that
\* was closed before while the ledger still holds it.
Owed(k) == IF Closes(k) \/ (cache[k].seq # 0 /\ Holds(k, cache[k].seq)) THEN cache[k].seq ELSE 0

\* Still in flight: published again, now and then.
PlanInFlight(k) ==
    /\ pass[k].pc = "idle" /\ (InFlight(Closed(k)) \/ Outlived(k))
    /\ \E s \in {0, cache[k].seq} : Begins(k, cache[k], 0, s)
    /\ UNCHANGED <<items, book, led, found, faults, reigns>>

\* Nothing in flight and nothing due, or paced.
PlanNothing(k) ==
    /\ pass[k].pc = "idle" /\ Here(cache[k]) /\ ~InFlight(Closed(k))
    /\ Begins(k, Closed(k), Owed(k), 0)
    /\ UNCHANGED <<items, book, led, found, faults, reigns>>

\* A search is due: admitted at a new seq, or left waiting.
PlanSearch(k) ==
    /\ pass[k].pc = "idle" /\ Here(cache[k]) /\ ~InFlight(Closed(k))
    /\ clock < MaxSeq
    /\ \/ /\ Reserve(k, clock + 1)
          /\ clock' = clock + 1
          /\ Begins(k, [Closed(k) EXCEPT !.seq = clock + 1],
                    IF Closes(k) THEN cache[k].seq ELSE 0, clock + 1)
       \/ /\ Refuse(k)
          /\ Begins(k, Closed(k), Owed(k), 0)
          /\ UNCHANGED clock
    /\ UNCHANGED <<status, cache, over, redo, led, found, faults, reigns>>

\* ownerGone: the cache does not hold the item.
PassGone(k) ==
    /\ pass[k].pc = "idle" /\ ~Here(cache[k])
    /\ k \in Booked \cup first
    /\ Free(k) /\ first' = first \ {k}
    /\ UNCHANGED <<items, pass, led, found, faults, reigns>>

Effects(k) ==
    pass' = [pass EXCEPT ![k] =
        IF pass[k].ans = 0 /\ pass[k].pub = 0 THEN Idle
        ELSE [@ EXCEPT !.pc = IF pass[k].ans # 0 THEN "answered" ELSE "publish",
                       !.view = New, !.next = New]]

Ends(k) == pass' = [pass EXCEPT ![k] = Idle]

\* The status at the version read: an unchanged one is not written.
Issues(k) == pass[k].next.seq # pass[k].view.seq

Writes(k) ==
    /\ status[k] = pass[k].view
    /\ status' = [status EXCEPT ![k] = pass[k].next]
    /\ redo' = IF Issues(k) THEN redo \ {k} ELSE redo

Apply(k) ==
    /\ pass[k].pc = "apply"
    /\ \/ Writes(k) /\ Effects(k)
       \/ status[k] # pass[k].view /\ pass[k].next # pass[k].view /\ Ends(k) /\ UNCHANGED <<status, redo>>
       \/ status[k] # pass[k].view /\ pass[k].next = pass[k].view /\ Effects(k) /\ UNCHANGED <<status, redo>>
    /\ UNCHANGED <<cache, clock, over, book, led, found, faults, reigns>>

\* Another set of the item conflicts, before this one or after it: the pass
\* ends without its effects.
ApplyCut(k) ==
    /\ pass[k].pc = "apply" /\ Fault
    /\ Writes(k) \/ UNCHANGED <<status, redo>>
    /\ Ends(k)
    /\ UNCHANGED <<cache, clock, over, book, led, found, reigns>>

TellAnswered(k) ==
    /\ pass[k].pc = "answered"
    /\ Answered(k, pass[k].ans)
    /\ pass' = [pass EXCEPT ![k] = IF pass[k].pub = 0 THEN Idle ELSE [@ EXCEPT !.pc = "publish"]]
    /\ UNCHANGED <<items, led, found, faults, reigns>>

PublishTask(k) ==
    /\ pass[k].pc = "publish"
    /\ Published(k, pass[k].pub)
    /\ Ends(k)
    /\ UNCHANGED <<items, led, found, faults, reigns>>

\* The publish fails, or only its acknowledgement does.
PublishFails(k) ==
    /\ pass[k].pc = "publish" /\ Fault
    /\ Ends(k)
    /\ UNCHANGED <<items, book, led, found, reigns>>

-----------------------------------------------------------------------------
(* The ledger's goroutine.                                                 *)

\* rebuild lists the cache first and replaces the book later.
RebuildList ==
    /\ led = "start"
    /\ found' = [k \in Keys |-> IF InFlight(cache[k]) THEN cache[k].seq ELSE 0]
    /\ led' = "install"
    /\ UNCHANGED <<items, pass, book, faults, reigns>>

RebuildInstall ==
    /\ led = "install"
    /\ res' = Nothing /\ pub' = found /\ aged' = {}
    /\ found' = Nothing /\ led' = "serving"
    /\ UNCHANGED <<items, pass, first, faults, reigns>>

\* Mutant of Stale: an item the cache does not hold is taken to be in flight.
StaleKnown(k) == k \in aged /\ res[k] = 0 /\ Here(cache[k]) /\ ~InFlight(cache[k])

\* An old published slot that status does not show in flight.
Stale(k) == k \in aged /\ res[k] = 0 /\ ~InFlight(cache[k])

\* audit reads status without its lock, and drops what is still the same slot.
AuditRead ==
    /\ led = "serving" /\ \E k \in Keys : Stale(k)
    /\ found' = [k \in Keys |-> IF Stale(k) THEN pub[k] ELSE 0]
    /\ led' = "drop"
    /\ UNCHANGED <<items, pass, book, faults, reigns>>

AuditDrop ==
    LET dropped == {k \in Keys : found[k] # 0 /\ res[k] = 0 /\ pub[k] = found[k] /\ k \in aged}
    IN  /\ led = "drop"
        /\ pub' = [k \in Keys |-> IF k \in dropped THEN 0 ELSE pub[k]]
        /\ aged' = aged \ dropped
        /\ found' = Nothing /\ led' = "serving"
        /\ UNCHANGED <<items, pass, res, first, faults, reigns>>

\* A new leader: nothing in memory. Timing: its cache has caught up with the
\* old one's last write by the time it has the lease.
LeaderChange ==
    /\ reigns < MaxReigns /\ reigns' = reigns + 1
    /\ cache' = status
    /\ pass' = [k \in Keys |-> Idle]
    /\ res' = Nothing /\ pub' = Nothing /\ aged' = {} /\ first' = {}
    /\ led' = "start" /\ found' = Nothing
    /\ UNCHANGED <<status, clock, over, redo, faults>>

-----------------------------------------------------------------------------
(* The rest of the world.                                                  *)

Inform(k) ==
    /\ cache[k] # status[k]
    /\ cache' = [cache EXCEPT ![k] = status[k]]
    /\ UNCHANGED <<status, clock, over, redo, pass, book, led, found, faults, reigns>>

\* The agent's answer record, or the dispatch's Timeout.
Over(k) ==
    /\ InFlight(status[k]) /\ over[k] < status[k].seq
    /\ over' = [over EXCEPT ![k] = status[k].seq]
    /\ UNCHANGED <<status, cache, clock, redo, pass, book, led, found, faults, reigns>>

\* A grab of the item failed, and its redownload is due; later its window is
\* over, or the item has its file.
Redownload(k) ==
    /\ k \in Failing /\ Here(status[k])
    /\ redo' = IF k \in redo THEN redo \ {k} ELSE redo \cup {k}
    /\ UNCHANGED <<status, cache, clock, over, pass, book, led, found, faults, reigns>>

Delete(k) ==
    /\ k \in Deletable /\ Here(status[k])
    /\ status' = [status EXCEPT ![k].life = "gone"] /\ redo' = redo \ {k}
    /\ UNCHANGED <<cache, clock, over, pass, book, led, found, faults, reigns>>

-----------------------------------------------------------------------------
Plan(k) == PlanInFlight(k) \/ PlanNothing(k) \/ PlanSearch(k) \/ PassGone(k)
Goes(k) == Apply(k) \/ TellAnswered(k) \/ PublishTask(k)
Keeps == RebuildList \/ RebuildInstall \/ AuditRead \/ AuditDrop

Next ==
    \/ \E k \in Keys :
         \/ Plan(k) \/ Goes(k) \/ ApplyCut(k) \/ PublishFails(k)
         \/ Lapse(k) \/ LapseFirst(k) \/ Age(k)
         \/ Inform(k) \/ Over(k) \/ Redownload(k) \/ Delete(k)
    \/ Keeps \/ LeaderChange

Spec == Init /\ [][Next]_vars

\* A pass that began goes on, time passes, the informer and the ledger's
\* goroutine work. No pass need ever begin: nothing requeues an item that is
\* no longer wanted.
FairSpec ==
    /\ Spec /\ WF_vars(Keeps)
    /\ \A k \in Keys : WF_vars(Goes(k)) /\ WF_vars(Lapse(k)) /\ WF_vars(Age(k)) /\ WF_vars(Inform(k))

-----------------------------------------------------------------------------
(* Properties.                                                             *)

\* The items that exist hold no more slots than the budget, and one more for each
\* pass that lost its effects: over supersession, lapses, stale views, the audit
\* and leaders that rebuild while passes run (admit, rebuild).
WithinBudget == Cardinality({k \in Booked : Here(status[k])}) <= Budget + faults

Confirmed(k) == pub[k] = status[k].seq

\* A dispatch in flight keeps its published slot until it is closed: neither a
\* reservation that lapses over it, nor the audit, nor an answer meant for an
\* earlier dispatch gives it away; and a rebuild finds every one of them.
SlotOutlivesDispatch ==
    [][\A k \in Keys :
         /\ InFlight(status[k]) /\ InFlight(status'[k]) /\ status'[k].seq = status[k].seq
         /\ Rebuilt' /\ (Rebuilt => Confirmed(k))
         => Confirmed(k)']_vars

\* A slot free for a waiting redownload is not taken by a routine search (R25's
\* window must not run out behind them; AdmitFirst).
RedownloadKeepsItsSlot ==
    [][\A j \in first, k \in Keys \ redo :
         /\ Cardinality(Booked \ {j}) < Budget
         /\ res[k] = 0 /\ res'[k] # 0
         => Cardinality(Booked' \ {j}) < Budget]_vars

\* The slot of a closed dispatch is released in the end, even if no pass of its
\* item ever runs again: the answer is told, or the audit finds it.
SlotReleased ==
    \A k \in Keys :
        (k \in Booked /\ ~InFlight(status[k])) ~> (k \notin Booked \/ InFlight(status[k]))
=============================================================================
