---------------------------- MODULE UsenetGrants ----------------------------
(* The usenet connection ledger: one provider account, its entry in the     *)
(* key-value bucket, and the transfers of the engine pods that take, renew  *)
(* and give back grants of its connections. Every operation on the entry is *)
(* a read and a compare-and-swap that decides again when the entry moved.   *)
(* Each holder is the transfer of a pod of its own; its workers, the loop   *)
(* that renews its grant and whoever gives it back run side by side.        *)
EXTENDS Integers, FiniteSets

CONSTANTS Holders,    \* the transfers
          Limit,      \* the account's connections
          Share,      \* what a transfer asks for (it takes one at the least)
          Crossing,   \* bound: the transfers that may ask while they give back
          MaxFaults,  \* bound: failed calls, renewals missed
          MaxCrashes  \* bound: pods that die

ASSUME GrantsAssumption ==
    /\ IsFiniteSet(Holders)
    /\ Limit \in Nat \ {0} /\ Share \in 1 .. Limit /\ Crossing \subseteq Holders
    /\ MaxFaults \in Nat /\ MaxCrashes \in Nat

VARIABLES conns,    \* the entry: each holder's connections, 0 without a grant
          life,     \* how far each grant of the entry is from its Expires
          mine,     \* the pods' memory of the grants they renew
          grant,    \* the transfers' grants: the bound of their fetches
          op,       \* the operations under way
          lapsed,   \* the transfers that use a grant that expired and is not put back
          crossed,  \* the transfers that last asked while they were giving back
          faults,   \* faults so far
          crashes   \* pods that died so far

entry == <<conns, life>>
bounds == <<faults, crashes>>
vars == <<conns, life, mine, grant, op, lapsed, crossed, faults, crashes>>

Sizes == 0 .. Limit

\* Renewed within GrantRenewInterval; not renewed since; past its Expires.
Lives == {"fresh", "late", "expired"}

\* A Take, a Give and a Renew: where it stands; the grants it found expired;
\* what its write makes of the holder's grant, and whether with a new Expires;
\* and, for a renewal, the grant it set out to renew and whether it found that gone.
Kinds == {"take", "give", "renew"}
Ops == [pc : {"no", "forget", "read", "write", "done", "drop", "set"}, drop : SUBSET Holders,
        size : Sizes, extend : BOOLEAN, had : Sizes, gone : BOOLEAN]
NoOp == [pc |-> "no", drop |-> {}, size |-> 0, extend |-> FALSE, had |-> 0, gone |-> FALSE]

\* One type for the entry, the pods and their operations.
TypeOK ==
    /\ conns \in [Holders -> Sizes] /\ life \in [Holders -> Lives]
    /\ mine \in [Holders -> Sizes] /\ grant \in [Holders -> Sizes]
    /\ op \in [Holders -> [Kinds -> Ops]]
    /\ lapsed \subseteq Holders /\ crossed \subseteq Holders
    /\ faults \in 0 .. MaxFaults /\ crashes \in 0 .. MaxCrashes

Init ==
    /\ conns = [h \in Holders |-> 0] /\ life = [h \in Holders |-> "fresh"]
    /\ mine = [h \in Holders |-> 0] /\ grant = [h \in Holders |-> 0]
    /\ op = [h \in Holders |-> [k \in Kinds |-> NoOp]]
    /\ lapsed = {} /\ crossed = {} /\ faults = 0 /\ crashes = 0

Fault == faults < MaxFaults /\ faults' = faults + 1 /\ UNCHANGED crashes

\* The connections of all holders together.
Connections(size) == {c \in Holders \X (1 .. Limit) : c[2] <= size[c[1]]}
Total(size) == Cardinality(Connections(size))

-----------------------------------------------------------------------------
(* swap: read, prune and decide; then write at the revision read.          *)

At(h, k, pc) == op[h][k].pc = pc
Begins(h, k, o) == op' = [op EXCEPT ![h][k] = o]
Ends(h, k) == Begins(h, k, NoOp)

InLife(l) == {h \in Holders : conns[h] > 0 /\ life[h] = l}

\* Mutant of Prunings: an expired grant stays until it is given back.
NoPrunings == {{}}

\* prune: a pod drops what has expired by its own clock, which may run ahead of
\* the one that wrote the Expires.
Prunings == {InLife("expired") \cup early : early \in SUBSET InLife("late")}

\* held: what the grants left hold.
Kept(drop) == [h \in Holders |-> IF h \in drop THEN 0 ELSE conns[h]]
Free(drop) == Limit - Total(Kept(drop))

\* A take hands its grant over and a renewal reports what is gone; otherwise
\* the operation is over when its swap is.
Settled(k, o) ==
    IF k = "take" \/ o.gone
    THEN [NoOp EXCEPT !.pc = "done", !.size = o.size, !.gone = o.gone]
    ELSE NoOp

\* Reads the entry and decides what becomes of h's grant. Nothing is written when
\* nothing changed; a pruned entry is.
Reads(h, k, drop, size, extend, gone) ==
    LET o == [op[h][k] EXCEPT !.pc = "write", !.drop = drop,
                              !.size = size, !.extend = extend, !.gone = gone]
    IN  /\ At(h, k, "read")
        /\ Begins(h, k, IF size # Kept(drop)[h] \/ extend \/ drop # {} THEN o ELSE Settled(k, o))
        /\ UNCHANGED <<entry, mine, grant, lapsed, crossed, bounds>>

\* Mutant of Behind: a put that ignores the revision.
NotBehind(o) == o

\* The entry moved under an operation: its own write misses and it reads again.
Behind(o) == IF o.pc = "write" THEN [NoOp EXCEPT !.pc = "read", !.had = o.had] ELSE o

\* What a transfer uses, or is about to: a Take has answered it.
Taking(h) == At(h, "take", "done") \/ At(h, "take", "set")
Holding(h) == IF Taking(h) THEN op[h]["take"].size ELSE grant[h]
InUse == {h \in Holders : Holding(h) > 0}

\* The transfers that may use their grants again once w is written for h: the grant
\* is put back, whole.
Restored(h, w) == IF w.extend /\ Holding(h) <= w.size THEN {h} ELSE {}

\* The write lands and leaves h's operation at o. Expired grants go, and h's
\* becomes what was decided.
Stores(h, k, o) ==
    LET w == op[h][k]
    IN  /\ conns' = [g \in Holders |-> IF g = h THEN w.size ELSE IF g \in w.drop THEN 0 ELSE conns[g]]
        /\ life' = [life EXCEPT ![h] = IF w.extend THEN "fresh" ELSE @]
        /\ lapsed' = (lapsed \cup (w.drop \cap InUse)) \ Restored(h, w)
        /\ op' = [g \in Holders |-> [j \in Kinds |-> IF g = h /\ j = k THEN o ELSE Behind(op[g][j])]]

Write(h, k) ==
    /\ At(h, k, "write")
    /\ Stores(h, k, Settled(k, op[h][k]))
    /\ UNCHANGED <<mine, grant, crossed, bounds>>

-----------------------------------------------------------------------------
(* Take: ensureGrant, takeGrant.                                           *)

\* A worker that finds no grant asks for one, one worker at a time (grantMu).
\* giveGrant, which holds no such lock, may still be giving the last one back; then
\* the two cross.
Ask(h) ==
    /\ grant[h] = 0 /\ At(h, "take", "no")
    /\ h \in Crossing \/ At(h, "give", "no")
    /\ Begins(h, "take", [NoOp EXCEPT !.pc = "read"])
    /\ crossed' = IF At(h, "give", "no") THEN crossed \ {h} ELSE crossed \cup {h}
    /\ UNCHANGED <<entry, mine, grant, lapsed, bounds>>

\* Mutant of Decide: one more than is free.
DecideOneMore(free) == IF free <= Share THEN free + 1 ELSE Share

\* decide: what is free, at most the share.
Decide(free) == IF free <= Share THEN free ELSE Share

\* A holder the entry already names gets its size back, and no new Expires.
TakeRead(h) ==
    \E drop \in Prunings :
        LET got == Decide(Free(drop))
        IN  IF Kept(drop)[h] > 0
            THEN Reads(h, "take", drop, conns[h], FALSE, FALSE)
            ELSE Reads(h, "take", drop, got, got > 0, FALSE)

\* The ledger remembers the grant it hands over; with nothing free the transfer
\* parks and asks again, or stops asking (paused, outranked, over).
TakeRemember(h) ==
    LET take == op[h]["take"]
    IN  /\ take.pc = "done"
        /\ \/ /\ take.size > 0
              /\ mine' = [mine EXCEPT ![h] = take.size]
              /\ Begins(h, "take", [take EXCEPT !.pc = "set"])
           \/ /\ take.size = 0
              /\ \E pc \in {"read", "no"} : Begins(h, "take", [NoOp EXCEPT !.pc = pc])
              /\ UNCHANGED mine
        /\ UNCHANGED <<entry, grant, lapsed, crossed, bounds>>

\* The transfer's grant and its limiter, under the job's own lock.
TakeSet(h) ==
    /\ At(h, "take", "set")
    /\ grant' = [grant EXCEPT ![h] = op[h]["take"].size]
    /\ Ends(h, "take")
    /\ UNCHANGED <<entry, mine, lapsed, crossed, bounds>>

-----------------------------------------------------------------------------
(* Give: giveGrant.                                                        *)

\* The limiter closes at once; the ledger hears of it after.
GiveStart(h) ==
    /\ grant[h] > 0 /\ At(h, "give", "no")
    /\ grant' = [grant EXCEPT ![h] = 0]
    /\ lapsed' = lapsed \ {h}
    /\ Begins(h, "give", [NoOp EXCEPT !.pc = "forget"])
    /\ UNCHANGED <<entry, mine, crossed, bounds>>

GiveForget(h) ==
    /\ At(h, "give", "forget")
    /\ mine' = [mine EXCEPT ![h] = 0]
    /\ Begins(h, "give", [NoOp EXCEPT !.pc = "read"])
    /\ UNCHANGED <<entry, grant, lapsed, crossed, bounds>>

GiveRead(h) == \E drop \in Prunings : Reads(h, "give", drop, 0, FALSE, FALSE)

-----------------------------------------------------------------------------
(* Renew: one tick of the pod's renewLoop.                                 *)

\* The grants to renew are copied under the lock.
RenewStart(h) ==
    /\ mine[h] > 0 /\ At(h, "renew", "no")
    /\ Begins(h, "renew", [NoOp EXCEPT !.pc = "read", !.had = mine[h]])
    /\ UNCHANGED <<entry, mine, grant, lapsed, crossed, bounds>>

\* Mutant of Fits: a pruned grant is put back whether or not there is room.
FitsAlways(h, drop) == mine[h] > 0

\* stillMine, and room left for the grant.
Fits(h, drop) == mine[h] > 0 /\ op[h]["renew"].had <= Free(drop)

\* Mutant of RenewRead: a grant that cannot be put back is not reported.
RenewKeepsQuiet(h) ==
    \E drop \in Prunings :
        IF Kept(drop)[h] > 0
        THEN Reads(h, "renew", drop, conns[h], TRUE, FALSE)
        ELSE IF Fits(h, drop)
        THEN Reads(h, "renew", drop, op[h]["renew"].had, TRUE, FALSE)
        ELSE Reads(h, "renew", drop, 0, FALSE, FALSE)

\* A grant of the entry is extended. One that was pruned is put back when the pod
\* still holds it and it fits; one that does not fit is gone.
RenewRead(h) ==
    \E drop \in Prunings :
        IF Kept(drop)[h] > 0
        THEN Reads(h, "renew", drop, conns[h], TRUE, FALSE)
        ELSE IF Fits(h, drop)
        THEN Reads(h, "renew", drop, op[h]["renew"].had, TRUE, FALSE)
        ELSE Reads(h, "renew", drop, 0, FALSE, mine[h] > 0)

\* A holder found gone is forgotten and reported lost; then dropGrant closes the
\* limiter of its transfer, whatever grant that has by then.
RenewForget(h) ==
    /\ At(h, "renew", "done")
    /\ mine' = [mine EXCEPT ![h] = 0]
    /\ Begins(h, "renew", [NoOp EXCEPT !.pc = "drop"])
    /\ UNCHANGED <<entry, grant, lapsed, crossed, bounds>>

RenewDrop(h) ==
    /\ At(h, "renew", "drop")
    /\ grant' = [grant EXCEPT ![h] = 0]
    /\ lapsed' = IF Taking(h) THEN lapsed ELSE lapsed \ {h}
    /\ Ends(h, "renew")
    /\ UNCHANGED <<entry, mine, crossed, bounds>>

-----------------------------------------------------------------------------
(* Failures and time.                                                      *)

\* A call of the bucket fails, its write stored or not, or the tries run out. A
\* take is tried again or given up (paused, outranked, over), a give left to the
\* TTL, a renewal left to the next tick.
Fails(h, k) ==
    /\ Fault
    /\ \E pc \in IF k = "take" THEN {"read", "no"} ELSE {"no"} :
         LET o == [NoOp EXCEPT !.pc = pc]
         IN  \/ op[h][k].pc \in {"read", "write"} /\ Begins(h, k, o) /\ UNCHANGED <<entry, lapsed>>
             \/ At(h, k, "write") /\ Stores(h, k, o)
    /\ UNCHANGED <<mine, grant, crossed>>

\* The pod dies and starts again: its transfers resume under the same holders.
Crash(h) ==
    /\ crashes < MaxCrashes /\ crashes' = crashes + 1
    /\ mine' = [mine EXCEPT ![h] = 0] /\ grant' = [grant EXCEPT ![h] = 0]
    /\ op' = [op EXCEPT ![h] = [k \in Kinds |-> NoOp]]
    /\ lapsed' = lapsed \ {h}
    /\ UNCHANGED <<entry, crossed, faults>>

\* A grant nobody renews is late. A pod that holds one renews it in time, and a
\* Take is answered in time, unless their calls fail.
Late(h) ==
    /\ conns[h] > 0 /\ life[h] = "fresh"
    /\ mine[h] = 0 /\ ~Taking(h)
    /\ life' = [life EXCEPT ![h] = "late"]
    /\ UNCHANGED <<conns, mine, grant, op, lapsed, crossed, bounds>>

Missed(h) ==
    /\ conns[h] > 0 /\ life[h] = "fresh" /\ mine[h] > 0 /\ Fault
    /\ life' = [life EXCEPT ![h] = "late"]
    /\ UNCHANGED <<conns, mine, grant, op, lapsed, crossed>>

Expire(h) ==
    /\ conns[h] > 0 /\ life[h] = "late"
    /\ life' = [life EXCEPT ![h] = "expired"]
    /\ lapsed' = lapsed \cup ({h} \cap InUse)
    /\ UNCHANGED <<conns, mine, grant, op, crossed, bounds>>

-----------------------------------------------------------------------------
Ages(h) == Late(h) \/ Expire(h)
Takes(h) == TakeRead(h) \/ Write(h, "take") \/ TakeRemember(h) \/ TakeSet(h)
Gives(h) == GiveForget(h) \/ GiveRead(h) \/ Write(h, "give")
Renews(h) == RenewStart(h) \/ RenewRead(h) \/ Write(h, "renew") \/ RenewForget(h) \/ RenewDrop(h)

Next ==
    \E h \in Holders :
        \/ Ask(h) \/ Takes(h) \/ GiveStart(h) \/ Gives(h) \/ Renews(h)
        \/ \E k \in Kinds : Fails(h, k)
        \/ Crash(h) \/ Missed(h) \/ Ages(h)

Spec == Init /\ [][Next]_vars

\* A pod goes on with a take it began and renews what it holds; a renewal whose
\* write could land again and again lands; a grant nobody renews runs out. No give
\* is required to come to an end.
FairSpec ==
    /\ Spec
    /\ \A h \in Holders :
         /\ WF_vars(Takes(h)) /\ WF_vars(Renews(h)) /\ SF_vars(Write(h, "renew"))
         /\ WF_vars(Ages(h))

-----------------------------------------------------------------------------
(* Properties.                                                             *)

\* The grants the entry names never add up to more than the account's limit,
\* whichever writers prune, renew and put back at once (decide, Renew, swap).
EntryWithinLimit == Total(conns) <= Limit

\* What the transfers of a set fetch over, beside those whose grant expired under
\* them and is not put back.
Fetching(hs) == [h \in Holders |-> IF h \in hs \ lapsed THEN grant[h] ELSE 0]

\* The transfers together fetch over no more connections than the account has
\* (Take, giveGrant, dropGrant).
WithinLimit == Total(Fetching(Holders)) <= Limit

\* ... and so do the transfers that did not ask beside a give of their own,
\* whatever the others do (Take, giveGrant, dropGrant).
OrderlyWithinLimit == Total(Fetching(Holders \ crossed)) <= Limit

\* The pod renews h's grant, and no give is about to make it forget it.
Renewed(h) == mine[h] > 0 /\ ~At(h, "give", "forget")
Unbacked(h) == grant[h] > 0 /\ conns[h] = 0

\* A transfer whose grant is gone from the entry while its pod renews it is
\* noticed: put back, dropped or given back (renewLoop, dropGrant).
UnbackedNoticed == \A h \in Holders : Unbacked(h) /\ Renewed(h) ~> ~Unbacked(h)

\* A grant nobody holds: its pod died, its give failed, or a renewal put it back
\* after the give.
Orphan(h) == conns[h] > 0 /\ mine[h] = 0 /\ grant[h] = 0 /\ \A k \in Kinds : At(h, k, "no")
Asking(h) == op[h]["take"].pc # "no"

\* Its connections return while another transfer waits for them.
ConnectionsReturn ==
    \A h, g \in Holders : g # h =>
        (Orphan(h) /\ Asking(g) ~> ~Orphan(h) \/ ~Asking(g))
=============================================================================
