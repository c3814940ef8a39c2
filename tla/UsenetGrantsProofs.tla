------------------------- MODULE UsenetGrantsProofs -------------------------
(* Proofs about UsenetGrants, for any transfers, limit and share: the entry *)
(* stays within the account's limit, and so do the transfers that use its   *)
(* grants and did not ask beside a give of their own.                       *)
EXTENDS UsenetGrants, FiniteSetTheorems, TLAPS

-----------------------------------------------------------------------------
(* Totals.                                                                 *)

\* What sizes count is a finite set of connections.
LEMMA ConnectionsFinite ==
    ASSUME NEW s
    PROVE  IsFiniteSet(Connections(s)) /\ Total(s) \in Nat
<1>1. IsFiniteSet(1 .. Limit)
  BY GrantsAssumption, FS_Interval
<1>2. IsFiniteSet(Holders \X (1 .. Limit))
  BY <1>1, GrantsAssumption, FS_Product
<1>3. Connections(s) \in SUBSET (Holders \X (1 .. Limit))
  BY DEF Connections
<1> QED BY <1>2, <1>3, FS_Subset, FS_CardinalityType DEF Total

\* Smaller sizes are no more connections.
LEMMA TotalMono ==
    ASSUME NEW s \in [Holders -> Sizes], NEW t \in [Holders -> Sizes],
           \A h \in Holders : s[h] <= t[h]
    PROVE  Total(s) <= Total(t)
<1>1. Connections(s) \in SUBSET Connections(t)
  <2> SUFFICES ASSUME NEW c \in Holders \X (1 .. Limit), c[2] <= s[c[1]]
               PROVE  c[2] <= t[c[1]]
    BY DEF Connections
  <2>1. c[1] \in Holders /\ c[2] \in Int
    BY GrantsAssumption
  <2>2. s[c[1]] \in Int /\ t[c[1]] \in Int
    BY <2>1, GrantsAssumption DEF Sizes
  <2> QED BY <2>1, <2>2
<1> QED BY <1>1, ConnectionsFinite, FS_Subset DEF Total

\* A holder without connections that gets n of them adds n.
LEMMA TotalAdd ==
    ASSUME NEW s \in [Holders -> Sizes], NEW t \in [Holders -> Sizes], NEW h \in Holders,
           s[h] = 0, \A g \in Holders \ {h} : t[g] = s[g]
    PROVE  Total(t) = Total(s) + t[h]
<1> DEFINE added == {h} \X (1 .. t[h])
<1>0. t[h] \in Nat /\ t[h] <= Limit /\ Limit \in Nat
  BY GrantsAssumption DEF Sizes
<1>1. IsFiniteSet(added) /\ Cardinality(added) = t[h]
  <2>1. IsFiniteSet(1 .. t[h]) /\ Cardinality(1 .. t[h]) = t[h]
    BY <1>0, FS_Interval
  <2>2. IsFiniteSet({h}) /\ Cardinality({h}) = 1
    BY FS_Singleton
  <2> QED BY <1>0, <2>1, <2>2, FS_Product
<1>2. Connections(t) = Connections(s) \cup added
  <2>1. ASSUME NEW c \in Connections(t) PROVE c \in Connections(s) \cup added
    BY <1>0, <2>1 DEF Connections
  <2>2. ASSUME NEW c \in Connections(s) PROVE c \in Connections(t)
    <3>1. c[1] \in Holders /\ c[2] \in 1 .. Limit /\ c[2] <= s[c[1]] /\ c \in Holders \X (1 .. Limit)
      BY <2>2 DEF Connections
    <3>2. c[1] # h
      BY <3>1
    <3> QED BY <3>1, <3>2 DEF Connections
  <2>3. ASSUME NEW c \in added PROVE c \in Connections(t)
    BY <1>0, <2>3 DEF Connections
  <2> QED BY <2>1, <2>2, <2>3
<1>3. Connections(s) \cap added = {}
  <2> SUFFICES ASSUME NEW c \in Connections(s), c \in added PROVE FALSE
    OBVIOUS
  <2>1. c[1] = h /\ c[2] \in 1 .. Limit /\ c[2] <= s[c[1]]
    BY <1>0 DEF Connections
  <2> QED BY <2>1
<1>4. Cardinality(Connections(s) \cup added)
        = Cardinality(Connections(s)) + Cardinality(added) - Cardinality(Connections(s) \cap added)
  BY <1>1, ConnectionsFinite, FS_Union
<1>5. Cardinality(Connections(s) \cap added) = 0
  BY <1>3, FS_EmptySet
<1>6. Cardinality(Connections(s)) \in Nat
  BY ConnectionsFinite DEF Total
<1> HIDE DEF added
<1> QED BY <1>0, <1>1, <1>2, <1>4, <1>5, <1>6 DEF Total

-----------------------------------------------------------------------------
(* The entry stays within the limit. A write was decided on the entry it    *)
(* replaces: every store sends the other operations back to read.          *)

\* The entry once w, decided for h, is written.
After(h, w) ==
    [g \in Holders |-> IF g = h THEN w.size ELSE IF g \in w.drop THEN 0 ELSE conns[g]]

\* A pending write fits, and only a give takes connections h has that did not expire.
WriteOK(h, k, w) ==
    /\ Total(After(h, w)) <= Limit
    /\ k = "give" \/ h \in w.drop \/ conns[h] <= w.size

WritesOK == \A h \in Holders, k \in Kinds : At(h, k, "write") => WriteOK(h, k, op[h][k])

\* The inductive invariant of the entry.
EntryInv == TypeOK /\ EntryWithinLimit /\ WritesOK

\* The operations a handler leaves behind are operations.
LEMMA NoOpType == NoOp \in Ops /\ NoOp.pc = "no" /\ NoOp.size = 0
  BY GrantsAssumption DEF NoOp, Ops, Sizes

LEMMA AtType ==
    ASSUME NEW pc \in {"no", "forget", "read", "done", "drop"}
    PROVE  [NoOp EXCEPT !.pc = pc] \in Ops /\ [NoOp EXCEPT !.pc = pc].pc = pc
  BY NoOpType DEF Ops

LEMMA SettledType ==
    ASSUME NEW k \in Kinds, NEW o \in Ops
    PROVE  /\ Settled(k, o) \in Ops
           /\ Settled(k, o).pc \in {"no", "done"}
           /\ k = "take" => Settled(k, o).pc = "done" /\ Settled(k, o).size = o.size
  BY NoOpType DEF Settled, Ops

LEMMA BehindType ==
    ASSUME NEW o \in Ops
    PROVE  /\ Behind(o) \in Ops
           /\ o.pc # "write" => Behind(o) = o
           /\ o.pc = "write" => Behind(o).pc = "read"
  BY NoOpType DEF Behind, Ops

\* Replacing one operation leaves the others alone.
LEMMA BeginsStep ==
    ASSUME TypeOK, NEW h \in Holders, NEW k \in Kinds, NEW o \in Ops, Begins(h, k, o)
    PROVE  /\ op' \in [Holders -> [Kinds -> Ops]]
           /\ op'[h][k] = o
           /\ \A g \in Holders, j \in Kinds : g # h \/ j # k => op'[g][j] = op[g][j]
  BY DEF TypeOK, Begins

\* Sizes after a write are sizes.
LEMMA AfterType ==
    ASSUME TypeOK, NEW h \in Holders, NEW w \in Ops
    PROVE  After(h, w) \in [Holders -> Sizes]
  BY GrantsAssumption DEF After, TypeOK, Ops, Sizes

\* A step that leaves the entry alone and begins no write.
LEMMA EntryKept ==
    ASSUME EntryWithinLimit, WritesOK, UNCHANGED conns,
           \A h \in Holders, k \in Kinds : op'[h][k] = op[h][k] \/ op'[h][k].pc # "write"
    PROVE  EntryWithinLimit' /\ WritesOK'
<1>1. \A x : Total(x)' = Total(x')
  BY DEF Total, Connections
<1>2. EntryWithinLimit'
  BY DEF EntryWithinLimit, Total, Connections
<1>3. WritesOK'
  <2> SUFFICES ASSUME NEW h \in Holders, NEW k \in Kinds, At(h, k, "write")'
               PROVE  WriteOK(h, k, op[h][k])'
    BY DEF WritesOK
  <2>1. op'[h][k] = op[h][k] /\ At(h, k, "write")
    BY DEF At
  <2>2. WriteOK(h, k, op[h][k])
    BY <2>1 DEF WritesOK
  <2> QED BY <2>1, <2>2 DEF WriteOK, After, Total, Connections
<1> QED BY <1>2, <1>3

\* A read decides on the entry as it is: what it leaves to write fits it.
LEMMA ReadsStep ==
    ASSUME EntryInv, NEW h \in Holders, NEW k \in Kinds, NEW drop \in SUBSET Holders,
           NEW size \in Sizes, NEW extend \in BOOLEAN, NEW gone \in BOOLEAN,
           Reads(h, k, drop, size, extend, gone),
           Total([Kept(drop) EXCEPT ![h] = size]) <= Limit,
           k = "give" \/ h \in drop \/ conns[h] <= size
    PROVE  EntryInv'
<1> DEFINE o == [op[h][k] EXCEPT !.pc = "write", !.drop = drop,
                                 !.size = size, !.extend = extend, !.gone = gone]
           w == IF size # Kept(drop)[h] \/ extend \/ drop # {} THEN o ELSE Settled(k, o)
<1>1. Begins(h, k, w) /\ UNCHANGED <<conns, life, mine, grant, lapsed, crossed, faults, crashes>>
  BY DEF Reads, entry, bounds
<1>2. op[h][k] \in Ops
  BY DEF EntryInv, TypeOK
<1>3. o \in Ops /\ o.pc = "write" /\ o.drop = drop /\ o.size = size
  BY <1>2 DEF Ops
<1>4. w \in Ops /\ (w.pc = "write" => w = o)
  BY <1>3, SettledType
<1> HIDE DEF o, w
<1>5. /\ op' \in [Holders -> [Kinds -> Ops]]
      /\ op'[h][k] = w
      /\ \A g \in Holders, j \in Kinds : g # h \/ j # k => op'[g][j] = op[g][j]
  BY <1>1, <1>4, BeginsStep DEF EntryInv
<1>6. TypeOK'
  BY <1>1, <1>5 DEF EntryInv, TypeOK
<1>7. EntryWithinLimit'
  BY <1>1 DEF EntryInv, EntryWithinLimit, Total, Connections
<1>8. After(h, o) = [Kept(drop) EXCEPT ![h] = size]
  BY <1>3 DEF After, Kept
<1>9. WritesOK'
  <2> SUFFICES ASSUME NEW g \in Holders, NEW j \in Kinds, At(g, j, "write")'
               PROVE  WriteOK(g, j, op[g][j])'
    BY DEF WritesOK
  <2>1. CASE g = h /\ j = k
    <3>1. op'[g][j] = o
      BY <1>4, <1>5, <2>1 DEF At
    <3>2. WriteOK(h, k, o)
      BY <1>3, <1>8 DEF WriteOK
    <3> QED BY <1>1, <2>1, <3>1, <3>2 DEF WriteOK, After, Total, Connections
  <2>2. CASE g # h \/ j # k
    <3>1. op'[g][j] = op[g][j] /\ At(g, j, "write")
      BY <1>5, <2>2 DEF At
    <3>2. WriteOK(g, j, op[g][j])
      BY <3>1 DEF EntryInv, WritesOK
    <3> QED BY <1>1, <3>1, <3>2 DEF WriteOK, After, Total, Connections
  <2> QED BY <2>1, <2>2
<1> QED BY <1>6, <1>7, <1>9 DEF EntryInv

\* A store makes the entry what was decided and leaves no other write pending.
LEMMA StoresStep ==
    ASSUME EntryInv, NEW h \in Holders, NEW k \in Kinds, NEW o \in Ops, o.pc # "write",
           At(h, k, "write"), Stores(h, k, o)
    PROVE  /\ conns' = After(h, op[h][k])
           /\ conns' \in [Holders -> Sizes] /\ life' \in [Holders -> Lives]
           /\ lapsed' \subseteq Holders
           /\ op' \in [Holders -> [Kinds -> Ops]]
           /\ op'[h][k] = o
           /\ \A g \in Holders, j \in Kinds : g # h \/ j # k => op'[g][j] = Behind(op[g][j])
           /\ EntryWithinLimit' /\ WritesOK'
<1>1. op[h][k] \in Ops
  BY DEF EntryInv, TypeOK
<1>2. conns' = After(h, op[h][k])
  BY DEF Stores, After
<1>3. conns' \in [Holders -> Sizes]
  BY <1>1, <1>2, AfterType DEF EntryInv
<1>4. life' \in [Holders -> Lives]
  BY DEF Stores, EntryInv, TypeOK, Lives
<1>5. lapsed' \subseteq Holders
  BY DEF Stores, EntryInv, TypeOK, InUse
<1>6. \A g \in Holders, j \in Kinds : Behind(op[g][j]) \in Ops /\ Behind(op[g][j]).pc # "write"
  BY BehindType DEF EntryInv, TypeOK
<1>7. op' \in [Holders -> [Kinds -> Ops]]
  BY <1>6 DEF Stores
<1>8. op'[h][k] = o /\ \A g \in Holders, j \in Kinds : g # h \/ j # k => op'[g][j] = Behind(op[g][j])
  BY DEF Stores
<1>9. WritesOK'
  BY <1>6, <1>8 DEF WritesOK, At
<1>10. EntryWithinLimit'
  <2>1. Total(After(h, op[h][k])) <= Limit
    BY DEF EntryInv, WritesOK, WriteOK
  <2> QED BY <1>2, <2>1 DEF EntryWithinLimit, Total, Connections
<1> QED BY <1>2, <1>3, <1>4, <1>5, <1>7, <1>8, <1>9, <1>10

\* What is free of an entry within the limit is a size; what a decision gives h of
\* it fits beside what the others keep.
LEMMA FreeFits ==
    ASSUME EntryInv, NEW drop \in SUBSET Holders
    PROVE  /\ Kept(drop) \in [Holders -> Sizes]
           /\ Total(Kept(drop)) <= Limit
           /\ Free(drop) \in Sizes
           /\ \A h \in Holders, n \in Sizes : Kept(drop)[h] = 0 /\ n <= Free(drop)
                 => Total([Kept(drop) EXCEPT ![h] = n]) <= Limit
<1>1. conns \in [Holders -> Sizes] /\ Total(conns) <= Limit /\ Limit \in Nat
  BY GrantsAssumption DEF EntryInv, TypeOK, EntryWithinLimit
<1>2. Kept(drop) \in [Holders -> Sizes] /\ \A h \in Holders : Kept(drop)[h] <= conns[h]
  BY <1>1 DEF Kept, Sizes
<1>3. Total(Kept(drop)) \in Nat /\ Total(conns) \in Nat
  BY ConnectionsFinite
<1>4. Total(Kept(drop)) <= Limit
  BY <1>1, <1>2, <1>3, TotalMono
<1>5. Free(drop) \in Sizes
  BY <1>1, <1>3, <1>4 DEF Free, Sizes
<1>6. ASSUME NEW h \in Holders, NEW n \in Sizes, Kept(drop)[h] = 0, n <= Free(drop)
      PROVE  Total([Kept(drop) EXCEPT ![h] = n]) <= Limit
  <2> DEFINE t == [Kept(drop) EXCEPT ![h] = n]
  <2>1. t \in [Holders -> Sizes] /\ t[h] = n /\ \A g \in Holders \ {h} : t[g] = Kept(drop)[g]
    BY <1>2
  <2> HIDE DEF t
  <2>2. Total(t) = Total(Kept(drop)) + n
    BY <1>2, <1>6, <2>1, TotalAdd
  <2>3. Total(t) <= Limit
    BY <1>1, <1>3, <1>6, <2>2 DEF Free, Sizes
  <2> QED BY <2>3 DEF t
<1> QED BY <1>2, <1>4, <1>5, <1>6

\* Pruning drops holders; a kept grant is the entry's.
LEMMA PruningsType == \A drop \in Prunings : drop \in SUBSET Holders
  BY DEF Prunings, InLife

LEMMA TakeReadInv ==
    ASSUME EntryInv, NEW h \in Holders, TakeRead(h) PROVE EntryInv'
<1> DEFINE got(drop) == Decide(Free(drop))
<1>1. PICK drop \in Prunings :
        IF Kept(drop)[h] > 0
        THEN Reads(h, "take", drop, conns[h], FALSE, FALSE)
        ELSE Reads(h, "take", drop, got(drop), got(drop) > 0, FALSE)
  BY DEF TakeRead
<1>2. drop \in SUBSET Holders /\ "take" \in Kinds
  BY PruningsType DEF Kinds
<1>3. /\ Kept(drop) \in [Holders -> Sizes] /\ Total(Kept(drop)) <= Limit /\ Free(drop) \in Sizes
      /\ \A n \in Sizes : Kept(drop)[h] = 0 /\ n <= Free(drop)
            => Total([Kept(drop) EXCEPT ![h] = n]) <= Limit
  BY <1>2, FreeFits
<1>4. conns[h] \in Sizes /\ Kept(drop)[h] \in Sizes
  BY <1>3 DEF EntryInv, TypeOK
<1>5. CASE Kept(drop)[h] > 0
  <2>1. conns[h] = Kept(drop)[h] /\ h \notin drop /\ [Kept(drop) EXCEPT ![h] = conns[h]] = Kept(drop)
    BY <1>3, <1>5 DEF Kept
  <2>2. Reads(h, "take", drop, conns[h], FALSE, FALSE)
    BY <1>1, <1>5
  <2>3. Total([Kept(drop) EXCEPT ![h] = conns[h]]) <= Limit
    BY <1>3, <2>1
  <2>4. conns[h] <= conns[h]
    BY <1>4, GrantsAssumption DEF Sizes
  <2> QED BY <1>2, <1>4, <2>2, <2>3, <2>4, ReadsStep
<1>6. CASE ~(Kept(drop)[h] > 0)
  <2>1. Kept(drop)[h] = 0 /\ (h \in drop \/ conns[h] = 0)
    BY <1>4, <1>6 DEF Kept, Sizes
  <2>2. got(drop) \in Sizes /\ got(drop) <= Free(drop)
    BY <1>3, GrantsAssumption DEF Decide, Sizes
  <2>3. (got(drop) > 0) \in BOOLEAN
    OBVIOUS
  <2>4. h \in drop \/ conns[h] <= got(drop)
    BY <2>1, <2>2 DEF Sizes
  <2>5. Reads(h, "take", drop, got(drop), got(drop) > 0, FALSE)
    BY <1>1, <1>6
  <2>6. Total([Kept(drop) EXCEPT ![h] = got(drop)]) <= Limit
    BY <1>3, <2>1, <2>2
  <2> HIDE DEF got
  <2> QED BY <1>2, <2>2, <2>3, <2>4, <2>5, <2>6, ReadsStep
<1> QED BY <1>5, <1>6

LEMMA GiveReadInv ==
    ASSUME EntryInv, NEW h \in Holders, GiveRead(h) PROVE EntryInv'
<1>1. PICK drop \in Prunings : Reads(h, "give", drop, 0, FALSE, FALSE)
  BY DEF GiveRead
<1>2. drop \in SUBSET Holders /\ "give" \in Kinds /\ 0 \in Sizes
  BY PruningsType, GrantsAssumption DEF Kinds, Sizes
<1>3. Kept(drop) \in [Holders -> Sizes] /\ Total(Kept(drop)) <= Limit
  BY <1>2, FreeFits
<1> DEFINE t == [Kept(drop) EXCEPT ![h] = 0]
<1>4. t \in [Holders -> Sizes] /\ \A g \in Holders : t[g] <= Kept(drop)[g]
  BY <1>2, <1>3 DEF Sizes
<1> HIDE DEF t
<1>5. Total(t) <= Limit
  BY <1>3, <1>4, TotalMono, ConnectionsFinite, GrantsAssumption
<1> QED BY <1>1, <1>2, <1>5, ReadsStep DEF t

LEMMA RenewReadInv ==
    ASSUME EntryInv, NEW h \in Holders, RenewRead(h) PROVE EntryInv'
<1> DEFINE had == op[h]["renew"].had
<1>1. PICK drop \in Prunings :
        IF Kept(drop)[h] > 0
        THEN Reads(h, "renew", drop, conns[h], TRUE, FALSE)
        ELSE IF Fits(h, drop)
        THEN Reads(h, "renew", drop, had, TRUE, FALSE)
        ELSE Reads(h, "renew", drop, 0, FALSE, mine[h] > 0)
  BY DEF RenewRead
<1>2. drop \in SUBSET Holders /\ "renew" \in Kinds /\ 0 \in Sizes /\ TRUE \in BOOLEAN /\ FALSE \in BOOLEAN
  BY PruningsType, GrantsAssumption DEF Kinds, Sizes
<1>3. /\ Kept(drop) \in [Holders -> Sizes] /\ Total(Kept(drop)) <= Limit /\ Free(drop) \in Sizes
      /\ \A n \in Sizes : Kept(drop)[h] = 0 /\ n <= Free(drop)
            => Total([Kept(drop) EXCEPT ![h] = n]) <= Limit
  BY <1>2, FreeFits
<1>4. conns[h] \in Sizes /\ Kept(drop)[h] \in Sizes /\ had \in Sizes
  BY <1>2, <1>3 DEF EntryInv, TypeOK, Ops
<1> HIDE DEF had
<1>5. CASE Kept(drop)[h] > 0
  <2>1. conns[h] = Kept(drop)[h] /\ h \notin drop /\ [Kept(drop) EXCEPT ![h] = conns[h]] = Kept(drop)
    BY <1>3, <1>5 DEF Kept
  <2>2. Reads(h, "renew", drop, conns[h], TRUE, FALSE)
    BY <1>1, <1>5
  <2>3. Total([Kept(drop) EXCEPT ![h] = conns[h]]) <= Limit
    BY <1>3, <2>1
  <2>4. conns[h] <= conns[h]
    BY <1>4, GrantsAssumption DEF Sizes
  <2> QED BY <1>2, <1>4, <2>2, <2>3, <2>4, ReadsStep
<1>6. CASE ~(Kept(drop)[h] > 0)
  <2>1. Kept(drop)[h] = 0 /\ (h \in drop \/ conns[h] = 0)
    BY <1>4, <1>6 DEF Kept, Sizes
  <2>2. CASE Fits(h, drop)
    <3>1. had <= Free(drop)
      BY <2>2 DEF Fits, had
    <3>2. h \in drop \/ conns[h] <= had
      BY <1>4, <2>1 DEF Sizes
    <3> QED BY <1>1, <1>2, <1>3, <1>4, <1>6, <2>1, <2>2, <3>1, <3>2, ReadsStep
  <2>3. CASE ~Fits(h, drop)
    <3>1. 0 <= Free(drop) /\ (mine[h] > 0) \in BOOLEAN
      BY <1>3 DEF Sizes
    <3>2. h \in drop \/ conns[h] <= 0
      BY <1>4, <2>1 DEF Sizes
    <3>3. Reads(h, "renew", drop, 0, FALSE, mine[h] > 0)
      BY <1>1, <1>6, <2>3
    <3>4. Total([Kept(drop) EXCEPT ![h] = 0]) <= Limit
      BY <1>2, <1>3, <2>1, <3>1
    <3> QED BY <1>2, <3>1, <3>2, <3>3, <3>4, ReadsStep
  <2> QED BY <2>2, <2>3
<1> QED BY <1>5, <1>6

LEMMA WriteInv ==
    ASSUME EntryInv, NEW h \in Holders, NEW k \in Kinds, Write(h, k) PROVE EntryInv'
<1>1. op[h][k] \in Ops
  BY DEF EntryInv, TypeOK
<1>2. Settled(k, op[h][k]) \in Ops /\ Settled(k, op[h][k]).pc # "write"
  BY <1>1, SettledType
<1>3. At(h, k, "write") /\ Stores(h, k, Settled(k, op[h][k])) /\ UNCHANGED <<mine, grant, crossed, faults, crashes>>
  BY DEF Write, bounds
<1>4. /\ conns' \in [Holders -> Sizes] /\ life' \in [Holders -> Lives] /\ lapsed' \subseteq Holders
      /\ op' \in [Holders -> [Kinds -> Ops]] /\ EntryWithinLimit' /\ WritesOK'
  BY <1>2, <1>3, StoresStep
<1>5. TypeOK'
  BY <1>3, <1>4 DEF EntryInv, TypeOK
<1> QED BY <1>4, <1>5 DEF EntryInv

\* Handlers that only move an operation of their own to a place that is not a write.
LEMMA MovesInv ==
    ASSUME EntryInv, NEW h \in Holders, NEW k \in Kinds, NEW o \in Ops, o.pc # "write",
           Begins(h, k, o), UNCHANGED <<conns, life>>,
           mine' \in [Holders -> Sizes], grant' \in [Holders -> Sizes],
           lapsed' \subseteq Holders, crossed' \subseteq Holders,
           faults' \in 0 .. MaxFaults, crashes' \in 0 .. MaxCrashes
    PROVE  EntryInv'
<1>1. /\ op' \in [Holders -> [Kinds -> Ops]] /\ op'[h][k] = o
      /\ \A g \in Holders, j \in Kinds : g # h \/ j # k => op'[g][j] = op[g][j]
  BY BeginsStep DEF EntryInv
<1>2. EntryWithinLimit' /\ WritesOK'
  BY <1>1, EntryKept DEF EntryInv
<1>3. TypeOK'
  BY <1>1 DEF EntryInv, TypeOK
<1> QED BY <1>2, <1>3 DEF EntryInv

LEMMA FailsInv ==
    ASSUME EntryInv, NEW h \in Holders, NEW k \in Kinds, Fails(h, k) PROVE EntryInv'
<1>0. PICK pc \in {"read", "no"} :
        LET o == [NoOp EXCEPT !.pc = pc]
        IN  \/ Begins(h, k, o) /\ UNCHANGED <<conns, life, lapsed>>
            \/ At(h, k, "write") /\ Stores(h, k, o)
  BY DEF Fails, entry
<1> DEFINE o == [NoOp EXCEPT !.pc = pc]
<1>1. o \in Ops /\ o.pc # "write"
  BY AtType
<1>2. faults' \in 0 .. MaxFaults /\ crashes' = crashes /\ UNCHANGED <<mine, grant, crossed>>
  BY GrantsAssumption DEF Fails, Fault, EntryInv, TypeOK
<1>3. \/ Begins(h, k, o) /\ UNCHANGED <<conns, life, lapsed>>
      \/ At(h, k, "write") /\ Stores(h, k, o)
  BY <1>0
<1> HIDE DEF o
<1>4. CASE Begins(h, k, o) /\ UNCHANGED <<conns, life, lapsed>>
  BY <1>1, <1>2, <1>4, MovesInv DEF EntryInv, TypeOK
<1>5. CASE At(h, k, "write") /\ Stores(h, k, o)
  <2>1. /\ conns' \in [Holders -> Sizes] /\ life' \in [Holders -> Lives] /\ lapsed' \subseteq Holders
        /\ op' \in [Holders -> [Kinds -> Ops]] /\ EntryWithinLimit' /\ WritesOK'
    BY <1>1, <1>5, StoresStep
  <2>2. TypeOK'
    BY <1>2, <2>1 DEF EntryInv, TypeOK
  <2> QED BY <2>1, <2>2 DEF EntryInv
<1> QED BY <1>3, <1>4, <1>5

\* The steps of a transfer and its pod that neither read the entry to change it nor
\* write it.
LEMMA LocalInv ==
    ASSUME EntryInv, NEW h \in Holders,
           \/ Ask(h) \/ TakeRemember(h) \/ TakeSet(h) \/ GiveStart(h) \/ GiveForget(h)
           \/ RenewStart(h) \/ RenewForget(h) \/ RenewDrop(h)
    PROVE  EntryInv'
<1> USE GrantsAssumption
<1>0. /\ op[h]["take"] \in Ops /\ mine[h] \in Sizes /\ 0 \in Sizes
      /\ "take" \in Kinds /\ "give" \in Kinds /\ "renew" \in Kinds
  BY DEF EntryInv, TypeOK, Kinds, Sizes
<1>1. CASE Ask(h)
  <2>1. crossed' \subseteq Holders
    BY <1>1 DEF Ask, EntryInv, TypeOK
  <2> QED BY <1>0, <1>1, <2>1, AtType, MovesInv DEF Ask, EntryInv, TypeOK, entry, bounds
<1>2. CASE TakeRemember(h)
  <2>1. op[h]["take"].size \in Sizes
    BY <1>0 DEF Ops
  <2>2. CASE op[h]["take"].size > 0
    <3> DEFINE o == [op[h]["take"] EXCEPT !.pc = "set"]
    <3>1. o \in Ops /\ o.pc # "write"
      BY <1>0 DEF Ops
    <3> HIDE DEF o
    <3>2. Begins(h, "take", o)
      BY <1>2, <2>2 DEF TakeRemember, o
    <3>3. mine' \in [Holders -> Sizes]
      BY <1>2, <2>1, <2>2 DEF TakeRemember, EntryInv, TypeOK
    <3> QED BY <1>0, <1>2, <3>1, <3>2, <3>3, MovesInv DEF TakeRemember, EntryInv, TypeOK, entry, bounds
  <2>3. CASE ~(op[h]["take"].size > 0)
    <3>1. PICK pc \in {"read", "no"} : Begins(h, "take", [NoOp EXCEPT !.pc = pc])
      BY <1>2, <2>3 DEF TakeRemember
    <3>2. UNCHANGED mine
      BY <1>2, <2>3 DEF TakeRemember
    <3>3. [NoOp EXCEPT !.pc = pc] \in Ops /\ [NoOp EXCEPT !.pc = pc].pc # "write"
      BY AtType
    <3> QED BY <1>0, <1>2, <3>1, <3>2, <3>3, MovesInv DEF TakeRemember, EntryInv, TypeOK, entry, bounds
  <2> QED BY <2>2, <2>3
<1>8. CASE TakeSet(h)
  <2>1. Begins(h, "take", NoOp)
    BY <1>8 DEF TakeSet, Ends
  <2>2. grant' \in [Holders -> Sizes]
    BY <1>0, <1>8 DEF TakeSet, EntryInv, TypeOK, Ops
  <2> QED BY <1>0, <1>8, <2>1, <2>2, NoOpType, MovesInv DEF TakeSet, EntryInv, TypeOK, entry, bounds
<1>3. CASE GiveStart(h)
  <2>1. grant' \in [Holders -> Sizes] /\ lapsed' \subseteq Holders
    BY <1>0, <1>3 DEF GiveStart, EntryInv, TypeOK
  <2> QED BY <1>0, <1>3, <2>1, AtType, MovesInv DEF GiveStart, EntryInv, TypeOK, entry, bounds
<1>4. CASE GiveForget(h)
  <2>1. mine' \in [Holders -> Sizes]
    BY <1>0, <1>4 DEF GiveForget, EntryInv, TypeOK
  <2> QED BY <1>0, <1>4, <2>1, AtType, MovesInv DEF GiveForget, EntryInv, TypeOK, entry, bounds
<1>5. CASE RenewStart(h)
  <2> DEFINE o == [NoOp EXCEPT !.pc = "read", !.had = mine[h]]
  <2>1. o \in Ops /\ o.pc # "write"
    BY <1>0, NoOpType DEF Ops
  <2> HIDE DEF o
  <2>2. Begins(h, "renew", o)
    BY <1>5 DEF RenewStart, o
  <2> QED BY <1>0, <1>5, <2>1, <2>2, MovesInv DEF RenewStart, EntryInv, TypeOK, entry, bounds
<1>6. CASE RenewForget(h)
  <2>1. mine' \in [Holders -> Sizes]
    BY <1>0, <1>6 DEF RenewForget, EntryInv, TypeOK
  <2> QED BY <1>0, <1>6, <2>1, AtType, MovesInv DEF RenewForget, EntryInv, TypeOK, entry, bounds
<1>7. CASE RenewDrop(h)
  <2>1. grant' \in [Holders -> Sizes] /\ lapsed' \subseteq Holders
    BY <1>0, <1>7 DEF RenewDrop, EntryInv, TypeOK
  <2>2. Begins(h, "renew", NoOp)
    BY <1>7 DEF RenewDrop, Ends
  <2> QED BY <1>0, <1>7, <2>1, <2>2, NoOpType, MovesInv DEF RenewDrop, EntryInv, TypeOK, entry, bounds
<1> QED BY <1>1, <1>2, <1>3, <1>4, <1>5, <1>6, <1>7, <1>8

\* A pod that dies, and time.
LEMMA WorldInv ==
    ASSUME EntryInv, NEW h \in Holders, Crash(h) \/ Late(h) \/ Missed(h) \/ Expire(h)
    PROVE  EntryInv'
<1> USE GrantsAssumption
<1>1. CASE Crash(h)
  <2>1. UNCHANGED <<conns, life, crossed, faults>> /\ crashes' \in 0 .. MaxCrashes
    BY <1>1 DEF Crash, EntryInv, TypeOK, entry
  <2>2. mine' \in [Holders -> Sizes] /\ grant' \in [Holders -> Sizes] /\ lapsed' \subseteq Holders
    BY <1>1 DEF Crash, EntryInv, TypeOK, Sizes
  <2>3. op' \in [Holders -> [Kinds -> Ops]]
    BY <1>1, NoOpType DEF Crash, EntryInv, TypeOK
  <2>4. \A g \in Holders, k \in Kinds : op'[g][k] = op[g][k] \/ op'[g][k].pc # "write"
    BY <1>1, NoOpType DEF Crash, EntryInv, TypeOK
  <2>5. EntryWithinLimit' /\ WritesOK'
    BY <2>1, <2>4, EntryKept DEF EntryInv
  <2> QED BY <2>1, <2>2, <2>3, <2>5 DEF EntryInv, TypeOK
<1>2. CASE Late(h) \/ Missed(h) \/ Expire(h)
  <2>1. UNCHANGED <<conns, mine, grant, op, crossed, crashes>> /\ faults' \in 0 .. MaxFaults
    BY <1>2 DEF Late, Missed, Expire, Fault, EntryInv, TypeOK, bounds
  <2>2. life' \in [Holders -> Lives] /\ lapsed' \subseteq Holders
    BY <1>2 DEF Late, Missed, Expire, EntryInv, TypeOK, Lives
  <2>3. EntryWithinLimit' /\ WritesOK'
    BY <2>1, EntryKept DEF EntryInv
  <2> QED BY <2>1, <2>2, <2>3 DEF EntryInv, TypeOK
<1> QED BY <1>1, <1>2

\* Every step keeps the entry's invariant.
LEMMA EntryInvStep == EntryInv /\ [Next]_vars => EntryInv'
<1> SUFFICES ASSUME EntryInv, [Next]_vars PROVE EntryInv'
  OBVIOUS
<1>1. ASSUME UNCHANGED vars PROVE EntryInv'
  <2>1. TypeOK' /\ UNCHANGED <<conns, op>>
    BY <1>1 DEF vars, EntryInv, TypeOK
  <2> QED BY <2>1, EntryKept DEF EntryInv
<1>2. ASSUME NEW h \in Holders,
             \/ Ask(h) \/ Takes(h) \/ GiveStart(h) \/ Gives(h) \/ Renews(h)
             \/ \E k \in Kinds : Fails(h, k)
             \/ Crash(h) \/ Missed(h) \/ Ages(h)
      PROVE  EntryInv'
  <2>1. CASE \/ Ask(h) \/ TakeRemember(h) \/ TakeSet(h) \/ GiveStart(h) \/ GiveForget(h)
             \/ RenewStart(h) \/ RenewForget(h) \/ RenewDrop(h)
    BY <2>1, LocalInv
  <2>2. CASE TakeRead(h) \/ GiveRead(h) \/ RenewRead(h)
    BY <2>2, TakeReadInv, GiveReadInv, RenewReadInv
  <2>3. CASE \E k \in Kinds : Write(h, k)
    BY <2>3, WriteInv
  <2>4. CASE \E k \in Kinds : Fails(h, k)
    BY <2>4, FailsInv
  <2>5. CASE Crash(h) \/ Late(h) \/ Missed(h) \/ Expire(h)
    BY <2>5, WorldInv
  <2> QED BY <1>2, <2>1, <2>2, <2>3, <2>4, <2>5 DEF Takes, Gives, Renews, Ages, Kinds
<1> QED BY <1>1, <1>2 DEF Next

LEMMA EntryInvInit == Init => EntryInv
<1> SUFFICES ASSUME Init PROVE EntryInv
  OBVIOUS
<1>1. TypeOK
  BY NoOpType, GrantsAssumption DEF Init, TypeOK, Sizes, Lives
<1>2. Connections(conns) = {}
  BY GrantsAssumption DEF Init, Connections
<1>3. EntryWithinLimit
  BY <1>2, FS_EmptySet, GrantsAssumption DEF EntryWithinLimit, Total
<1>4. WritesOK
  BY NoOpType DEF Init, WritesOK, At
<1> QED BY <1>1, <1>3, <1>4 DEF EntryInv

\* The entry, the pods and their operations have their types in every state.
THEOREM TypeCorrect == Spec => []TypeOK
<1>1. EntryInv => TypeOK
  BY DEF EntryInv
<1> QED BY <1>1, EntryInvInit, EntryInvStep, PTL DEF Spec

\* The grants the entry names never add up to more than the account's limit
\* (decide, Renew, swap).
THEOREM EntryStaysWithinLimit == Spec => []EntryWithinLimit
<1>1. EntryInv => EntryWithinLimit
  BY DEF EntryInv
<1> QED BY <1>1, EntryInvInit, EntryInvStep, PTL DEF Spec

-----------------------------------------------------------------------------
(* The transfers stay within the limit: what one uses, the entry backs,     *)
(* unless it expired under it. A give works for a transfer that uses        *)
(* nothing, which is where a take that crosses a give breaks the argument.  *)

\* A transfer that asks has no grant and, but where the two cross, gives none back.
TakesAlone ==
    \A h \in Holders :
        ~At(h, "take", "no") => grant[h] = 0 /\ (h \in crossed \/ At(h, "give", "no"))

\* A transfer that gives its grant back no longer uses it.
GivesUnused == \A h \in Holders \ crossed : ~At(h, "give", "no") => grant[h] = 0

Backed == \A h \in Holders \ crossed : h \notin lapsed => Holding(h) <= conns[h]

\* The inductive invariant of the transfers.
UseInv == TakesAlone /\ GivesUnused /\ Backed

\* A transfer holds a size.
LEMMA HoldingType ==
    ASSUME TypeOK, NEW h \in Holders
    PROVE  Holding(h) \in Sizes /\ conns[h] \in Sizes /\ grant[h] \in Sizes
  BY DEF TypeOK, Holding, Ops, Kinds

\* Backed transfers are within what the entry is within.
LEMMA BackedWithinLimit == EntryInv /\ UseInv => OrderlyWithinLimit
<1> SUFFICES ASSUME EntryInv, UseInv PROVE OrderlyWithinLimit
  OBVIOUS
<1> USE GrantsAssumption
<1> DEFINE fetched == Fetching(Holders \ crossed)
<1>1. fetched \in [Holders -> Sizes] /\ conns \in [Holders -> Sizes]
  BY DEF Fetching, EntryInv, TypeOK, Sizes
<1>2. ASSUME NEW h \in Holders PROVE fetched[h] <= conns[h]
  <2>1. Holding(h) \in Sizes /\ conns[h] \in Sizes /\ grant[h] \in Sizes
    BY HoldingType DEF EntryInv
  <2>2. grant[h] <= Holding(h)
    <3>1. CASE Taking(h)
      <4>1. grant[h] = 0
        BY <3>1 DEF UseInv, TakesAlone, Taking, At
      <4> QED BY <2>1, <4>1 DEF Sizes
    <3>2. CASE ~Taking(h)
      BY <2>1, <3>2 DEF Holding, Sizes
    <3> QED BY <3>1, <3>2
  <2>3. h \notin crossed /\ h \notin lapsed => Holding(h) <= conns[h]
    BY DEF UseInv, Backed
  <2> QED BY <2>1, <2>2, <2>3 DEF Fetching, Sizes
<1> HIDE DEF fetched
<1>3. Total(fetched) <= Total(conns)
  BY <1>1, <1>2, TotalMono
<1> QED BY <1>3, ConnectionsFinite DEF EntryInv, EntryWithinLimit, OrderlyWithinLimit, fetched

\* A read gives a take at most what the entry names for it.
LEMMA ReadsUse ==
    ASSUME EntryInv, UseInv, NEW h \in Holders, NEW k \in Kinds, NEW drop \in SUBSET Holders,
           NEW size \in Sizes, NEW extend \in BOOLEAN, NEW gone \in BOOLEAN,
           Reads(h, k, drop, size, extend, gone)
    PROVE  UseInv'
<1> DEFINE o == [op[h][k] EXCEPT !.pc = "write", !.drop = drop,
                                 !.size = size, !.extend = extend, !.gone = gone]
           w == IF size # Kept(drop)[h] \/ extend \/ drop # {} THEN o ELSE Settled(k, o)
<1>1. /\ Begins(h, k, w) /\ op[h][k].pc = "read"
      /\ UNCHANGED <<conns, grant, lapsed, crossed>>
  BY DEF Reads, entry, bounds, At
<1>2. op[h][k] \in Ops
  BY DEF EntryInv, TypeOK
<1>3. o \in Ops /\ o.pc = "write" /\ o.size = size
  BY <1>2 DEF Ops
<1>4. /\ w \in Ops
      /\ k = "take" => \/ w.pc = "write"
                       \/ w.pc = "done" /\ w.size = conns[h]
  <2>1. CASE size # Kept(drop)[h] \/ extend \/ drop # {}
    BY <1>3, <2>1
  <2>2. CASE ~(size # Kept(drop)[h] \/ extend \/ drop # {})
    BY <1>3, <2>2, SettledType DEF Kept
  <2> QED BY <2>1, <2>2
<1> HIDE DEF o, w
<1>5. /\ op'[h][k] = w
      /\ \A g \in Holders, j \in Kinds : g # h \/ j # k => op'[g][j] = op[g][j]
  BY <1>1, <1>4, BeginsStep DEF EntryInv
<1>6. TakesAlone' /\ GivesUnused'
  BY <1>1, <1>5 DEF UseInv, TakesAlone, GivesUnused, At, Kinds
<1>7. Backed'
  <2> SUFFICES ASSUME NEW g \in Holders, g \notin crossed', g \notin lapsed' PROVE Holding(g)' <= conns'[g]
    BY DEF Backed
  <2>1. Holding(g) <= conns[g] /\ Holding(g) \in Sizes /\ conns[g] \in Sizes /\ grant[g] \in Sizes
    BY <1>1, HoldingType DEF UseInv, Backed, EntryInv
  <2>2. CASE g = h /\ k = "take"
    <3>1. grant[h] = 0
      BY <1>1, <2>2 DEF UseInv, TakesAlone, At
    <3> QED BY <1>1, <1>4, <1>5, <2>1, <2>2, <3>1, GrantsAssumption DEF Holding, Taking, At, Sizes
  <2>3. CASE ~(g = h /\ k = "take")
    <3>1. op'[g]["take"] = op[g]["take"]
      BY <1>5, <2>3 DEF Kinds
    <3> QED BY <1>1, <2>1, <3>1 DEF Holding, Taking, At
  <2> QED BY <2>2, <2>3
<1> QED BY <1>6, <1>7 DEF UseInv

\* A store takes connections from a transfer that uses them only when they expired.
LEMMA StoresUse ==
    ASSUME EntryInv, UseInv, NEW h \in Holders, NEW k \in Kinds, NEW o \in Ops, o.pc # "write",
           o.pc # "set", k = "take" /\ o.pc = "done" => o.size = op[h][k].size,
           At(h, k, "write"), Stores(h, k, o), UNCHANGED <<grant, crossed>>
    PROVE  UseInv'
<1> DEFINE w == op[h][k]
<1>1. /\ conns' = After(h, w)
      /\ op'[h][k] = o
      /\ \A g \in Holders, j \in Kinds : g # h \/ j # k => op'[g][j] = Behind(op[g][j])
  BY StoresStep
<1>2. \A g \in Holders, j \in Kinds : op[g][j] \in Ops
  BY DEF EntryInv, TypeOK
<1>3. \A g \in Holders, j \in Kinds : g # h \/ j # k =>
        /\ op[g][j].pc = "no" <=> op'[g][j].pc = "no"
        /\ op[g][j].pc = "done" <=> op'[g][j].pc = "done"
        /\ op[g][j].pc = "set" <=> op'[g][j].pc = "set"
        /\ op[g][j].pc \in {"done", "set"} => op'[g][j] = op[g][j]
  BY <1>1, <1>2, BehindType
<1>4. w.pc = "write" /\ w \in Ops /\ w.size \in Sizes /\ w.drop \in SUBSET Holders /\ w.extend \in BOOLEAN
  BY <1>2 DEF At, Ops
<1>5. lapsed' = (lapsed \cup (w.drop \cap InUse)) \ Restored(h, w)
  BY DEF Stores
<1>6. WriteOK(h, k, w)
  BY DEF EntryInv, WritesOK
<1> HIDE DEF w
<1>7. TakesAlone' /\ GivesUnused'
  <2>1. \A g \in Holders, j \in Kinds : op'[g][j].pc # "no" => op[g][j].pc # "no"
    BY <1>3, <1>4 DEF w
  <2>2. \A g \in Holders : op[g]["give"].pc = "no" => op'[g]["give"].pc = "no"
    BY <1>3, <1>4 DEF w, Kinds
  <2> QED BY <2>1, <2>2 DEF UseInv, TakesAlone, GivesUnused, At, Kinds
<1>8. Backed'
  <2> SUFFICES ASSUME NEW g \in Holders, g \notin crossed', g \notin lapsed' PROVE Holding(g)' <= conns'[g]
    BY DEF Backed
  <2>0. /\ g \notin crossed
        /\ g \notin lapsed => Holding(g) <= conns[g]
        /\ Holding(g) \in Sizes /\ conns[g] \in Sizes /\ grant[g] \in Sizes
    BY HoldingType DEF UseInv, Backed, EntryInv
  <2>1. CASE g = h /\ k = "take"
    <3>1. grant[h] = 0 /\ conns'[h] = w.size
      BY <1>1, <1>4, <2>1 DEF UseInv, TakesAlone, At, w, After
    <3>2. Holding(h)' = w.size \/ Holding(h)' = 0
      BY <1>1, <2>1, <3>1 DEF Holding, Taking, At, w
    <3> QED BY <1>4, <2>1, <3>1, <3>2, GrantsAssumption DEF Sizes
  <2>2. CASE ~(g = h /\ k = "take")
    <3>1. Holding(g)' = Holding(g)
      <4>1. "take" \in Kinds
        BY DEF Kinds
      <4> QED BY <1>3, <2>2, <4>1 DEF Holding, Taking, At
    <3>2. CASE g # h
      <4>1. g \notin lapsed /\ (g \notin w.drop \/ Holding(g) = 0)
        BY <1>5, <2>0, <3>2, GrantsAssumption DEF Restored, InUse, Sizes
      <4>2. conns'[g] = IF g \in w.drop THEN 0 ELSE conns[g]
        BY <1>1, <3>2 DEF After
      <4> QED BY <2>0, <3>1, <4>1, <4>2, GrantsAssumption DEF Sizes
    <3>3. CASE g = h /\ k = "give"
      <4>1. Holding(h) = 0
        BY <1>4, <3>3 DEF w, UseInv, TakesAlone, GivesUnused, At, Holding, Taking
      <4>2. conns'[h] = w.size
        BY <1>1 DEF After
      <4> QED BY <1>4, <3>1, <3>3, <4>1, <4>2, GrantsAssumption DEF Sizes
    <3>4. CASE g = h /\ k = "renew"
      <4>1. conns'[h] = w.size
        BY <1>1 DEF After
      <4>2. h \in w.drop \/ conns[h] <= w.size
        BY <1>6, <3>4 DEF WriteOK
      <4>3. \/ Holding(h) <= w.size
            \/ h \notin lapsed /\ (h \notin w.drop \/ Holding(h) = 0)
        BY <1>5, <2>0, <3>4, GrantsAssumption DEF Restored, InUse, Sizes
      <4> QED BY <1>4, <2>0, <3>1, <3>4, <4>1, <4>2, <4>3, GrantsAssumption DEF Sizes
    <3> QED BY <2>2, <3>2, <3>3, <3>4 DEF Kinds
  <2> QED BY <2>1, <2>2
<1> QED BY <1>7, <1>8 DEF UseInv

\* Every read of the entry is a read with sizes.
LEMMA EntryReadsUse ==
    ASSUME EntryInv, UseInv, NEW h \in Holders, TakeRead(h) \/ GiveRead(h) \/ RenewRead(h)
    PROVE  UseInv'
<1>0. conns[h] \in Sizes /\ op[h]["renew"].had \in Sizes /\ 0 \in Sizes
      /\ TRUE \in BOOLEAN /\ FALSE \in BOOLEAN /\ (mine[h] > 0) \in BOOLEAN
      /\ "take" \in Kinds /\ "give" \in Kinds /\ "renew" \in Kinds
  BY GrantsAssumption DEF EntryInv, TypeOK, Ops, Kinds, Sizes
<1>1. ASSUME NEW drop \in Prunings
      PROVE  /\ drop \in SUBSET Holders /\ Decide(Free(drop)) \in Sizes
             /\ (Decide(Free(drop)) > 0) \in BOOLEAN
  <2>1. drop \in SUBSET Holders
    BY PruningsType
  <2>2. Free(drop) \in Sizes
    BY <2>1, FreeFits
  <2> QED BY <2>1, <2>2, GrantsAssumption DEF Decide, Sizes
<1>2. CASE TakeRead(h)
  <2>1. PICK drop \in Prunings :
          \/ Reads(h, "take", drop, conns[h], FALSE, FALSE)
          \/ Reads(h, "take", drop, Decide(Free(drop)), Decide(Free(drop)) > 0, FALSE)
    BY <1>2 DEF TakeRead
  <2>2. CASE Reads(h, "take", drop, conns[h], FALSE, FALSE)
    BY <1>0, <1>1, <2>2, ReadsUse
  <2>3. CASE Reads(h, "take", drop, Decide(Free(drop)), Decide(Free(drop)) > 0, FALSE)
    BY <1>0, <1>1, <2>3, ReadsUse
  <2> QED BY <2>1, <2>2, <2>3
<1>3. CASE GiveRead(h)
  BY <1>0, <1>1, <1>3, ReadsUse DEF GiveRead
<1>4. CASE RenewRead(h)
  <2>1. PICK drop \in Prunings :
          \/ Reads(h, "renew", drop, conns[h], TRUE, FALSE)
          \/ Reads(h, "renew", drop, op[h]["renew"].had, TRUE, FALSE)
          \/ Reads(h, "renew", drop, 0, FALSE, mine[h] > 0)
    BY <1>4 DEF RenewRead
  <2>2. CASE Reads(h, "renew", drop, conns[h], TRUE, FALSE)
    BY <1>0, <1>1, <2>2, ReadsUse
  <2>3. CASE Reads(h, "renew", drop, op[h]["renew"].had, TRUE, FALSE)
    BY <1>0, <1>1, <2>3, ReadsUse
  <2>4. CASE Reads(h, "renew", drop, 0, FALSE, mine[h] > 0)
    BY <1>0, <1>1, <2>4, ReadsUse
  <2> QED BY <2>1, <2>2, <2>3, <2>4
<1> QED BY <1>2, <1>3, <1>4

LEMMA WriteUse ==
    ASSUME EntryInv, UseInv, NEW h \in Holders, NEW k \in Kinds, Write(h, k) \/ Fails(h, k)
    PROVE  UseInv'
<1>0. op[h][k] \in Ops
  BY DEF EntryInv, TypeOK
<1>1. CASE Write(h, k)
  BY <1>0, <1>1, SettledType, StoresUse DEF Write
<1>2. CASE Fails(h, k)
  <2>0. PICK pc \in IF k = "take" THEN {"read", "no"} ELSE {"no"} :
          LET o == [NoOp EXCEPT !.pc = pc]
          IN  \/ op[h][k].pc \in {"read", "write"} /\ Begins(h, k, o) /\ UNCHANGED <<conns, lapsed>>
              \/ At(h, k, "write") /\ Stores(h, k, o)
    BY <1>2 DEF Fails, entry
  <2> DEFINE o == [NoOp EXCEPT !.pc = pc]
  <2>1. o \in Ops /\ o.pc = pc /\ pc \in {"read", "no"} /\ (k # "take" => pc = "no")
    BY <2>0, AtType
  <2>2. /\ UNCHANGED <<grant, crossed>>
        /\ \/ op[h][k].pc \in {"read", "write"} /\ Begins(h, k, o) /\ UNCHANGED <<conns, lapsed>>
           \/ At(h, k, "write") /\ Stores(h, k, o)
    BY <1>2, <2>0 DEF Fails
  <2> HIDE DEF o
  <2>3. CASE At(h, k, "write") /\ Stores(h, k, o)
    BY <2>1, <2>2, <2>3, StoresUse
  <2>4. CASE op[h][k].pc \in {"read", "write"} /\ Begins(h, k, o) /\ UNCHANGED <<conns, lapsed>>
    <3>1. /\ op'[h][k] = o
          /\ \A g \in Holders, j \in Kinds : g # h \/ j # k => op'[g][j] = op[g][j]
      BY <2>1, <2>4, BeginsStep DEF EntryInv
    <3>2. TakesAlone' /\ GivesUnused'
      BY <2>1, <2>2, <2>4, <3>1 DEF UseInv, TakesAlone, GivesUnused, At, Kinds
    <3>3. \A g \in Holders : Holding(g)' = Holding(g)
      BY <2>1, <2>2, <2>4, <3>1 DEF Holding, Taking, At, Kinds
    <3> QED BY <2>2, <2>4, <3>2, <3>3 DEF UseInv, Backed
  <2> QED BY <2>2, <2>3, <2>4
<1> QED BY <1>1, <1>2

\* The steps of a transfer and its pod beside the entry. Here a take begins: it is
\* an orderly one when no give of the transfer is under way.
LEMMA LocalUse ==
    ASSUME EntryInv, UseInv, NEW h \in Holders,
           \/ Ask(h) \/ TakeRemember(h) \/ TakeSet(h) \/ GiveStart(h) \/ GiveForget(h)
           \/ RenewStart(h) \/ RenewForget(h) \/ RenewDrop(h)
    PROVE  UseInv'
<1> USE DEF UseInv, TakesAlone, GivesUnused, Backed
<1>0. /\ \A g \in Holders, j \in Kinds : op[g][j] \in Ops
      /\ grant \in [Holders -> Sizes]
      /\ "take" \in Kinds /\ "give" \in Kinds /\ "renew" \in Kinds
      /\ \A g \in Holders : Holding(g) \in Sizes /\ conns[g] \in Sizes
  BY HoldingType DEF EntryInv, TypeOK, Kinds
<1>00. \A n \in Sizes : 0 <= n
  BY GrantsAssumption DEF Sizes
<1>1. ASSUME NEW k \in Kinds, NEW o \in Ops, Begins(h, k, o)
      PROVE  /\ op'[h][k] = o
             /\ \A g \in Holders, j \in Kinds : g # h \/ j # k => op'[g][j] = op[g][j]
  BY <1>1, BeginsStep DEF EntryInv
<1>2. CASE Ask(h)
  <2> DEFINE o == [NoOp EXCEPT !.pc = "read"]
  <2>1. o \in Ops /\ o.pc = "read"
    BY AtType
  <2> HIDE DEF o
  <2>2. /\ Begins(h, "take", o) /\ UNCHANGED <<conns, grant, lapsed>> /\ grant[h] = 0
        /\ At(h, "take", "no")
        /\ crossed' = IF At(h, "give", "no") THEN crossed \ {h} ELSE crossed \cup {h}
    BY <1>2 DEF Ask, entry, o
  <2>3. /\ op'[h]["take"] = o
        /\ \A g \in Holders, j \in Kinds : g # h \/ j # "take" => op'[g][j] = op[g][j]
    BY <1>0, <1>1, <2>1, <2>2
  <2>4. (\A g \in Holders : Holding(g)' = Holding(g)) /\ Holding(h) = 0
    BY <1>0, <2>1, <2>2, <2>3 DEF Holding, Taking, At
  <2> QED BY <1>0, <1>00, <2>1, <2>2, <2>3, <2>4 DEF At
<1>3. CASE TakeRemember(h)
  <2>0. /\ op[h]["take"].pc = "done" /\ grant[h] = 0 /\ Holding(h) = op[h]["take"].size
        /\ UNCHANGED <<conns, grant, lapsed, crossed>>
    BY <1>3 DEF TakeRemember, At, Holding, Taking, entry
  <2>1. CASE op[h]["take"].size > 0
    <3> DEFINE o == [op[h]["take"] EXCEPT !.pc = "set"]
    <3>1. o \in Ops /\ o.pc = "set" /\ o.size = op[h]["take"].size
      BY <1>0 DEF Ops
    <3> HIDE DEF o
    <3>2. Begins(h, "take", o)
      BY <1>3, <2>1 DEF TakeRemember, o
    <3>3. /\ op'[h]["take"] = o
          /\ \A g \in Holders, j \in Kinds : g # h \/ j # "take" => op'[g][j] = op[g][j]
      BY <1>0, <1>1, <3>1, <3>2
    <3>4. \A g \in Holders : Holding(g)' = Holding(g)
      BY <1>0, <2>0, <3>1, <3>3 DEF Holding, Taking, At
    <3> QED BY <1>0, <2>0, <3>1, <3>3, <3>4 DEF At
  <2>2. CASE ~(op[h]["take"].size > 0)
    <3>1. PICK pc \in {"read", "no"} : Begins(h, "take", [NoOp EXCEPT !.pc = pc])
      BY <1>3, <2>2 DEF TakeRemember
    <3> DEFINE o == [NoOp EXCEPT !.pc = pc]
    <3>2. o \in Ops /\ o.pc = pc
      BY AtType
    <3>3. Begins(h, "take", o)
      BY <3>1
    <3> HIDE DEF o
    <3>4. /\ op'[h]["take"] = o
          /\ \A g \in Holders, j \in Kinds : g # h \/ j # "take" => op'[g][j] = op[g][j]
      BY <1>0, <1>1, <3>2, <3>3
    <3>5. \A g \in Holders \ {h} : Holding(g)' = Holding(g)
      BY <1>0, <2>0, <3>4 DEF Holding, Taking, At
    <3>6. Holding(h)' = 0
      BY <2>0, <3>2, <3>4 DEF Holding, Taking, At
    <3> QED BY <1>0, <1>00, <2>0, <3>2, <3>4, <3>5, <3>6 DEF At
  <2> QED BY <2>1, <2>2
<1>7. CASE TakeSet(h)
  <2>0. /\ op[h]["take"].pc = "set" /\ grant[h] = 0 /\ Holding(h) = op[h]["take"].size
        /\ h \in crossed \/ At(h, "give", "no")
    BY <1>7 DEF TakeSet, At, Holding, Taking
  <2>1. Begins(h, "take", NoOp) /\ grant' = [grant EXCEPT ![h] = op[h]["take"].size]
        /\ UNCHANGED <<conns, lapsed, crossed>>
    BY <1>7 DEF TakeSet, Ends, entry
  <2>2. /\ op'[h]["take"] = NoOp
        /\ \A g \in Holders, j \in Kinds : g # h \/ j # "take" => op'[g][j] = op[g][j]
    BY <1>0, <1>1, <2>1, NoOpType
  <2>3. \A g \in Holders : Holding(g)' = Holding(g)
    BY <1>0, <2>0, <2>1, <2>2, NoOpType DEF Holding, Taking, At
  <2> QED BY <1>0, <2>0, <2>1, <2>2, <2>3, NoOpType DEF At
<1>4. CASE GiveStart(h)
  <2> DEFINE o == [NoOp EXCEPT !.pc = "forget"]
  <2>1. o \in Ops /\ o.pc = "forget"
    BY AtType
  <2> HIDE DEF o
  <2>2. Begins(h, "give", o) /\ grant' = [grant EXCEPT ![h] = 0] /\ lapsed' = lapsed \ {h}
        /\ UNCHANGED <<conns, crossed>> /\ grant[h] > 0 /\ At(h, "give", "no")
    BY <1>4 DEF GiveStart, entry, o
  <2>3. At(h, "take", "no")
    BY <2>2
  <2>4. /\ op'[h]["give"] = o
        /\ \A g \in Holders, j \in Kinds : g # h \/ j # "give" => op'[g][j] = op[g][j]
    BY <1>0, <1>1, <2>1, <2>2
  <2>5. \A g \in Holders \ {h} : Holding(g)' = Holding(g)
    BY <1>0, <2>2, <2>4 DEF Holding, Taking, At
  <2>6. Holding(h)' = 0
    BY <1>0, <2>2, <2>3, <2>4 DEF Holding, Taking, At
  <2> QED BY <1>0, <1>00, <2>1, <2>2, <2>3, <2>4, <2>5, <2>6 DEF At
<1>5. CASE GiveForget(h) \/ RenewStart(h) \/ RenewForget(h)
  <2>1. PICK k \in {"give", "renew"}, o \in Ops :
          /\ Begins(h, k, o) /\ UNCHANGED <<conns, grant, lapsed, crossed>>
          /\ k = "give" => At(h, "give", "forget")
    <3>1. CASE GiveForget(h)
      BY <3>1, AtType DEF GiveForget, entry
    <3>2. CASE RenewStart(h)
      <4>1. mine[h] \in Sizes
        BY DEF EntryInv, TypeOK
      <4>2. [NoOp EXCEPT !.pc = "read", !.had = mine[h]] \in Ops
        BY <4>1, NoOpType DEF Ops
      <4> QED BY <3>2, <4>2 DEF RenewStart, entry
    <3>3. CASE RenewForget(h)
      BY <3>3, AtType DEF RenewForget, entry
    <3> QED BY <1>5, <3>1, <3>2, <3>3
  <2>2. \A g \in Holders, j \in Kinds : g # h \/ j # k => op'[g][j] = op[g][j]
    BY <1>0, <1>1, <2>1
  <2>3. \A g \in Holders : Holding(g)' = Holding(g)
    BY <1>0, <2>1, <2>2 DEF Holding, Taking, At
  <2> QED BY <1>0, <2>1, <2>2, <2>3 DEF At
<1>6. CASE RenewDrop(h)
  <2>1. Begins(h, "renew", NoOp) /\ grant' = [grant EXCEPT ![h] = 0] /\ UNCHANGED <<conns, crossed>>
        /\ lapsed' = IF Taking(h) THEN lapsed ELSE lapsed \ {h}
    BY <1>6 DEF RenewDrop, Ends, entry
  <2>2. \A g \in Holders, j \in Kinds : g # h \/ j # "renew" => op'[g][j] = op[g][j]
    BY <1>0, <1>1, <2>1, NoOpType
  <2>3. \A g \in Holders : Holding(g)' = Holding(g) \/ (g = h /\ Holding(g)' = 0 /\ ~Taking(h))
    BY <1>0, <2>1, <2>2 DEF Holding, Taking, At
  <2>4. TakesAlone' /\ GivesUnused'
    BY <1>0, <2>1, <2>2 DEF At
  <2>5. Backed'
    <3> SUFFICES ASSUME NEW g \in Holders, g \notin crossed', g \notin lapsed' PROVE Holding(g)' <= conns'[g]
      OBVIOUS
    <3>1. CASE Holding(g)' = 0
      BY <1>0, <1>00, <2>1, <3>1
    <3>2. CASE Holding(g)' # 0
      <4>1. Holding(g)' = Holding(g)
        BY <2>3, <3>2
      <4>2. g \notin lapsed
        <5>1. CASE g = h /\ ~Taking(h)
          <6>1. Holding(h)' = 0
            BY <1>0, <2>1, <2>2, <5>1 DEF Holding, Taking, At
          <6> QED BY <3>2, <5>1, <6>1
        <5>2. CASE ~(g = h /\ ~Taking(h))
          BY <2>1, <5>2
        <5> QED BY <5>1, <5>2
      <4> QED BY <2>1, <4>1, <4>2
    <3> QED BY <3>1, <3>2
  <2> QED BY <2>4, <2>5
<1> QED BY <1>2, <1>3, <1>4, <1>5, <1>6, <1>7

LEMMA WorldUse ==
    ASSUME EntryInv, UseInv, NEW h \in Holders, Crash(h) \/ Late(h) \/ Missed(h) \/ Expire(h)
    PROVE  UseInv'
<1> USE DEF UseInv, TakesAlone, GivesUnused, Backed
<1>0. \A g \in Holders : Holding(g) \in Sizes /\ conns[g] \in Sizes
  BY HoldingType DEF EntryInv
<1>1. CASE Crash(h)
  <2>1. /\ \A g \in Holders \ {h} : op'[g] = op[g] /\ grant'[g] = grant[g]
        /\ grant'[h] = 0 /\ \A k \in Kinds : op'[h][k] = NoOp
        /\ lapsed' = lapsed \ {h} /\ UNCHANGED <<conns, crossed>>
    BY <1>1 DEF Crash, EntryInv, TypeOK, entry
  <2>2. /\ \A g \in Holders \ {h} : Holding(g)' = Holding(g)
        /\ Holding(h)' = 0
    BY <2>1, NoOpType DEF Holding, Taking, At, Kinds
  <2>3. 0 <= conns[h]
    BY <1>0, GrantsAssumption DEF Sizes
  <2> QED BY <2>1, <2>2, <2>3, NoOpType DEF At, Kinds
<1>2. CASE Late(h) \/ Missed(h) \/ Expire(h)
  <2>1. UNCHANGED <<conns, grant, op, crossed>> /\ lapsed \subseteq lapsed'
    BY <1>2 DEF Late, Missed, Expire
  <2> QED BY <2>1 DEF At, Holding, Taking
<1> QED BY <1>1, <1>2

LEMMA UseInvStep == EntryInv /\ UseInv /\ [Next]_vars => UseInv'
<1> SUFFICES ASSUME EntryInv, UseInv, [Next]_vars PROVE UseInv'
  OBVIOUS
<1>1. CASE UNCHANGED vars
  BY <1>1 DEF vars, UseInv, TakesAlone, GivesUnused, Backed, At, Holding, Taking
<1>2. ASSUME NEW h \in Holders,
             \/ Ask(h) \/ Takes(h) \/ GiveStart(h) \/ Gives(h) \/ Renews(h)
             \/ \E k \in Kinds : Fails(h, k)
             \/ Crash(h) \/ Missed(h) \/ Ages(h)
      PROVE  UseInv'
  <2>1. CASE \/ Ask(h) \/ TakeRemember(h) \/ TakeSet(h) \/ GiveStart(h) \/ GiveForget(h)
             \/ RenewStart(h) \/ RenewForget(h) \/ RenewDrop(h)
    BY <2>1, LocalUse
  <2>2. CASE TakeRead(h) \/ GiveRead(h) \/ RenewRead(h)
    BY <2>2, EntryReadsUse
  <2>3. CASE \E k \in Kinds : Write(h, k) \/ Fails(h, k)
    BY <2>3, WriteUse
  <2>4. CASE Crash(h) \/ Late(h) \/ Missed(h) \/ Expire(h)
    BY <2>4, WorldUse
  <2> QED BY <1>2, <2>1, <2>2, <2>3, <2>4 DEF Takes, Gives, Renews, Ages, Kinds
<1> QED BY <1>1, <1>2 DEF Next

LEMMA UseInvInit == Init => UseInv
<1> SUFFICES ASSUME Init PROVE UseInv
  OBVIOUS
<1>1. \A h \in Holders : Holding(h) = 0 /\ conns[h] = 0
  BY NoOpType DEF Init, Holding, At, Kinds
<1> QED BY <1>1, NoOpType DEF Init, UseInv, TakesAlone, GivesUnused, Backed, At, Kinds

\* The transfers that did not ask beside a give of their own together fetch over no
\* more connections than the account has, beside those whose grant expired under
\* them, whatever the other transfers do (Take, giveGrant, dropGrant).
THEOREM TransfersWithinLimit == Spec => []OrderlyWithinLimit
<1>1. Init => EntryInv /\ UseInv
  BY EntryInvInit, UseInvInit
<1>2. (EntryInv /\ UseInv) /\ [Next]_vars => (EntryInv /\ UseInv)'
  BY EntryInvStep, UseInvStep
<1> QED BY <1>1, <1>2, BackedWithinLimit, PTL DEF Spec
=============================================================================
