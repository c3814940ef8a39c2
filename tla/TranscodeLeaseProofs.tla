------------------------ MODULE TranscodeLeaseProofs ------------------------
(* The lease's safety for any number of pods and any durations: the swap is *)
(* exclusive, the fence comes in time, and, when the TTL is twice the       *)
(* longest a pod works without a good renewal, no lease lapses under work.  *)
EXTENDS TranscodeLease, TLAPS

Pcs == {"idle", "claim", "encode", "swap"}

-----------------------------------------------------------------------------
(* Type correctness.                                                       *)

USE DEF Calls

LEMMA InitType == Init => TypeOK
  BY LeaseAssumption DEF Init, TypeOK, Zero

LEMMA EndsType ==
  ASSUME TypeOK, NEW w \in Workers, Ends(w)
  PROVE  /\ withdrawn' \in {0, 1} /\ stale' \in SUBSET Workers
         /\ pc' \in [Workers -> Pcs] /\ call' \in [Workers -> Calls]
         /\ spent' \in [Workers -> Nat] /\ since' \in [Workers -> Nat]
         /\ tick' \in [Workers -> 0 .. Renew] /\ work' \in [Workers -> Nat]
  BY LeaseAssumption DEF TypeOK, Ends, Pcs

LEMMA StopType == ASSUME TypeOK, NEW w \in Workers, Stop(w) PROVE TypeOK'
  <1>1. CASE pc[w] = "encode" /\ Ends(w) /\ UNCHANGED <<by, left>>
    BY <1>1, EndsType DEF TypeOK, Pcs
  <1>2. CASE /\ pc[w] = "swap"
             /\ call' = [call EXCEPT ![w] = "stopped"]
             /\ UNCHANGED <<lease, pc, stale, timers>>
    BY <1>2 DEF TypeOK, lease, timers
  <1> QED BY <1>1, <1>2 DEF Stop

LEMMA NextType == TypeOK /\ [Next]_vars => TypeOK'
  <1> SUFFICES ASSUME TypeOK, [Next]_vars PROVE TypeOK'
    OBVIOUS
  <1> USE LeaseAssumption
  <1>1. ASSUME NEW w \in Workers, Claim(w) PROVE TypeOK'
    BY <1>1 DEF TypeOK, Claim
  <1>2. ASSUME NEW w \in Workers, StartWork(w) PROVE TypeOK'
    BY <1>2 DEF TypeOK, StartWork, lease
  <1>3. ASSUME NEW w \in Workers, Finish(w) PROVE TypeOK'
    BY <1>3, EndsType DEF TypeOK, Finish, Release, Pcs
  <1>4. ASSUME NEW w \in Workers, SendRenewal(w) PROVE TypeOK'
    BY <1>4 DEF TypeOK, SendRenewal, lease
  <1>5. ASSUME NEW w \in Workers, ServeRenewal(w) PROVE TypeOK'
    BY <1>5 DEF TypeOK, ServeRenewal, timers
  <1>6. ASSUME NEW w \in Workers, Renewed(w) PROVE TypeOK'
    BY <1>6 DEF TypeOK, Renewed, lease
  <1>7. ASSUME NEW w \in Workers, RenewalMissed(w) PROVE TypeOK'
    BY <1>7 DEF TypeOK, RenewalMissed, lease
  <1>8. ASSUME NEW w \in Workers, Disambiguate(w) PROVE TypeOK'
    BY <1>6, <1>8, StopType DEF Disambiguate
  <1>9. ASSUME NEW w \in Workers, RenewalFails(w) PROVE TypeOK'
    <2>1. CASE since[w] >= FenceAfter /\ Stop(w) BY <2>1, StopType
    <2>2. CASE /\ call' = [call EXCEPT ![w] = "none"]
               /\ UNCHANGED <<lease, pc, stale, timers>>
      BY <2>2 DEF TypeOK, lease, timers
    <2> QED BY <1>9, <2>1, <2>2 DEF RenewalFails
  <1>10. ASSUME NEW w \in Workers, Reassert(w) PROVE TypeOK'
    <2>1. CASE by = w /\ pc' = [pc EXCEPT ![w] = "swap"] /\ UNCHANGED <<by, withdrawn, spent, since, tick>>
      BY <1>10, <2>1 DEF TypeOK, Reassert, Outdates, Ends
    <2>2. CASE Ends(w) /\ UNCHANGED <<by, left>>
      BY <2>2, EndsType DEF TypeOK, Pcs
    <2> QED BY <1>10, <2>1, <2>2 DEF Reassert, Outdates
  <1>11. CASE Cancel
    BY <1>11 DEF TypeOK, Cancel, timers
  <1>12. CASE Tick
    <2>1. left' \in 0 .. TTL BY <1>12 DEF TypeOK, Tick, Sub1
    <2>2. tick' \in [Workers -> 0 .. Renew] BY <1>12 DEF TypeOK, Tick, Sub1
    <2>3. work' \in [Workers -> Nat] BY <1>12 DEF TypeOK, Tick, Sub1
    <2>4. spent' \in [Workers -> Nat] /\ since' \in [Workers -> Nat] BY <1>12 DEF TypeOK, Tick
    <2> QED BY <1>12, <2>1, <2>2, <2>3, <2>4 DEF TypeOK, Tick
  <1>13. CASE UNCHANGED vars
    BY <1>13 DEF TypeOK, vars
  <1> QED
    BY <1>1, <1>2, <1>3, <1>4, <1>5, <1>6, <1>7, <1>8, <1>9, <1>10, <1>11, <1>12, <1>13
    DEF Next, Renewal, RenewalOK

\* Every reachable state of the lease is well typed.
THEOREM LeaseTypeCorrect == Spec => []TypeOK
  BY InitType, NextType, PTL DEF Spec

-----------------------------------------------------------------------------
(* The swap is exclusive: who reasserts holds the lease, and a pod that      *)
(* claimed it while another renames has at least as far to go to its         *)
(* reassert as the other to the end of its rename.                           *)

SwapInTime == \A w \in Workers : pc[w] = "swap" => work[w] > 0 /\ work[w] <= Swap

HolderBehind ==
    \A v, w \in Workers :
        v # w /\ pc[v] = "swap" /\ by = w /\ pc[w] = "encode" => work[w] >= work[v]

SwapInv == SwapInTime /\ HolderBehind /\ SwapExclusive

\* The steps that touch neither the work, nor its timer, nor the holder.
LEMMA SwapQuiet ==
  ASSUME TypeOK, SwapInv, by' = by, pc' = pc, work' = work
  PROVE  SwapInv'
  BY DEF SwapInv, SwapInTime, HolderBehind, SwapExclusive

LEMMA SwapEnds ==
  ASSUME TypeOK, SwapInv, NEW w \in Workers, Ends(w), by' = by \/ by' = "nobody"
  PROVE  SwapInv'
  BY LeaseAssumption DEF TypeOK, Ends, SwapInv, SwapInTime, HolderBehind, SwapExclusive

LEMMA SwapStop ==
  ASSUME TypeOK, SwapInv, NEW w \in Workers, Stop(w)
  PROVE  SwapInv'
  BY SwapEnds, SwapQuiet DEF Stop, lease, timers

LEMMA SwapNext == TypeOK /\ SwapInv /\ [Next]_vars => SwapInv'
  <1> SUFFICES ASSUME TypeOK, SwapInv, [Next]_vars PROVE SwapInv'
    OBVIOUS
  <1> USE LeaseAssumption
  <1>1. ASSUME NEW w \in Workers, Claim(w) PROVE SwapInv'
    BY <1>1 DEF TypeOK, Claim, SwapInv, SwapInTime, HolderBehind, SwapExclusive
  <1>2. ASSUME NEW w \in Workers, StartWork(w) PROVE SwapInv'
    BY <1>2 DEF TypeOK, StartWork, lease, SwapInv, SwapInTime, HolderBehind, SwapExclusive
  <1>3. ASSUME NEW w \in Workers, Finish(w) PROVE SwapInv'
    BY <1>3, SwapEnds DEF Finish, Release
  <1>4. ASSUME NEW w \in Workers, SendRenewal(w) PROVE SwapInv'
    BY <1>4, SwapQuiet DEF SendRenewal, lease
  <1>5. ASSUME NEW w \in Workers, ServeRenewal(w) PROVE SwapInv'
    BY <1>5, SwapQuiet DEF ServeRenewal, timers
  <1>6. ASSUME NEW w \in Workers, Renewed(w) PROVE SwapInv'
    BY <1>6, SwapQuiet DEF Renewed, lease
  <1>7. ASSUME NEW w \in Workers, RenewalMissed(w) PROVE SwapInv'
    BY <1>7, SwapQuiet DEF RenewalMissed, lease
  <1>8. ASSUME NEW w \in Workers, Disambiguate(w) PROVE SwapInv'
    BY <1>6, <1>8, SwapStop DEF Disambiguate
  <1>9. ASSUME NEW w \in Workers, RenewalFails(w) PROVE SwapInv'
    BY <1>9, SwapStop, SwapQuiet DEF RenewalFails, lease, timers
  <1>10. ASSUME NEW w \in Workers, Reassert(w) PROVE SwapInv'
    <2>1. CASE by = w /\ pc' = [pc EXCEPT ![w] = "swap"] /\ UNCHANGED by
                      /\ work' = [work EXCEPT ![w] = Swap]
      <3>1. \A v \in Workers : v # w => pc[v] # "swap"
        BY <1>10, <2>1 DEF TypeOK, Reassert, SwapInv, SwapInTime, HolderBehind
      <3> QED
        BY <2>1, <3>1 DEF TypeOK, SwapInv, SwapInTime, HolderBehind, SwapExclusive
    <2>2. CASE Ends(w) /\ UNCHANGED <<by, left>>
      BY <2>2, SwapEnds
    <2> QED BY <1>10, <2>1, <2>2 DEF Reassert, Outdates
  <1>11. CASE Cancel
    BY <1>11 DEF TypeOK, Cancel, timers, SwapInv, SwapInTime, HolderBehind, SwapExclusive
  <1>12. CASE Tick
    <2>1. \A w \in Workers : pc[w] = "swap" => work[w] > 1
      BY <1>12 DEF Tick, InTime
    <2>2. \A w \in Workers : work'[w] = Sub1(work[w])
      BY <1>12 DEF Tick
    <2>3. SwapInTime'
      BY <1>12, <2>1, <2>2 DEF TypeOK, Tick, Sub1, SwapInv, SwapInTime
    <2>4. HolderBehind'
      BY <1>12, <2>1, <2>2 DEF TypeOK, Tick, Sub1, SwapInv, HolderBehind
    <2> QED BY <1>12, <2>3, <2>4 DEF Tick, SwapInv, SwapExclusive
  <1>13. CASE UNCHANGED vars
    BY <1>13, SwapQuiet DEF vars
  <1> QED
    BY <1>1, <1>2, <1>3, <1>4, <1>5, <1>6, <1>7, <1>8, <1>9, <1>10, <1>11, <1>12, <1>13
    DEF Next, Renewal, RenewalOK

\* At most one pod stands between its reassert and its rename.
THEOREM LeaseSwapExclusive == Spec => []SwapExclusive
  <1>1. Init => SwapInv
    BY DEF Init, SwapInv, SwapInTime, HolderBehind, SwapExclusive
  <1>2. SwapInv => SwapExclusive
    BY DEF SwapInv
  <1> QED BY <1>1, <1>2, SwapNext, LeaseTypeCorrect, PTL DEF Spec

-----------------------------------------------------------------------------
(* The fence comes in time. Between calls the next tick is due less than     *)
(* FenceAfter + Renew after lastOK: a failed call went on only before        *)
(* FenceAfter, and the ticker's period is Renew.                             *)

TickDue(w) ==
    /\ call[w] = "none" => since[w] + tick[w] < FenceAfter + Renew
    /\ call[w] \in {"sent", "applied", "missed"} =>
         spent[w] <= Call /\ since[w] < FenceAfter + Renew + spent[w]
    /\ call[w] = "getting" => spent[w] <= Call /\ since[w] < FenceAfter + Renew + Call + spent[w]

FenceInv ==
    /\ \A w \in Workers : Working(w) => TickDue(w)
    /\ \A w \in Workers : pc[w] \in {"idle", "claim"} => call[w] = "none"
    /\ \A w \in Workers : call[w] = "stopped" => pc[w] = "swap"

LEMMA FenceQuiet ==
  ASSUME FenceInv, UNCHANGED <<pc, call, spent, since, tick>>
  PROVE  FenceInv'
  BY DEF FenceInv, TickDue, Working

LEMMA FenceEnds ==
  ASSUME TypeOK, FenceInv, NEW w \in Workers, Ends(w)
  PROVE  FenceInv'
  BY LeaseAssumption DEF TypeOK, Ends, FenceInv, TickDue, Working

LEMMA FenceStop ==
  ASSUME TypeOK, FenceInv, NEW w \in Workers, Stop(w)
  PROVE  FenceInv'
  <1>1. CASE Ends(w) BY <1>1, FenceEnds
  <1>2. CASE /\ pc[w] = "swap"
             /\ call' = [call EXCEPT ![w] = "stopped"]
             /\ UNCHANGED <<lease, pc, stale, timers>>
    BY <1>2 DEF TypeOK, FenceInv, TickDue, Working, timers
  <1> QED BY <1>1, <1>2 DEF Stop

LEMMA FenceNext == TypeOK /\ FenceInv /\ [Next]_vars => FenceInv'
  <1> SUFFICES ASSUME TypeOK, FenceInv, [Next]_vars PROVE FenceInv'
    OBVIOUS
  <1> USE LeaseAssumption
  <1>1. ASSUME NEW w \in Workers, Claim(w) PROVE FenceInv'
    BY <1>1 DEF TypeOK, Claim, FenceInv, TickDue, Working
  <1>2. ASSUME NEW w \in Workers, StartWork(w) PROVE FenceInv'
    BY <1>2 DEF TypeOK, StartWork, FenceInv, TickDue, Working
  <1>3. ASSUME NEW w \in Workers, Finish(w) PROVE FenceInv'
    BY <1>3, FenceEnds DEF Finish
  <1>4. ASSUME NEW w \in Workers, SendRenewal(w) PROVE FenceInv'
    BY <1>4 DEF TypeOK, SendRenewal, FenceInv, TickDue, Working
  <1>5. ASSUME NEW w \in Workers, ServeRenewal(w) PROVE FenceInv'
    <2>1. call' = [call EXCEPT ![w] = "applied"] \/ call' = [call EXCEPT ![w] = "missed"]
      BY <1>5 DEF ServeRenewal
    <2>2. call[w] = "sent" /\ UNCHANGED <<pc, spent, since, tick>>
      BY <1>5 DEF ServeRenewal, timers
    <2> QED BY <2>1, <2>2 DEF TypeOK, FenceInv, TickDue, Working
  <1>6. ASSUME NEW w \in Workers, call[w] \in {"applied", "getting"}, Renewed(w) PROVE FenceInv'
    BY <1>6 DEF TypeOK, Renewed, FenceInv, TickDue, Working
  <1>7. ASSUME NEW w \in Workers, RenewalMissed(w) PROVE FenceInv'
    BY <1>7 DEF TypeOK, RenewalMissed, FenceInv, TickDue, Working
  <1>8. ASSUME NEW w \in Workers, Disambiguate(w) PROVE FenceInv'
    BY <1>6, <1>8, FenceStop DEF Disambiguate
  <1>9. ASSUME NEW w \in Workers, RenewalFails(w) PROVE FenceInv'
    <2>1. CASE Stop(w) BY <2>1, FenceStop
    <2>2. CASE /\ since[w] < FenceAfter /\ call' = [call EXCEPT ![w] = "none"]
               /\ UNCHANGED <<lease, pc, stale, timers>>
      BY <1>9, <2>2 DEF RenewalFails, TypeOK, FenceInv, TickDue, Working, timers
    <2> QED BY <1>9, <2>1, <2>2 DEF RenewalFails
  <1>10. ASSUME NEW w \in Workers, Reassert(w) PROVE FenceInv'
    <2>1. CASE Ends(w) BY <2>1, FenceEnds
    <2>2. CASE /\ pc' = [pc EXCEPT ![w] = "swap"]
               /\ call' = call \/ (call[w] = "sent" /\ call' = [call EXCEPT ![w] = "missed"])
               /\ UNCHANGED <<by, withdrawn, spent, since, tick>>
      BY <1>10, <2>2 DEF Reassert, TypeOK, FenceInv, TickDue, Working
    <2> QED BY <1>10, <2>1, <2>2 DEF Reassert, Outdates
  <1>11. CASE Cancel
    BY <1>11, FenceQuiet DEF Cancel, timers
  <1>12. CASE Tick
    <2> SUFFICES ASSUME NEW w \in Workers, Working(w) PROVE TickDue(w)'
      BY <1>12 DEF Tick, FenceInv, Working
    <2>1. InTime(w) /\ TickDue(w)
      BY <1>12 DEF Tick, FenceInv
    <2>2. /\ spent'[w] = IF Pending(w) THEN spent[w] + 1 ELSE spent[w]
          /\ since'[w] = IF call[w] # "stopped" THEN since[w] + 1 ELSE since[w]
          /\ tick'[w] = Sub1(tick[w]) /\ call' = call
      BY <1>12 DEF Tick, Working
    <2> QED BY <2>1, <2>2 DEF TypeOK, InTime, TickDue, Working, Pending, Sub1
  <1>13. CASE UNCHANGED vars
    BY <1>13, FenceQuiet DEF vars
  <1> QED
    BY <1>1, <1>2, <1>3, <1>4, <1>5, <1>6, <1>7, <1>8, <1>9, <1>10, <1>11, <1>12, <1>13
    DEF Next, Renewal, RenewalOK

LEMMA FenceGivesBound ==
  ASSUME TypeOK, FenceInv, NEW w \in Workers, pc[w] = "encode"
  PROVE  since[w] < Bound
  BY LeaseAssumption DEF TypeOK, FenceInv, TickDue, Working, Bound

LEMMA FenceInit == Init => FenceInv
  BY DEF Init, FenceInv, TickDue, Working

\* A pod that cannot renew stops within FenceAfter, one period and two calls.
THEOREM LeaseFencedInTime == Spec => []FencedInTime
  <1>1. TypeOK /\ FenceInv => FencedInTime
    BY FenceGivesBound DEF FencedInTime
  <1> QED BY <1>1, FenceInit, FenceNext, LeaseTypeCorrect, PTL DEF Spec

-----------------------------------------------------------------------------
(* No lease lapses under work, when the TTL is long enough. The lease's age  *)
(* (the time since the server's last write of it) is bounded by what the     *)
(* pod knows: a lease at the pod's own revision was written at most Bound    *)
(* before lastOK (an adopted write may be that old), one beyond it after     *)
(* lastOK.                                                                   *)

Age == TTL - left

Claimed(w) == by = w /\ w \notin stale /\ spent[w] <= Setup /\ Age <= spent[w]

Renewing(w) ==
    /\ by = w
    /\ w \notin stale => Age <= since[w] + Bound
    /\ w \in stale => Age <= since[w]
    /\ call[w] \in {"applied", "missed", "getting"} => w \in stale

AgeInv ==
    withdrawn = 0 =>
        \A w \in Workers : /\ pc[w] = "claim" => Claimed(w)
                           /\ pc[w] = "encode" => Renewing(w)

LongTTL == 2 * Bound <= TTL /\ Setup <= Bound

LEMMA AgeEnds ==
  ASSUME TypeOK, AgeInv, NEW w \in Workers, Ends(w), UNCHANGED <<by, left>>
  PROVE  AgeInv'
  BY DEF TypeOK, Ends, AgeInv, Claimed, Renewing, Age

LEMMA AgeRelease ==
  ASSUME TypeOK, AgeInv, NEW w \in Workers, pc[w] # "idle", Ends(w), Release(w)
  PROVE  AgeInv'
  BY LeaseAssumption DEF TypeOK, Ends, Release, AgeInv, Claimed, Renewing, Age

LEMMA AgeStop ==
  ASSUME TypeOK, AgeInv, NEW w \in Workers, Stop(w)
  PROVE  AgeInv'
  <1>1. CASE Ends(w) /\ UNCHANGED <<by, left>> BY <1>1, AgeEnds
  <1>2. CASE /\ pc[w] = "swap"
             /\ call' = [call EXCEPT ![w] = "stopped"]
             /\ UNCHANGED <<lease, pc, stale, timers>>
    BY <1>2 DEF TypeOK, AgeInv, Claimed, Renewing, Age, lease, timers
  <1> QED BY <1>1, <1>2 DEF Stop

LEMMA AgeNext ==
  ASSUME LongTTL, TypeOK, FenceInv, AgeInv, [Next]_vars, TypeOK', FenceInv'
  PROVE  AgeInv'
  <1> USE LeaseAssumption
  <1>1. ASSUME NEW w \in Workers, Claim(w) PROVE AgeInv'
    BY <1>1 DEF TypeOK, Claim, AgeInv, Claimed, Renewing, Age
  <1>2. ASSUME NEW w \in Workers, StartWork(w) PROVE AgeInv'
    BY <1>2 DEF LongTTL, Bound, TypeOK, StartWork, lease, AgeInv, Claimed, Renewing, Age
  <1>3. ASSUME NEW w \in Workers, Finish(w) PROVE AgeInv'
    BY <1>3, AgeEnds, AgeRelease DEF Finish
  <1>4. ASSUME NEW w \in Workers, SendRenewal(w) PROVE AgeInv'
    BY <1>4 DEF TypeOK, SendRenewal, lease, AgeInv, Claimed, Renewing, Age, Working
  <1>5. ASSUME NEW w \in Workers, ServeRenewal(w) PROVE AgeInv'
    <2>1. pc[w] # "claim"
      BY <1>5 DEF FenceInv, ServeRenewal
    <2>2. CASE /\ by = w /\ left' = TTL /\ call' = [call EXCEPT ![w] = "applied"]
               /\ stale' = stale \cup {w}
      BY <1>5, <2>1, <2>2 DEF TypeOK, ServeRenewal, timers, AgeInv, Claimed, Renewing, Age
    <2>3. CASE /\ by # w \/ w \in stale
               /\ call' = [call EXCEPT ![w] = "missed"]
               /\ UNCHANGED <<left, stale>>
      BY <1>5, <2>1, <2>3 DEF TypeOK, ServeRenewal, timers, AgeInv, Claimed, Renewing, Age
    <2> QED BY <1>5, <2>2, <2>3 DEF ServeRenewal
  <1>6. ASSUME NEW w \in Workers, call[w] \in {"applied", "getting"}, Renewed(w) PROVE AgeInv'
    <2>1. pc[w] \notin {"idle", "claim"}
      BY <1>6 DEF FenceInv
    <2>2. pc[w] = "encode" => since[w] < Bound
      BY FenceGivesBound
    <2> QED BY <1>6, <2>1, <2>2 DEF Bound, TypeOK, Renewed, lease, AgeInv, Claimed, Renewing, Age
  <1>7. ASSUME NEW w \in Workers, RenewalMissed(w) PROVE AgeInv'
    <2>1. pc[w] # "claim"
      BY <1>7 DEF FenceInv, RenewalMissed
    <2> QED BY <1>7, <2>1 DEF TypeOK, RenewalMissed, lease, AgeInv, Claimed, Renewing, Age
  <1>8. ASSUME NEW w \in Workers, Disambiguate(w) PROVE AgeInv'
    BY <1>6, <1>8, AgeStop DEF Disambiguate
  <1>9. ASSUME NEW w \in Workers, RenewalFails(w) PROVE AgeInv'
    <2>1. CASE Stop(w) BY <2>1, AgeStop
    <2>2. CASE /\ call' = [call EXCEPT ![w] = "none"]
               /\ UNCHANGED <<lease, pc, stale, timers>>
      BY <2>2 DEF TypeOK, AgeInv, Claimed, Renewing, Age, lease, timers
    <2> QED BY <1>9, <2>1, <2>2 DEF RenewalFails
  <1>10. ASSUME NEW w \in Workers, Reassert(w) PROVE AgeInv'
    <2>1. CASE Ends(w) /\ UNCHANGED <<by, left>> BY <2>1, AgeEnds
    <2>2. CASE /\ by = w /\ pc' = [pc EXCEPT ![w] = "swap"] /\ stale' = stale \ {w}
               /\ call' = call \/ (call[w] = "sent" /\ call' = [call EXCEPT ![w] = "missed"])
               /\ UNCHANGED <<by, withdrawn, spent, since, tick>>
      BY <2>2 DEF TypeOK, AgeInv, Claimed, Renewing, Age
    <2> QED BY <1>10, <2>1, <2>2 DEF Reassert, Outdates
  <1>11. CASE Cancel
    BY <1>11 DEF Cancel, AgeInv
  <1>12. CASE Tick
    <2> SUFFICES ASSUME withdrawn = 0, NEW w \in Workers
                 PROVE  /\ pc[w] = "claim" => Claimed(w)'
                        /\ pc[w] = "encode" => Renewing(w)'
      BY <1>12 DEF Tick, AgeInv
    <2>1. /\ left' = Sub1(left) /\ by' = (IF left = 1 THEN "nobody" ELSE by)
          /\ call' = call /\ stale' = stale /\ pc' = pc
      BY <1>12 DEF Tick
    <2>2. ASSUME pc[w] = "claim" PROVE Claimed(w)'
      <3>1. Claimed(w) /\ spent[w] < Setup BY <1>12, <2>2 DEF Tick, InTime, AgeInv
      <3>2. spent'[w] = spent[w] + 1 BY <1>12, <2>2 DEF Tick
      <3>3. left > 1 BY <3>1 DEF TypeOK, Claimed, Age
      <3> QED BY <2>1, <3>1, <3>2, <3>3 DEF TypeOK, Claimed, Age, Sub1
    <2>3. ASSUME pc[w] = "encode" PROVE Renewing(w)'
      <3>1. Renewing(w) BY <2>3 DEF AgeInv
      <3>2. call[w] # "stopped" BY <2>3 DEF FenceInv
      <3>3. since'[w] = since[w] + 1 BY <1>12, <2>3, <3>2 DEF Tick, Working
      <3>4. since'[w] < Bound
        BY <2>1, <2>3 DEF TypeOK, FenceInv, TickDue, Working, Bound
      <3>5. left > 1 BY <3>1, <3>3, <3>4 DEF LongTTL, TypeOK, Renewing, Age, Bound
      <3> QED BY <2>1, <3>1, <3>3, <3>5 DEF TypeOK, Renewing, Age, Sub1, Bound
    <2> QED BY <2>2, <2>3
  <1>13. CASE UNCHANGED vars
    BY <1>13 DEF vars, AgeInv, Claimed, Renewing, Age
  <1> QED
    BY <1>1, <1>2, <1>3, <1>4, <1>5, <1>6, <1>7, <1>8, <1>9, <1>10, <1>11, <1>12, <1>13
    DEF Next, Renewal, RenewalOK

\* With a TTL of at least twice Bound no lease lapses while its pod encodes, so
\* no second pod can claim the task before the first has stopped.
THEOREM LeaseFenceBeforeLapse ==
  ASSUME LongTTL
  PROVE  Spec => []FenceBeforeLapse
  <1>1. Init => AgeInv
    BY DEF Init, AgeInv
  <1>2. TypeOK => (AgeInv => FenceBeforeLapse)
    BY DEF TypeOK, AgeInv, Renewing, FenceBeforeLapse
  <1>3. TypeOK /\ FenceInv /\ AgeInv /\ [Next]_vars => AgeInv'
    BY LongTTL, NextType, FenceNext, AgeNext
  <1> QED BY <1>1, <1>2, <1>3, FenceInit, FenceNext, LeaseTypeCorrect, PTL DEF Spec
=============================================================================
