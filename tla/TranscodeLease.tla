--------------------------- MODULE TranscodeLease ---------------------------
(* The lease of one dispatch, in time. A pod takes it, renews it on a       *)
(* ticker in a goroutine beside the work, asserts it again just before the  *)
(* rename, and releases it; the server lets it lapse TTL after the last     *)
(* write. A call to the server takes effect, or not, at any moment before   *)
(* it returns, and its reply may be lost. All times are durations: Tick     *)
(* lets one unit pass, and no call, tick or rename outlasts its limit.      *)
EXTENDS Integers

CONSTANTS Workers,     \* the pods
          TTL,         \* TranscodeLeaseTTL
          Renew,       \* the ticker's period
          FenceAfter,  \* failed renewals are borne so long after the last good one
          Call,        \* limit of one call to the server
          Setup,       \* limit from the lease's write to the start of renew
          Encode,      \* least time from claim to the reassert
          Swap         \* limit from the reassert's write to the rename

ASSUME LeaseAssumption ==
    /\ TTL \in Nat \ {0} /\ Renew \in Nat \ {0} /\ FenceAfter \in Nat \ {0}
    /\ Call \in Nat \ {0} /\ Setup \in Nat \ {0} /\ Setup < TTL
    /\ Encode \in Nat \ {0} /\ Swap \in Nat \ {0}
    /\ Swap <= Encode  \* a swap takes no longer than an encode
    /\ {"nobody", "cancelled"} \cap Workers = {}

VARIABLES by,        \* the lease's holder, "cancelled" or "nobody"
          left,      \* the time until the lease lapses
          withdrawn, \* 1 once the dispatch was withdrawn: no task of it is left
          pc,        \* per worker: "idle", "claim", "encode", "swap"
          stale,     \* the workers whose revision is not the lease's
          call,      \* per worker: the renewal under way
          spent,     \* ... how long its call has taken
          since,     \* ... the time since lastOK
          tick,      \* ... the time to the next tick
          work       \* ... the least time to the reassert, the most to the rename

vars == <<by, left, withdrawn, pc, stale, call, spent, since, tick, work>>
lease == <<by, left, withdrawn>>
timers == <<spent, since, tick, work>>

Calls == {"none", "sent", "applied", "missed", "getting", "stopped"}

TypeOK ==
    /\ by \in Workers \cup {"nobody", "cancelled"} /\ left \in 0 .. TTL
    /\ withdrawn \in {0, 1} /\ stale \in SUBSET Workers
    /\ pc \in [Workers -> {"idle", "claim", "encode", "swap"}]
    /\ call \in [Workers -> Calls]
    /\ spent \in [Workers -> Nat] /\ since \in [Workers -> Nat]
    /\ tick \in [Workers -> 0 .. Renew] /\ work \in [Workers -> Nat]

Zero == [w \in Workers |-> 0]

Init ==
    /\ by = "nobody" /\ left = 0 /\ withdrawn = 0
    /\ pc = [w \in Workers |-> "idle"] /\ stale = {}
    /\ call = [w \in Workers |-> "none"]
    /\ spent = Zero /\ since = Zero /\ tick = Zero /\ work = Zero

Working(w) == pc[w] \in {"encode", "swap"}
Pending(w) == call[w] \in {"sent", "applied", "missed", "getting"}

-----------------------------------------------------------------------------
(* The worker.                                                             *)

\* claim: Create.
Claim(w) ==
    /\ pc[w] = "idle" /\ by = "nobody" /\ withdrawn = 0
    /\ by' = w /\ left' = TTL
    /\ pc' = [pc EXCEPT ![w] = "claim"]
    /\ stale' = stale \ {w}
    /\ spent' = [spent EXCEPT ![w] = 0]
    /\ UNCHANGED <<withdrawn, call, since, tick, work>>

\* Mutant of StartWork: the ticker is armed one unit late.
StartWorkLate(w) ==
    /\ pc[w] = "claim"
    /\ pc' = [pc EXCEPT ![w] = "encode"]
    /\ call' = [call EXCEPT ![w] = "none"]
    /\ spent' = [spent EXCEPT ![w] = 0]
    /\ since' = [since EXCEPT ![w] = 0]
    /\ tick' = [tick EXCEPT ![w] = Renew + 1]
    /\ work' = [work EXCEPT ![w] = Encode]
    /\ UNCHANGED <<lease, stale>>

\* The record is claimed: renew captures lastOK and its ticker, the work starts.
StartWork(w) ==
    /\ pc[w] = "claim"
    /\ pc' = [pc EXCEPT ![w] = "encode"]
    /\ call' = [call EXCEPT ![w] = "none"]
    /\ spent' = [spent EXCEPT ![w] = 0]
    /\ since' = [since EXCEPT ![w] = 0]
    /\ tick' = [tick EXCEPT ![w] = Renew]
    /\ work' = [work EXCEPT ![w] = Encode]
    /\ UNCHANGED <<lease, stale>>

\* The worker is done with the delivery; what it leaves behind does not matter.
Ends(w) ==
    /\ pc' = [pc EXCEPT ![w] = "idle"]
    /\ call' = [call EXCEPT ![w] = "none"]
    /\ spent' = [spent EXCEPT ![w] = 0]
    /\ since' = [since EXCEPT ![w] = 0]
    /\ tick' = [tick EXCEPT ![w] = 0]
    /\ work' = [work EXCEPT ![w] = 0]
    /\ UNCHANGED <<withdrawn, stale>>

\* release: DeleteRevision at the revision the worker knows.
Release(w) ==
    IF by = w /\ w \notin stale THEN by' = "nobody" /\ left' = 0 ELSE UNCHANGED <<by, left>>

\* The delivery ends with the lease released (answered, drained, a refused
\* claim) or left to lapse (a killed pod). After the rename a worker that
\* renew has fenced leaves its lease.
Finish(w) ==
    /\ pc[w] # "idle" /\ Ends(w)
    /\ \/ call[w] # "stopped" /\ Release(w)
       \/ UNCHANGED <<by, left>>

-----------------------------------------------------------------------------
(* renew, the goroutine beside the work.                                   *)

\* A tick: the update goes out, and the ticker runs on.
SendRenewal(w) ==
    /\ Working(w) /\ call[w] = "none" /\ tick[w] = 0
    /\ call' = [call EXCEPT ![w] = "sent"]
    /\ spent' = [spent EXCEPT ![w] = 0]
    /\ tick' = [tick EXCEPT ![w] = Renew]
    /\ UNCHANGED <<lease, pc, stale, since, work>>

\* The server applies it, when the revision is the lease's, or refuses it.
ServeRenewal(w) ==
    /\ call[w] = "sent"
    /\ \/ /\ by = w /\ w \notin stale
          /\ left' = TTL
          /\ call' = [call EXCEPT ![w] = "applied"]
          /\ stale' = stale \cup {w}
       \/ /\ by # w \/ w \in stale
          /\ call' = [call EXCEPT ![w] = "missed"]
          /\ UNCHANGED <<left, stale>>
    /\ UNCHANGED <<by, withdrawn, pc, timers>>

\* lastOK is now; the revision is the lease's.
Renewed(w) ==
    /\ call' = [call EXCEPT ![w] = "none"]
    /\ stale' = stale \ {w}
    /\ since' = [since EXCEPT ![w] = 0]
    /\ UNCHANGED <<lease, pc, spent, tick, work>>

\* The good reply.
RenewalOK(w) == call[w] = "applied" /\ Renewed(w)

\* A mismatch: read the lease.
RenewalMissed(w) ==
    /\ call[w] = "missed"
    /\ call' = [call EXCEPT ![w] = "getting"]
    /\ spent' = [spent EXCEPT ![w] = 0]
    /\ UNCHANGED <<lease, pc, stale, since, tick, work>>

\* stop: the encode ends there; a rename under way goes on without renewals.
Stop(w) ==
    \/ pc[w] = "encode" /\ Ends(w) /\ UNCHANGED <<by, left>>
    \/ /\ pc[w] = "swap"
       /\ call' = [call EXCEPT ![w] = "stopped"]
       /\ UNCHANGED <<lease, pc, stale, timers>>

\* The lease read after a mismatch: its own write, whose reply was lost, is
\* adopted; anything else, a failed read too, stops the work.
Disambiguate(w) ==
    /\ call[w] = "getting"
    /\ (by = w /\ Renewed(w)) \/ Stop(w)

\* Mutant of RenewalFails: the fence one unit late.
RenewalFailsLate(w) ==
    /\ call[w] \in {"sent", "applied", "missed"}
    /\ \/ since[w] > FenceAfter /\ Stop(w)
       \/ /\ since[w] <= FenceAfter
          /\ call' = [call EXCEPT ![w] = "none"]
          /\ UNCHANGED <<lease, pc, stale, timers>>

\* A plain error, the reply of an update that was applied or refused lost
\* included: borne until FenceAfter.
RenewalFails(w) ==
    /\ call[w] \in {"sent", "applied", "missed"}
    /\ \/ since[w] >= FenceAfter /\ Stop(w)
       \/ /\ since[w] < FenceAfter
          /\ call' = [call EXCEPT ![w] = "none"]
          /\ UNCHANGED <<lease, pc, stale, timers>>

-----------------------------------------------------------------------------
(* reassertBeforeSwap, on the work's own goroutine.                        *)

\* Mutant of Reassert: the last renewal is trusted.
ReassertTrusts(w) ==
    /\ pc[w] = "encode" /\ work[w] = 0
    /\ pc' = [pc EXCEPT ![w] = "swap"]
    /\ work' = [work EXCEPT ![w] = Swap]
    /\ UNCHANGED <<lease, stale, call, spent, since, tick>>

\* A renewal sent and not yet served carries a revision that is now old.
Outdates(w, old) == call' = IF call[w] = "sent" /\ old THEN [call EXCEPT ![w] = "missed"] ELSE call

\* The update at the known revision; or, when it is refused or lost on the way
\* and the lease read after it is still the pod's own, the adoption of that one
\* as it stands. Anything else aborts the swap.
Reassert(w) ==
    /\ pc[w] = "encode" /\ work[w] = 0
    /\ \/ /\ by = w
          /\ \/ w \notin stale /\ left' = TTL /\ Outdates(w, TRUE)
             \/ UNCHANGED left /\ Outdates(w, w \in stale)
          /\ pc' = [pc EXCEPT ![w] = "swap"]
          /\ stale' = stale \ {w}
          /\ work' = [work EXCEPT ![w] = Swap]
          /\ UNCHANGED <<by, withdrawn, spent, since, tick>>
       \/ Ends(w) /\ UNCHANGED <<by, left>>

-----------------------------------------------------------------------------
(* The loop and the clock.                                                 *)

\* Withdraw: the cancel marker, over whatever the lease is.
Cancel ==
    /\ withdrawn = 0
    /\ by' = "cancelled" /\ left' = TTL /\ withdrawn' = 1
    /\ UNCHANGED <<pc, stale, call, timers>>

InTime(w) ==
    /\ pc[w] = "claim" => spent[w] < Setup
    /\ Working(w) /\ Pending(w) => spent[w] < Call
    /\ Working(w) /\ call[w] = "none" => tick[w] > 0
    /\ pc[w] = "swap" => work[w] > 1

Sub1(n) == IF n > 0 THEN n - 1 ELSE 0

Tick ==
    /\ \A w \in Workers : InTime(w)
    /\ left' = Sub1(left)
    /\ by' = IF left = 1 THEN "nobody" ELSE by
    /\ spent' = [w \in Workers |-> IF pc[w] = "claim" \/ (Working(w) /\ Pending(w)) THEN spent[w] + 1 ELSE spent[w]]
    /\ since' = [w \in Workers |-> IF Working(w) /\ call[w] # "stopped" THEN since[w] + 1 ELSE since[w]]
    /\ tick' = [w \in Workers |-> Sub1(tick[w])]
    /\ work' = [w \in Workers |-> Sub1(work[w])]
    /\ UNCHANGED <<withdrawn, pc, stale, call>>

Renewal(w) ==
    \/ SendRenewal(w) \/ ServeRenewal(w) \/ RenewalOK(w) \/ RenewalMissed(w)
    \/ Disambiguate(w) \/ RenewalFails(w)

Next ==
    \/ \E w \in Workers : Claim(w) \/ StartWork(w) \/ Finish(w) \/ Renewal(w) \/ Reassert(w)
    \/ Cancel \/ Tick

Spec == Init /\ [][Next]_vars

-----------------------------------------------------------------------------
(* Properties.                                                             *)

\* No two pods stand between their reassert and their rename, whatever was lost
\* and whichever lease lapsed under its holder.
SwapExclusive == \A v, w \in Workers : pc[v] = "swap" /\ pc[w] = "swap" => v = w

\* The longest a pod works after its last good renewal: the errors it bears, one
\* more period of the ticker, and that tick's update and read.
Bound == FenceAfter + Renew + 2 * Call

\* The fence comes in time, whatever the phase of the ticker.
FencedInTime == \A w \in Workers : pc[w] = "encode" => since[w] < Bound

\* While a pod encodes, its lease has not lapsed: it stands, or the withdrawal
\* has replaced it. So no second pod can claim the task before the first stops.
FenceBeforeLapse == \A w \in Workers : pc[w] = "encode" => by = w \/ withdrawn = 1
=============================================================================
