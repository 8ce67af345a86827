---------------------------- MODULE PortCounters ----------------------------
(***************************************************************************)
(* The traffic totals of the ports of one device: every poll cycle reads    *)
(* the byte counters of the device, adds what has passed since the baseline *)
(* of the port to its total, saves totals and baselines together, and keeps *)
(* the latest totals in a ring from which the current rate is computed      *)
(* (services/poller_service.py, repositories/metric_repo.py).               *)
(*                                                                         *)
(* One direction is modelled: tx and rx are handled alike.  A total carries *)
(* what an observer of the port knows of it: origin and at, the bytes the   *)
(* port had carried when counting began and when the sample was taken;      *)
(* epoch, the boot of the device it was taken in; sound and exact, whether  *)
(* the device could be read and the growth of its counter told apart.       *)
(***************************************************************************)
EXTENDS Integers, Sequences, FiniteSets

CONSTANTS Names,       \* port names
          Reported,    \* the names under which the device reports its ports
          Canonical,   \* Canonical[n] = normalize_port(n), the key of the tables
          Modulus,     \* the counters of the device wrap at this value
          Wrap, Half,  \* 2^32, and the 2 * 10^9 above which a fall is a wrap
          Limits,      \* max_bytes_limit, by link speed and time passed
          Bursts,      \* bytes a port may carry at a time
          Outcomes,    \* what a poll may yield: "online", "zeros", "error"
          MaxCarried,  \* bound on the bytes a port carries
          MaxBoots,    \* bound on the boots of the device
          MaxCum,      \* bound on the totals
          None

Total == [bytes : Nat, cum : Nat, origin : Nat, at : Nat, epoch : Nat,
          sound : BOOLEAN, exact : BOOLEAN]

ASSUME CounterAssumption ==
  /\ Reported \subseteq Names
  /\ Canonical \in [Names -> Names]
  /\ \A m, n \in Reported : Canonical[m] = Canonical[n] => m = n
  /\ Half \in Nat /\ Wrap \in Nat /\ Modulus \in Nat
  /\ Half < Wrap /\ Wrap <= Modulus
  /\ Limits \subseteq Nat
  /\ Bursts \subseteq 1 .. Modulus
  /\ Outcomes \subseteq {"online", "zeros", "error"}
  /\ MaxCarried \in Nat /\ MaxBoots \in Nat /\ MaxCum \in Nat
  /\ None \notin Total

VARIABLES carried,    \* carried[n]: bytes the port has carried
          counter,    \* counter[n]: the byte counter of the device
          epoch,      \* how often the device has booted
          phase,      \* "idle", "polling", "saving": the holder of _poll_lock
          loaded,     \* whether _counters was read from the database
          baselines,  \* _counters
          updates,    \* counter_updates of the running cycle
          ring,       \* ring[n]: the last two samples of _history_live
          store,      \* table counters
          forgotten   \* forgotten[n]: carried[n] at the last reset

deviceVars == <<carried, counter, epoch>>
vars == <<deviceVars, phase, loaded, baselines, updates, ring, store, forgotten>>

NoTotals == [n \in Names |-> None]

Init ==
  /\ carried = [n \in Names |-> 0]
  /\ counter = [n \in Names |-> 0]
  /\ epoch = 0
  /\ phase = "idle"
  /\ loaded = FALSE
  /\ baselines = NoTotals
  /\ updates = NoTotals
  /\ ring = [n \in Names |-> <<>>]
  /\ store = NoTotals
  /\ forgotten = [n \in Names |-> 0]

-----------------------------------------------------------------------------
(* The device.                                                             *)

Carry(n, b) ==
  /\ carried[n] + b <= MaxCarried
  /\ carried' = [carried EXCEPT ![n] = @ + b]
  /\ counter' = [counter EXCEPT ![n] =
                   IF @ + b < Modulus THEN @ + b ELSE @ + b - Modulus]
  /\ UNCHANGED <<epoch, phase, loaded, baselines, updates, ring, store, forgotten>>

Reboot ==
  /\ epoch < MaxBoots
  /\ epoch' = epoch + 1
  /\ counter' = [n \in Names |-> 0]
  /\ UNCHANGED <<carried, phase, loaded, baselines, updates, ring, store, forgotten>>

-----------------------------------------------------------------------------
(* A poll cycle.                                                           *)

\* Mutants: a fall of the counter counts in full; it is never a wrap.
DeltaAbsolute(cur, prev, limit) ==
  LET raw == IF cur >= prev THEN cur - prev ELSE prev - cur
  IN  IF raw <= limit THEN raw ELSE 0

DeltaNoWrap(cur, prev, limit) ==
  LET raw == IF cur >= prev THEN cur - prev ELSE cur
  IN  IF raw <= limit THEN raw ELSE 0

\* calculate_counter_delta
Delta(cur, prev, limit) ==
  LET raw == IF cur >= prev THEN cur - prev
             ELSE IF Half < prev /\ prev <= Wrap THEN (Wrap - prev) + cur
             ELSE cur
  IN  IF raw <= limit THEN raw ELSE 0

\* Mutant: the baselines of a fresh process are not read.
StartPollEmpty ==
  /\ phase = "idle"
  /\ phase' = "polling"
  /\ loaded' = TRUE
  /\ baselines' = IF loaded THEN baselines ELSE NoTotals
  /\ UNCHANGED <<deviceVars, updates, ring, store, forgotten>>

StartPoll ==
  /\ phase = "idle"
  /\ phase' = "polling"
  /\ loaded' = TRUE
  /\ baselines' = IF loaded THEN baselines ELSE store
  /\ UNCHANGED <<deviceVars, updates, ring, store, forgotten>>

FirstSample(n, bytes, readable) ==
  [bytes |-> bytes, cum |-> 0, origin |-> carried[n], at |-> carried[n],
   epoch |-> epoch, sound |-> readable, exact |-> readable]

\* A boot of the device is mistaken for a wrap if the baseline was high.
Mistaken(last, cur) ==
  last.epoch # epoch /\ cur < last.bytes /\ Half < last.bytes /\ last.bytes <= Wrap

NextSample(n, last, bytes, limit, readable) ==
  [bytes  |-> bytes,
   cum    |-> last.cum + Delta(bytes, last.bytes, limit),
   origin |-> last.origin,
   at     |-> carried[n],
   epoch  |-> epoch,
   sound  |-> last.sound /\ readable /\ ~Mistaken(last, bytes),
   exact  |-> /\ last.exact /\ readable
              /\ last.epoch = epoch
              /\ carried[n] - last.at <= limit
              /\ carried[n] - last.at < Wrap - Half]

LatestTwo(seq) == IF Len(seq) <= 2 THEN seq ELSE Tail(seq)

\* The worker of the device: each port is compared with its baseline.  Some
\* drivers report an unreachable device with ports whose counters are zero.
PollDevice ==
  /\ phase = "polling"
  /\ \E outcome \in Outcomes \ {"error"}, limit \in [Reported -> Limits] :
       LET bytes == [n \in Reported |-> IF outcome = "online" THEN counter[n] ELSE 0]
           readable == outcome = "online"
           sample == [n \in Reported |->
             IF baselines[n] = None THEN FirstSample(n, bytes[n], readable)
             ELSE NextSample(n, baselines[n], bytes[n], limit[n], readable)]
       IN  /\ \A n \in Reported : sample[n].cum <= MaxCum
           /\ updates' = [n \in Names |-> IF n \in Reported THEN sample[n] ELSE None]
           /\ ring' = [n \in Names |->
                IF n \in Reported THEN LatestTwo(Append(ring[n], sample[n])) ELSE ring[n]]
  /\ phase' = "saving"
  /\ UNCHANGED <<deviceVars, loaded, baselines, store, forgotten>>

\* The scrape raises, or the process is stopping: no port is updated.
PollNothing ==
  /\ phase = "polling"
  /\ "error" \in Outcomes
  /\ phase' = "saving"
  /\ UNCHANGED <<deviceVars, loaded, baselines, updates, ring, store, forgotten>>

Updated == {n \in Names : updates[n] # None}

\* The row of a port is found under its canonical name.
Row(k) ==
  IF \E n \in Updated : Canonical[n] = k
    THEN updates[CHOOSE n \in Updated : Canonical[n] = k]
    ELSE store[k]

\* save_counters is one transaction; the baselines follow if it succeeds.
SaveCounters ==
  /\ phase = "saving"
  /\ store' = [k \in Names |-> Row(k)]
  /\ baselines' = [n \in Names |-> IF n \in Updated THEN updates[n] ELSE baselines[n]]
  /\ updates' = NoTotals
  /\ phase' = "idle"
  /\ UNCHANGED <<deviceVars, loaded, ring, forgotten>>

\* Mutant: the baselines are updated before the save is attempted.
SaveFailsLate ==
  /\ phase = "saving"
  /\ baselines' = [n \in Names |-> IF n \in Updated THEN updates[n] ELSE baselines[n]]
  /\ updates' = NoTotals
  /\ phase' = "idle"
  /\ UNCHANGED <<deviceVars, loaded, ring, store, forgotten>>

SaveFails ==
  /\ phase = "saving"
  /\ updates' = NoTotals
  /\ phase' = "idle"
  /\ UNCHANGED <<deviceVars, loaded, baselines, ring, store, forgotten>>

-----------------------------------------------------------------------------
(* Beside the cycle.                                                        *)

\* Mutants: the reset does not wait for the cycle; it keeps the histories.
ResetUnlocked ==
  /\ ring' = [n \in Names |-> <<>>]
  /\ store' = NoTotals
  /\ baselines' = NoTotals
  /\ loaded' = TRUE
  /\ forgotten' = carried
  /\ UNCHANGED <<deviceVars, phase, updates>>

ResetKeepsRing ==
  /\ phase = "idle"
  /\ store' = NoTotals
  /\ baselines' = NoTotals
  /\ loaded' = TRUE
  /\ forgotten' = carried
  /\ UNCHANGED <<deviceVars, phase, updates, ring>>

\* POST /api/reset waits for the lock; the histories in memory are cleared
\* before the tables, and the baselines only if that succeeded.
Reset ==
  /\ phase = "idle"
  /\ ring' = [n \in Names |-> <<>>]
  /\ \/ /\ store' = NoTotals
        /\ baselines' = NoTotals
        /\ loaded' = TRUE
        /\ forgotten' = carried
     \/ UNCHANGED <<store, baselines, loaded, forgotten>>
  /\ UNCHANGED <<deviceVars, phase, updates>>

Restart ==
  /\ phase' = "idle"
  /\ loaded' = FALSE
  /\ baselines' = NoTotals
  /\ updates' = NoTotals
  /\ ring' = [n \in Names |-> <<>>]
  /\ UNCHANGED <<deviceVars, store, forgotten>>

Next ==
  \/ \E n \in Reported, b \in Bursts : Carry(n, b)
  \/ Reboot
  \/ StartPoll
  \/ PollDevice
  \/ PollNothing
  \/ SaveCounters
  \/ SaveFails
  \/ Reset
  \/ Restart

Spec == Init /\ [][Next]_vars

-----------------------------------------------------------------------------
(* Properties.                                                             *)

TypeOK ==
  /\ carried \in [Names -> Nat] /\ counter \in [Names -> Nat]
  /\ epoch \in Nat
  /\ phase \in {"idle", "polling", "saving"}
  /\ loaded \in BOOLEAN
  /\ baselines \in [Names -> Total \cup {None}]
  /\ updates \in [Names -> Total \cup {None}]
  /\ ring \in [Names -> Seq(Total)]
  /\ store \in [Names -> Total \cup {None}]
  /\ forgotten \in [Names -> Nat]

Stored(n) == store[Canonical[n]]

\* The baselines a running process works with are those it would find after a
\* restart, whatever failed in between.
MemoryMatchesStore ==
  loaded => \A n \in Reported : baselines[n] = Stored(n)

\* A stored total never exceeds what the port has carried, as long as the
\* device could be read and its boots could be told from wraps.
NothingInvented ==
  \A n \in Reported : Stored(n) # None /\ Stored(n).sound =>
    Stored(n).cum <= Stored(n).at - Stored(n).origin

\* A stored total is exactly what the port has carried since counting began,
\* over wraps, failed saves and restarts, as long as no poll interval exceeds
\* the limit or the range in which a wrap is recognised.
NothingLost ==
  \A n \in Reported : Stored(n) # None /\ Stored(n).exact =>
    Stored(n).cum = Stored(n).at - Stored(n).origin

\* The rate shown for a port is computed from two totals of the ring: it is
\* never negative and never more than what the port carried between them, and
\* exactly that if counting did not begin anew, although the sample of a cycle
\* that failed to save stays in the ring.
RateIsTraffic ==
  \A n \in Reported :
    Len(ring[n]) = 2 /\ ring[n][1].exact /\ ring[n][2].exact =>
      LET shown   == ring[n][2].cum - ring[n][1].cum
          between == ring[n][2].at - ring[n][1].at
      IN  /\ shown \in 0 .. between
          /\ ring[n][1].origin = ring[n][2].origin => shown = between

\* After a reset no total, stored or about to be stored, counts traffic from
\* before it.
ResetIsFinal ==
  \A n \in Reported :
    /\ Stored(n) # None => Stored(n).origin >= forgotten[n]
    /\ updates[n] # None => updates[n].origin >= forgotten[n]

\* A stored total does not fall, over restarts of the dashboard and of the
\* device ("persistent across server reboots", README.md:55).
TotalsPersist ==
  [][\A n \in Reported :
       Stored(n) # None /\ Stored(n)' # None => Stored(n)'.cum >= Stored(n).cum]_vars

\* README.md:55: boots of the device are compensated for "without corrupting
\* traffic metrics", so a total does not exceed the traffic.
TrafficNotInvented ==
  \A n \in Reported : Stored(n) # None =>
    Stored(n).cum <= Stored(n).at - Stored(n).origin
=============================================================================
