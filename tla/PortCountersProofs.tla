------------------------- MODULE PortCountersProofs -------------------------
(***************************************************************************)
(* The traffic totals of module PortCounters, for any ports, limits and     *)
(* amounts of traffic, any number of boots and any width of the counters.   *)
(***************************************************************************)
EXTENDS PortCounters, SequenceTheorems, TLAPS

-----------------------------------------------------------------------------
(* What calculate_counter_delta computes.                                  *)

LEMMA DeltaType ==
  ASSUME NEW cur \in Nat, NEW prev \in Nat, NEW limit \in Nat
  PROVE  Delta(cur, prev, limit) \in Nat
  BY CounterAssumption DEF Delta

\* A counter c that showed the given bytes when the port had carried t bytes
\* less than now: it has not wrapped, has wrapped once, or more often.
Linked(bytes, c, t) ==
  \/ c = bytes + t
  \/ c + Modulus = bytes + t
  \/ t >= Modulus /\ c + Modulus <= bytes + t

LEMMA LinkedCarry ==
  ASSUME NEW bytes \in Nat, NEW c \in Nat, NEW t \in Nat, NEW b \in 1 .. Modulus,
         bytes < Modulus, c < Modulus, Linked(bytes, c, t)
  PROVE  LET c2 == IF c + b < Modulus THEN c + b ELSE c + b - Modulus
         IN  /\ Linked(bytes, c2, t + b)
             /\ c2 \in Nat /\ c2 < Modulus
  BY CounterAssumption DEF Linked

\* While the device stays up the delta never exceeds the traffic.
LEMMA DeltaBounded ==
  ASSUME NEW cur \in Nat, NEW prev \in Nat, NEW limit \in Nat, NEW t \in Nat,
         prev < Modulus, Linked(prev, cur, t)
  PROVE  Delta(cur, prev, limit) <= t
  BY CounterAssumption DEF Delta, Linked

\* Nor after a boot, unless it is mistaken for a wrap.
LEMMA DeltaAfterBoot ==
  ASSUME NEW cur \in Nat, NEW prev \in Nat, NEW limit \in Nat, NEW t \in Nat,
         cur <= t, ~(cur < prev /\ Half < prev /\ prev <= Wrap)
  PROVE  Delta(cur, prev, limit) <= t
  BY CounterAssumption DEF Delta

\* A counter of 32 bits read often enough yields the traffic exactly.
LEMMA DeltaExact ==
  ASSUME NEW cur \in Nat, NEW prev \in Nat, NEW limit \in Nat, NEW t \in Nat,
         Modulus = Wrap, prev < Modulus, Linked(prev, cur, t),
         t <= limit, t < Wrap - Half
  PROVE  Delta(cur, prev, limit) = t
  BY CounterAssumption DEF Delta, Linked

-----------------------------------------------------------------------------
(* Type correctness.                                                       *)

LEMMA SampleType ==
  ASSUME TypeOK, NEW n \in Names, NEW bytes \in Nat, NEW limit \in Nat,
         NEW readable \in BOOLEAN
  PROVE  /\ FirstSample(n, bytes, readable) \in Total
         /\ baselines[n] # None =>
              NextSample(n, baselines[n], bytes, limit, readable) \in Total
  <1>1. carried[n] \in Nat /\ epoch \in Nat
    BY DEF TypeOK
  <1>2. FirstSample(n, bytes, readable) \in Total
    BY <1>1 DEF FirstSample, Total
  <1>3. ASSUME baselines[n] # None
        PROVE  NextSample(n, baselines[n], bytes, limit, readable) \in Total
    <2> DEFINE last == baselines[n]
               delta == Delta(bytes, last.bytes, limit)
    <2>1. last \in Total
      BY <1>3 DEF TypeOK
    <2>2. delta \in Nat
      BY <2>1, DeltaType DEF Total
    <2>3. /\ last.cum + delta \in Nat /\ last.origin \in Nat
          /\ last.sound \in BOOLEAN /\ last.exact \in BOOLEAN
      BY <2>1, <2>2 DEF Total
    <2>4. /\ (last.sound /\ readable /\ ~Mistaken(last, bytes)) \in BOOLEAN
          /\ (/\ last.exact /\ readable
              /\ last.epoch = epoch
              /\ carried[n] - last.at <= limit
              /\ carried[n] - last.at < Wrap - Half) \in BOOLEAN
      OBVIOUS
    <2> HIDE DEF delta, last
    <2>5. NextSample(n, last, bytes, limit, readable) \in Total
      BY <1>1, <2>2, <2>3, <2>4 DEF NextSample, Total, delta
    <2> QED BY <2>5 DEF last
  <1> QED BY <1>2, <1>3

\* What the worker of the device sees and makes of it.
PollOf(outcome, limit, bytes, sample) ==
  /\ outcome \in {"online", "zeros"}
  /\ limit \in [Reported -> Nat]
  /\ bytes = [n \in Reported |-> IF outcome = "online" THEN counter[n] ELSE 0]
  /\ sample = [n \in Reported |->
                 IF baselines[n] = None
                   THEN FirstSample(n, bytes[n], outcome = "online")
                   ELSE NextSample(n, baselines[n], bytes[n], limit[n],
                                   outcome = "online")]
  /\ updates' = [n \in Names |-> IF n \in Reported THEN sample[n] ELSE None]
  /\ ring' = [n \in Names |->
       IF n \in Reported THEN LatestTwo(Append(ring[n], sample[n])) ELSE ring[n]]

LEMMA PollWitness ==
  ASSUME PollDevice
  PROVE  \E outcome, limit, bytes, sample : PollOf(outcome, limit, bytes, sample)
  <1>1. PICK outcome \in Outcomes \ {"error"}, limit \in [Reported -> Limits] :
          LET bytes == [n \in Reported |-> IF outcome = "online" THEN counter[n] ELSE 0]
              readable == outcome = "online"
              sample == [n \in Reported |->
                IF baselines[n] = None THEN FirstSample(n, bytes[n], readable)
                ELSE NextSample(n, baselines[n], bytes[n], limit[n], readable)]
          IN  /\ updates' = [n \in Names |-> IF n \in Reported THEN sample[n] ELSE None]
              /\ ring' = [n \in Names |->
                   IF n \in Reported THEN LatestTwo(Append(ring[n], sample[n])) ELSE ring[n]]
    BY Zenon DEF PollDevice
  <1>2. outcome \in {"online", "zeros"} /\ limit \in [Reported -> Nat]
    BY <1>1, CounterAssumption
  <1> DEFINE bytes == [n \in Reported |-> IF outcome = "online" THEN counter[n] ELSE 0]
             sample == [n \in Reported |->
                IF baselines[n] = None
                  THEN FirstSample(n, bytes[n], outcome = "online")
                  ELSE NextSample(n, baselines[n], bytes[n], limit[n],
                                  outcome = "online")]
  <1>3. PollOf(outcome, limit, bytes, sample)
    BY <1>1, <1>2, Zenon DEF PollOf
  <1> QED BY <1>3

LEMMA PollTypes ==
  ASSUME TypeOK, NEW outcome, NEW limit, NEW bytes, NEW sample,
         PollOf(outcome, limit, bytes, sample)
  PROVE  sample \in [Reported -> Total] /\ bytes \in [Reported -> Nat]
  <1>1. bytes \in [Reported -> Nat]
    BY CounterAssumption DEF PollOf, TypeOK
  <1>2. ASSUME NEW n \in Reported PROVE sample[n] \in Total
    <2>1. n \in Names /\ bytes[n] \in Nat /\ limit[n] \in Nat
          /\ (outcome = "online") \in BOOLEAN
      BY <1>1, CounterAssumption DEF PollOf
    <2>2. /\ FirstSample(n, bytes[n], outcome = "online") \in Total
          /\ baselines[n] # None =>
               NextSample(n, baselines[n], bytes[n], limit[n], outcome = "online")
                 \in Total
      BY <2>1, SampleType
    <2>3. sample[n] = IF baselines[n] = None
                        THEN FirstSample(n, bytes[n], outcome = "online")
                        ELSE NextSample(n, baselines[n], bytes[n], limit[n],
                                        outcome = "online")
      BY Zenon DEF PollOf
    <2> QED BY <2>2, <2>3
  <1>3. sample = [n \in Reported |-> sample[n]]
    BY Zenon DEF PollOf
  <1> QED BY <1>1, <1>2, <1>3

LEMMA LatestTwoType ==
  ASSUME NEW S, NEW s \in Seq(S), NEW e \in S
  PROVE  LatestTwo(Append(s, e)) \in Seq(S)
  <1> DEFINE t == Append(s, e)
  <1>1. t \in Seq(S) /\ Len(t) \in Nat
    OBVIOUS
  <1> HIDE DEF t
  <1>2. Len(t) > 2 => Tail(t) \in Seq(S)
    <2>1. Len(t) > 2 => t # <<>>
      BY <1>1
    <2> QED BY <1>1, <2>1, HeadTailProperties
  <1>3. LatestTwo(t) \in Seq(S)
    BY <1>1, <1>2 DEF LatestTwo
  <1> QED BY <1>3 DEF t

LEMMA NoTotalsType == NoTotals \in [Names -> Total \cup {None}]
  BY DEF NoTotals

LEMMA EmptyRingType == [n \in Names |-> <<>>] \in [Names -> Seq(Total)]
  <1>1. <<>> \in Seq(Total)
    BY EmptySeq
  <1> QED BY <1>1, Zenon

LEMMA TypeInit == Init => TypeOK
  <1> SUFFICES ASSUME Init PROVE TypeOK
    OBVIOUS
  <1>1. ring \in [Names -> Seq(Total)]
    BY EmptyRingType, Zenon DEF Init
  <1> QED BY <1>1, NoTotalsType DEF Init, TypeOK

LEMMA TypeStep == TypeOK /\ [Next]_vars => TypeOK'
  <1> SUFFICES ASSUME TypeOK, [Next]_vars PROVE TypeOK'
    OBVIOUS
  <1>1. CASE \E n \in Reported, b \in Bursts : Carry(n, b)
    <2>1. PICK n \in Reported, b \in Bursts : Carry(n, b)
      BY <1>1
    <2>2. n \in Names /\ b \in Nat /\ Modulus \in Nat
      BY CounterAssumption
    <2>3. /\ carried' \in [Names -> Nat]
          /\ counter' \in [Names -> Nat]
      BY <2>1, <2>2 DEF Carry, TypeOK
    <2> QED BY <2>1, <2>3 DEF Carry, TypeOK
  <1>2. CASE Reboot
    BY <1>2 DEF Reboot, TypeOK
  <1>3. CASE StartPoll
    BY <1>3 DEF StartPoll, TypeOK, deviceVars
  <1>4. CASE PollDevice
    <2>1. PICK outcome, limit, bytes, sample : PollOf(outcome, limit, bytes, sample)
      BY <1>4, PollWitness
    <2>2. sample \in [Reported -> Total]
      BY <2>1, PollTypes
    <2>3. updates' \in [Names -> Total \cup {None}]
      <3>1. updates' = [n \in Names |-> IF n \in Reported THEN sample[n] ELSE None]
        BY <2>1, Zenon DEF PollOf
      <3> QED BY <2>2, <3>1
    <2>4. ring' \in [Names -> Seq(Total)]
      <3>1. ring' = [n \in Names |->
              IF n \in Reported THEN LatestTwo(Append(ring[n], sample[n])) ELSE ring[n]]
        BY <2>1, Zenon DEF PollOf
      <3>2. ASSUME NEW n \in Names
            PROVE  (IF n \in Reported THEN LatestTwo(Append(ring[n], sample[n]))
                                      ELSE ring[n]) \in Seq(Total)
        <4>1. ring[n] \in Seq(Total)
          BY DEF TypeOK
        <4>2. n \in Reported => sample[n] \in Total
          BY <2>2
        <4> QED BY <4>1, <4>2, LatestTwoType
      <3> QED BY <3>1, <3>2
    <2> QED BY <1>4, <2>3, <2>4 DEF PollDevice, TypeOK, deviceVars
  <1>5. CASE PollNothing
    BY <1>5 DEF PollNothing, TypeOK, deviceVars
  <1>6. CASE SaveCounters
    <2>1. \A k \in Names : Row(k) \in Total \cup {None}
      BY DEF Row, Updated, TypeOK
    <2>2. store' \in [Names -> Total \cup {None}]
      BY <1>6, <2>1 DEF SaveCounters
    <2>3. baselines' \in [Names -> Total \cup {None}]
      BY <1>6 DEF SaveCounters, TypeOK
    <2> QED BY <1>6, <2>2, <2>3, NoTotalsType DEF SaveCounters, TypeOK, deviceVars
  <1>7. CASE SaveFails
    BY <1>7, NoTotalsType DEF SaveFails, TypeOK, deviceVars
  <1>8. CASE Reset
    <2>1. ring' \in [Names -> Seq(Total)]
      BY <1>8, EmptyRingType, Zenon DEF Reset
    <2> QED BY <1>8, <2>1, NoTotalsType DEF Reset, TypeOK, deviceVars
  <1>9. CASE Restart
    <2>1. ring' \in [Names -> Seq(Total)]
      BY <1>9, EmptyRingType, Zenon DEF Restart
    <2> QED BY <1>9, <2>1, NoTotalsType DEF Restart, TypeOK, deviceVars
  <1>10. CASE UNCHANGED vars
    BY <1>10 DEF vars, TypeOK, deviceVars
  <1> QED BY <1>1, <1>2, <1>3, <1>4, <1>5, <1>6, <1>7, <1>8, <1>9, <1>10 DEF Next

\* Every variable has its type: above all no counter, delta or total is ever
\* negative, whatever the device answers.
THEOREM CountersTypeCorrect == Spec => []TypeOK
  BY TypeInit, TypeStep, PTL DEF Spec

-----------------------------------------------------------------------------
(* The inductive invariant.  It speaks of ports whose names are the keys of *)
(* the tables; for other names the totals do not survive a restart.         *)

CanonicalNames == \A n \in Reported : Canonical[n] = n

DeviceBounds ==
  \A n \in Names : counter[n] < Modulus /\ forgotten[n] <= carried[n]

\* How a total r relates to what the port has done since: it has carried now,
\* its counter shows c, after the given boots; traffic up to gone is forgotten.
Describes(r, now, c, boots, gone) ==
  /\ r.bytes < Modulus
  /\ gone <= r.origin /\ r.origin <= r.at /\ r.at <= now
  /\ r.epoch <= boots
  /\ r.exact => r.sound
  /\ r.sound => r.cum <= r.at - r.origin
  /\ r.sound /\ r.epoch = boots => Linked(r.bytes, c, now - r.at)
  /\ r.sound /\ r.epoch # boots => c <= now - r.at
  /\ r.exact /\ Modulus = Wrap => r.cum = r.at - r.origin

Fits(r, n) == Describes(r, carried[n], counter[n], epoch, forgotten[n])

AllFit(table) ==
  \A n \in Reported : table[n] # None => Fits(table[n], n)

\* The baselines in memory are those of the database.
Mirrored == loaded => \A n \in Reported : baselines[n] = store[n]

\* Totals are about to be stored only at the end of a cycle, for ports of the
\* device, and they do not fall below the stored ones.
Pending ==
  /\ phase # "idle" => loaded
  /\ phase # "saving" => updates = NoTotals
  /\ \A n \in Names : updates[n] # None => n \in Reported
  /\ \A n \in Reported :
       updates[n] # None /\ store[n] # None => updates[n].cum >= store[n].cum

TotalsInv ==
  /\ TypeOK /\ DeviceBounds /\ Mirrored /\ Pending
  /\ AllFit(store) /\ AllFit(baselines) /\ AllFit(updates)

LEMMA TotalsInit == Init => TotalsInv
  <1> SUFFICES ASSUME Init PROVE TotalsInv
    OBVIOUS
  <1>1. TypeOK
    BY TypeInit
  <1>2. \A n \in Names : store[n] = None /\ baselines[n] = None /\ updates[n] = None
    BY DEF Init, NoTotals
  <1>3. Reported \subseteq Names
    BY CounterAssumption
  <1>4. AllFit(store) /\ AllFit(baselines) /\ AllFit(updates)
    BY <1>2, <1>3 DEF AllFit
  <1>5. DeviceBounds
    BY CounterAssumption DEF Init, DeviceBounds
  <1>6. Mirrored /\ Pending
    BY <1>2, <1>3 DEF Init, Mirrored, Pending
  <1> QED BY <1>1, <1>4, <1>5, <1>6 DEF TotalsInv

-----------------------------------------------------------------------------
(* Totals and the device.                                                  *)

LEMMA FitsCarry ==
  ASSUME TypeOK, TypeOK', DeviceBounds, NEW m \in Names, NEW b \in 1 .. Modulus,
         Carry(m, b), NEW n \in Names, NEW r \in Total, Fits(r, n)
  PROVE  Fits(r, n)'
  <1>1. /\ carried[n] \in Nat /\ counter[n] \in Nat /\ epoch \in Nat
        /\ Modulus \in Nat /\ b \in Nat /\ counter[n] < Modulus
    BY CounterAssumption DEF TypeOK, DeviceBounds
  <1>2. /\ r.bytes \in Nat /\ r.cum \in Nat /\ r.origin \in Nat /\ r.at \in Nat
        /\ r.epoch \in Nat
    BY DEF Total
  <1>3. epoch' = epoch /\ forgotten' = forgotten
    BY DEF Carry
  <1>4. CASE n # m
    <2>1. carried'[n] = carried[n] /\ counter'[n] = counter[n]
      BY <1>4 DEF Carry, TypeOK
    <2> QED BY <1>3, <2>1 DEF Fits, Describes
  <1>5. CASE n = m
    <2>1. /\ carried'[n] = carried[n] + b
          /\ counter'[n] = IF counter[n] + b < Modulus THEN counter[n] + b
                                                      ELSE counter[n] + b - Modulus
      BY <1>5 DEF Carry, TypeOK
    <2>2. carried[n] - r.at \in Nat
      BY <1>1, <1>2 DEF Fits, Describes
    <2>3. r.sound /\ r.epoch = epoch =>
            Linked(r.bytes, counter'[n], (carried[n] - r.at) + b)
      BY <1>1, <1>2, <2>1, <2>2, LinkedCarry DEF Fits, Describes
    <2>4. (carried[n] - r.at) + b = carried'[n] - r.at
      BY <1>1, <1>2, <2>1
    <2>5. r.sound /\ r.epoch # epoch => counter'[n] <= carried'[n] - r.at
      BY <1>1, <1>2, <2>1 DEF Fits, Describes
    <2>6. r.at <= carried'[n]
      BY <1>1, <1>2, <2>1 DEF Fits, Describes
    <2> QED BY <1>3, <2>3, <2>4, <2>5, <2>6 DEF Fits, Describes
  <1> QED BY <1>4, <1>5

LEMMA FitsReboot ==
  ASSUME TypeOK, Reboot, NEW n \in Names, NEW r \in Total, Fits(r, n)
  PROVE  Fits(r, n)'
  <1>1. /\ carried[n] \in Nat /\ epoch \in Nat
        /\ r.epoch \in Nat /\ r.at \in Nat /\ r.origin \in Nat
    BY DEF TypeOK, Total
  <1>2. /\ epoch' = epoch + 1 /\ counter'[n] = 0
        /\ carried' = carried /\ forgotten' = forgotten
    BY DEF Reboot
  <1>3. r.epoch <= epoch' /\ r.epoch # epoch'
    BY <1>1, <1>2 DEF Fits, Describes
  <1>4. counter'[n] <= carried'[n] - r.at
    BY <1>1, <1>2 DEF Fits, Describes
  <1> QED BY <1>2, <1>3, <1>4 DEF Fits, Describes

\* A new total fits: it shows the counter of this moment.
LEMMA FitsFirst ==
  ASSUME TypeOK, DeviceBounds, NEW n \in Names, NEW readable \in BOOLEAN,
         NEW bytes \in Nat, bytes = IF readable THEN counter[n] ELSE 0
  PROVE  Fits(FirstSample(n, bytes, readable), n)
  <1>1. /\ carried[n] \in Nat /\ counter[n] \in Nat /\ epoch \in Nat
        /\ forgotten[n] \in Nat /\ forgotten[n] <= carried[n]
        /\ counter[n] < Modulus /\ 0 < Modulus /\ Modulus \in Nat
    BY CounterAssumption DEF TypeOK, DeviceBounds
  <1> QED BY <1>1 DEF Fits, Describes, FirstSample, Linked

LEMMA FitsNext ==
  ASSUME TypeOK, DeviceBounds, NEW n \in Names, NEW readable \in BOOLEAN,
         NEW bytes \in Nat, bytes = IF readable THEN counter[n] ELSE 0,
         NEW last \in Total, Fits(last, n), NEW limit \in Nat
  PROVE  /\ Fits(NextSample(n, last, bytes, limit, readable), n)
         /\ NextSample(n, last, bytes, limit, readable).cum >= last.cum
  <1> DEFINE next  == NextSample(n, last, bytes, limit, readable)
             delta == Delta(bytes, last.bytes, limit)
             t     == carried[n] - last.at
  <1>1. /\ carried[n] \in Nat /\ counter[n] \in Nat /\ epoch \in Nat
        /\ forgotten[n] \in Nat /\ forgotten[n] <= carried[n]
        /\ counter[n] < Modulus /\ 0 < Modulus /\ Modulus \in Nat
    BY CounterAssumption DEF TypeOK, DeviceBounds
  <1>2. /\ last.bytes \in Nat /\ last.cum \in Nat /\ last.origin \in Nat
        /\ last.at \in Nat /\ last.epoch \in Nat
    BY DEF Total
  <1>3. delta \in Nat /\ t \in Nat
    <2>1. delta \in Nat
      BY <1>2, DeltaType
    <2>2. last.at <= carried[n]
      BY DEF Fits, Describes
    <2> QED BY <1>1, <1>2, <2>1, <2>2
  <1>4. /\ next.bytes = bytes /\ next.cum = last.cum + delta
        /\ next.origin = last.origin /\ next.at = carried[n] /\ next.epoch = epoch
        /\ next.sound <=> last.sound /\ readable /\ ~Mistaken(last, bytes)
        /\ next.exact <=> /\ last.exact /\ readable /\ last.epoch = epoch
                         /\ t <= limit /\ t < Wrap - Half
    BY DEF NextSample
  <1>5. next.sound => delta <= t
    <2> SUFFICES ASSUME next.sound PROVE delta <= t
      OBVIOUS
    <2>1. last.sound /\ bytes = counter[n] /\ ~Mistaken(last, bytes)
      BY <1>4
    <2>2. CASE last.epoch = epoch
      <3>1. Linked(last.bytes, bytes, t) /\ last.bytes < Modulus
        BY <2>1, <2>2 DEF Fits, Describes
      <3> QED BY <1>2, <1>3, <3>1, DeltaBounded
    <2>3. CASE last.epoch # epoch
      <3>1. bytes <= t
        BY <2>1, <2>3 DEF Fits, Describes
      <3>2. ~(bytes < last.bytes /\ Half < last.bytes /\ last.bytes <= Wrap)
        BY <2>1, <2>3 DEF Mistaken
      <3> QED BY <1>2, <1>3, <3>1, <3>2, DeltaAfterBoot
    <2> QED BY <2>2, <2>3
  <1>6. next.exact => next.sound
    BY <1>4 DEF Fits, Describes, Mistaken
  <1>7. next.exact /\ Modulus = Wrap => delta = t
    <2> SUFFICES ASSUME next.exact, Modulus = Wrap PROVE delta = t
      OBVIOUS
    <2>1. /\ last.sound /\ bytes = counter[n] /\ last.epoch = epoch
          /\ t <= limit /\ t < Wrap - Half
      BY <1>4 DEF Fits, Describes
    <2>2. Linked(last.bytes, bytes, t) /\ last.bytes < Modulus
      BY <2>1 DEF Fits, Describes
    <2> QED BY <1>2, <1>3, <2>1, <2>2, DeltaExact
  <1> HIDE DEF next, delta
  <1>8. bytes < Modulus
    BY <1>1
  <1>9. forgotten[n] <= last.origin /\ last.origin <= last.at /\ last.at <= carried[n]
    BY DEF Fits, Describes
  <1>10. next.sound => next.cum <= next.at - next.origin
    <2>1. next.sound => last.cum <= last.at - last.origin
      BY <1>4 DEF Fits, Describes
    <2> QED BY <1>1, <1>2, <1>3, <1>4, <1>5, <2>1
  <1>11. next.exact /\ Modulus = Wrap => next.cum = next.at - next.origin
    <2>1. next.exact /\ Modulus = Wrap => last.cum = last.at - last.origin
      BY <1>4 DEF Fits, Describes
    <2> QED BY <1>1, <1>2, <1>3, <1>4, <1>7, <2>1
  <1>12. next.sound => Linked(next.bytes, counter[n], carried[n] - next.at)
    BY <1>1, <1>4 DEF Linked
  <1>13. Fits(next, n)
    <2>1. next.bytes < Modulus /\ next.epoch <= epoch /\ next.at <= carried[n]
      BY <1>1, <1>4, <1>8
    <2>2. forgotten[n] <= next.origin /\ next.origin <= next.at
      BY <1>1, <1>2, <1>4, <1>9
    <2> QED BY <1>4, <1>6, <1>10, <1>11, <1>12, <2>1, <2>2 DEF Fits, Describes
  <1>14. next.cum >= last.cum
    BY <1>2, <1>3, <1>4
  <1> QED BY <1>13, <1>14 DEF next

-----------------------------------------------------------------------------
(* The steps.                                                              *)

\* While the device does nothing and no reset is done, totals go on fitting.
LEMMA FitsFrame ==
  ASSUME UNCHANGED <<deviceVars, forgotten>>, NEW n, NEW r
  PROVE  Fits(r, n)' <=> Fits(r, n)
  BY DEF Fits, Describes, deviceVars

LEMMA CarryInv ==
  ASSUME TotalsInv, TypeOK', NEW m \in Reported, NEW b \in Bursts, Carry(m, b)
  PROVE  TotalsInv'
  <1>1. m \in Names /\ b \in 1 .. Modulus /\ Reported \subseteq Names
    BY CounterAssumption
  <1>2. UNCHANGED <<epoch, phase, loaded, baselines, updates, ring, store, forgotten>>
    BY DEF Carry
  <1>3. Mirrored' /\ Pending'
    BY <1>2 DEF TotalsInv, Mirrored, Pending
  <1>4. ASSUME NEW n \in Names
        PROVE  counter'[n] < Modulus /\ forgotten'[n] <= carried'[n]
    <2>1. /\ carried[n] \in Nat /\ counter[n] \in Nat /\ forgotten[n] \in Nat
          /\ counter[n] < Modulus /\ forgotten[n] <= carried[n]
          /\ Modulus \in Nat /\ b \in Nat /\ b <= Modulus
      BY <1>1, CounterAssumption DEF TotalsInv, TypeOK, DeviceBounds
    <2>2. CASE n # m
      BY <1>2, <2>1, <2>2 DEF Carry, TotalsInv, TypeOK
    <2>3. CASE n = m
      <3>1. /\ carried'[n] = carried[n] + b
            /\ counter'[n] = IF counter[n] + b < Modulus THEN counter[n] + b
                                                        ELSE counter[n] + b - Modulus
        BY <2>3 DEF Carry, TotalsInv, TypeOK
      <3> QED BY <1>2, <2>1, <3>1
    <2> QED BY <2>2, <2>3
  <1>5. ASSUME NEW n \in Reported, NEW r \in Total, Fits(r, n)
        PROVE  Fits(r, n)'
    BY <1>1, <1>5, FitsCarry DEF TotalsInv
  <1>6. \A n \in Reported :
          /\ store[n] # None => store[n] \in Total
          /\ baselines[n] # None => baselines[n] \in Total
          /\ updates[n] # None => updates[n] \in Total
    BY <1>1 DEF TotalsInv, TypeOK
  <1>7. AllFit(store)' /\ AllFit(baselines)' /\ AllFit(updates)'
    BY <1>2, <1>5, <1>6 DEF TotalsInv, AllFit
  <1> QED BY <1>3, <1>4, <1>7 DEF TotalsInv, DeviceBounds

LEMMA RebootInv ==
  ASSUME TotalsInv, TypeOK', Reboot
  PROVE  TotalsInv'
  <1>1. Reported \subseteq Names
    BY CounterAssumption
  <1>2. UNCHANGED <<carried, phase, loaded, baselines, updates, ring, store, forgotten>>
    BY DEF Reboot
  <1>3. Mirrored' /\ Pending'
    BY <1>2 DEF TotalsInv, Mirrored, Pending
  <1>4. DeviceBounds'
    BY <1>2, CounterAssumption DEF Reboot, TotalsInv, DeviceBounds
  <1>5. ASSUME NEW n \in Reported, NEW r \in Total, Fits(r, n)
        PROVE  Fits(r, n)'
    BY <1>1, <1>5, FitsReboot DEF TotalsInv
  <1>6. \A n \in Reported :
          /\ store[n] # None => store[n] \in Total
          /\ baselines[n] # None => baselines[n] \in Total
          /\ updates[n] # None => updates[n] \in Total
    BY <1>1 DEF TotalsInv, TypeOK
  <1>7. AllFit(store)' /\ AllFit(baselines)' /\ AllFit(updates)'
    BY <1>2, <1>5, <1>6 DEF TotalsInv, AllFit
  <1> QED BY <1>3, <1>4, <1>7 DEF TotalsInv

LEMMA StartInv ==
  ASSUME TotalsInv, TypeOK', StartPoll
  PROVE  TotalsInv'
  <1>1. /\ UNCHANGED <<deviceVars, updates, ring, store, forgotten>>
        /\ phase = "idle" /\ phase' = "polling" /\ loaded' = TRUE
        /\ baselines' = IF loaded THEN baselines ELSE store
    BY DEF StartPoll
  <1>2. AllFit(store)' /\ AllFit(baselines)' /\ AllFit(updates)'
    BY <1>1, FitsFrame DEF TotalsInv, AllFit
  <1>3. Mirrored' /\ Pending'
    BY <1>1 DEF TotalsInv, Mirrored, Pending
  <1>4. DeviceBounds'
    BY <1>1 DEF TotalsInv, DeviceBounds, deviceVars
  <1> QED BY <1>2, <1>3, <1>4 DEF TotalsInv

LEMMA PollInv ==
  ASSUME TotalsInv, TypeOK', PollDevice
  PROVE  TotalsInv'
  <1>1. PICK outcome, limit, bytes, sample : PollOf(outcome, limit, bytes, sample)
    BY PollWitness
  <1>2. /\ phase = "polling" /\ phase' = "saving"
        /\ UNCHANGED <<deviceVars, loaded, baselines, store, forgotten>>
    BY DEF PollDevice
  <1>3. updates' = [n \in Names |-> IF n \in Reported THEN sample[n] ELSE None]
    BY <1>1, Zenon DEF PollOf
  <1>4. Reported \subseteq Names
    BY CounterAssumption
  <1>5. sample \in [Reported -> Total] /\ bytes \in [Reported -> Nat]
    BY <1>1, PollTypes DEF TotalsInv
  <1>6. ASSUME NEW n \in Reported
        PROVE  /\ Fits(sample[n], n)
               /\ store[n] # None => sample[n].cum >= store[n].cum
    <2>1. /\ bytes[n] = IF outcome = "online" THEN counter[n] ELSE 0
          /\ limit[n] \in Nat /\ bytes[n] \in Nat /\ n \in Names
          /\ (outcome = "online") \in BOOLEAN
      BY <1>1, <1>4, <1>5 DEF PollOf
    <2>2. sample[n] = IF baselines[n] = None
                        THEN FirstSample(n, bytes[n], outcome = "online")
                        ELSE NextSample(n, baselines[n], bytes[n], limit[n],
                                        outcome = "online")
      BY <1>1, Zenon DEF PollOf
    <2>3. baselines[n] = store[n]
      BY <1>2 DEF TotalsInv, Pending, Mirrored
    <2>4. CASE baselines[n] = None
      BY <2>1, <2>2, <2>3, <2>4, FitsFirst DEF TotalsInv
    <2>5. CASE baselines[n] # None
      <3>1. baselines[n] \in Total /\ Fits(baselines[n], n)
        BY <2>1, <2>5 DEF TotalsInv, TypeOK, AllFit
      <3> QED BY <2>1, <2>2, <2>3, <2>5, <3>1, FitsNext DEF TotalsInv
    <2> QED BY <2>4, <2>5
  <1>7. AllFit(updates)'
    BY <1>2, <1>3, <1>4, <1>6, FitsFrame DEF AllFit
  <1>8. AllFit(store)' /\ AllFit(baselines)'
    BY <1>2, FitsFrame DEF TotalsInv, AllFit
  <1>9. Pending'
    BY <1>2, <1>3, <1>4, <1>6 DEF TotalsInv, Pending
  <1>10. Mirrored' /\ DeviceBounds'
    BY <1>2 DEF TotalsInv, Mirrored, DeviceBounds, deviceVars
  <1> QED BY <1>7, <1>8, <1>9, <1>10 DEF TotalsInv

LEMMA SaveInv ==
  ASSUME CanonicalNames, TotalsInv, TypeOK', SaveCounters
  PROVE  TotalsInv'
  <1>1. /\ phase = "saving" /\ phase' = "idle" /\ updates' = NoTotals
        /\ store' = [k \in Names |-> Row(k)]
        /\ baselines' = [n \in Names |-> IF n \in Updated THEN updates[n] ELSE baselines[n]]
        /\ UNCHANGED <<deviceVars, loaded, ring, forgotten>>
    BY DEF SaveCounters
  <1>2. Reported \subseteq Names /\ Updated \subseteq Reported
    BY CounterAssumption DEF Updated, TotalsInv, Pending
  <1>3. ASSUME NEW n \in Reported
        PROVE  Row(n) = IF n \in Updated THEN updates[n] ELSE store[n]
    <2>1. \A k \in Updated : Canonical[k] = n <=> k = n
      BY <1>2 DEF CanonicalNames
    <2> QED BY <2>1 DEF Row
  <1>4. ASSUME NEW n \in Reported
        PROVE  /\ store'[n] = IF n \in Updated THEN updates[n] ELSE store[n]
               /\ baselines'[n] = IF n \in Updated THEN updates[n] ELSE baselines[n]
               /\ updates'[n] = None
    BY <1>1, <1>2, <1>3 DEF NoTotals
  <1>5. AllFit(store)' /\ AllFit(baselines)' /\ AllFit(updates)'
    BY <1>1, <1>4, FitsFrame DEF TotalsInv, AllFit, Updated
  <1>6. Mirrored'
    BY <1>1, <1>4 DEF TotalsInv, Mirrored
  <1>7. Pending'
    BY <1>1, <1>4 DEF Pending, NoTotals
  <1>8. DeviceBounds'
    BY <1>1 DEF TotalsInv, DeviceBounds, deviceVars
  <1> QED BY <1>5, <1>6, <1>7, <1>8 DEF TotalsInv

\* Where totals are only dropped.
LEMMA DropInv ==
  ASSUME TotalsInv, TypeOK', PollNothing \/ SaveFails \/ Restart \/ UNCHANGED vars
  PROVE  TotalsInv'
  <1>1. UNCHANGED <<deviceVars, store, forgotten>>
    BY DEF PollNothing, SaveFails, Restart, vars
  <1>2. /\ baselines' = baselines \/ (baselines' = NoTotals /\ ~loaded')
        /\ updates' = updates \/ updates' = NoTotals
        /\ loaded' => loaded /\ baselines' = baselines
    BY DEF PollNothing, SaveFails, Restart, vars
  <1>3. Reported \subseteq Names
    BY CounterAssumption
  <1>4. AllFit(store)' /\ AllFit(baselines)' /\ AllFit(updates)'
    BY <1>1, <1>2, <1>3, FitsFrame DEF TotalsInv, AllFit, NoTotals
  <1>5. Mirrored'
    BY <1>1, <1>2 DEF TotalsInv, Mirrored
  <1>6. Pending'
    BY <1>3 DEF TotalsInv, Pending, NoTotals, PollNothing, SaveFails, Restart, vars
  <1>7. DeviceBounds'
    BY <1>1 DEF TotalsInv, DeviceBounds, deviceVars
  <1> QED BY <1>4, <1>5, <1>6, <1>7 DEF TotalsInv

LEMMA ResetInv ==
  ASSUME TotalsInv, TypeOK', Reset
  PROVE  TotalsInv'
  <1>1. phase = "idle" /\ UNCHANGED <<deviceVars, phase, updates>>
    BY DEF Reset
  <1>2. Reported \subseteq Names /\ \A n \in Reported : updates[n] = None
    BY <1>1, CounterAssumption DEF TotalsInv, Pending, NoTotals
  <1>3. CASE UNCHANGED <<store, baselines, loaded, forgotten>>
    <2>1. AllFit(store)' /\ AllFit(baselines)' /\ AllFit(updates)'
      BY <1>1, <1>3, FitsFrame DEF TotalsInv, AllFit
    <2>2. Mirrored' /\ Pending' /\ DeviceBounds'
      BY <1>1, <1>3 DEF TotalsInv, Mirrored, Pending, DeviceBounds, deviceVars
    <2> QED BY <2>1, <2>2 DEF TotalsInv
  <1>4. CASE store' = NoTotals /\ baselines' = NoTotals /\ loaded' = TRUE
             /\ forgotten' = carried
    <2>1. AllFit(store)' /\ AllFit(baselines)' /\ AllFit(updates)'
      BY <1>1, <1>2, <1>4 DEF AllFit, NoTotals
    <2>2. Mirrored' /\ Pending'
      BY <1>1, <1>2, <1>4 DEF TotalsInv, Mirrored, Pending, NoTotals
    <2>3. DeviceBounds'
      BY <1>1, <1>4 DEF TotalsInv, TypeOK, DeviceBounds, deviceVars
    <2> QED BY <2>1, <2>2, <2>3 DEF TotalsInv
  <1> QED BY <1>3, <1>4 DEF Reset

LEMMA TotalsStep ==
  ASSUME CanonicalNames, TotalsInv, [Next]_vars
  PROVE  TotalsInv'
  <1>1. TypeOK'
    BY TypeStep DEF TotalsInv
  <1> QED BY <1>1, CarryInv, RebootInv, StartInv, PollInv, SaveInv, DropInv,
             ResetInv DEF Next

LEMMA TotalsInvariance ==
  ASSUME CanonicalNames
  PROVE  Spec => []TotalsInv
  BY TotalsInit, TotalsStep, PTL DEF Spec

-----------------------------------------------------------------------------
(* The theorems.                                                           *)

\* What a process holds in memory is what it would find after a restart.
THEOREM MemoryIsStored ==
  ASSUME CanonicalNames
  PROVE  Spec => []MemoryMatchesStore
  <1>1. TotalsInv => MemoryMatchesStore
    BY DEF TotalsInv, Mirrored, MemoryMatchesStore, Stored, CanonicalNames
  <1> QED BY <1>1, TotalsInvariance, PTL

\* No total exceeds the traffic, for counters of any width: wraps that are not
\* recognised lose traffic but never invent any.
THEOREM TrafficBoundsTotals ==
  ASSUME CanonicalNames
  PROVE  Spec => []NothingInvented
  <1>1. TotalsInv => NothingInvented
    BY DEF TotalsInv, AllFit, Fits, Describes, NothingInvented, Stored, CanonicalNames
  <1> QED BY <1>1, TotalsInvariance, PTL

\* Totals of counters of 32 bits are the traffic, exactly.
THEOREM TotalsAreExact ==
  ASSUME CanonicalNames, Modulus = Wrap
  PROVE  Spec => []NothingLost
  <1>1. TotalsInv => NothingLost
    BY DEF TotalsInv, AllFit, Fits, Describes, NothingLost, Stored, CanonicalNames
  <1> QED BY <1>1, TotalsInvariance, PTL

\* Traffic from before a reset is never counted after it.
THEOREM ResetForgets ==
  ASSUME CanonicalNames
  PROVE  Spec => []ResetIsFinal
  <1>1. TotalsInv => ResetIsFinal
    <2> SUFFICES ASSUME TotalsInv, NEW n \in Reported
                 PROVE  /\ Stored(n) # None => Stored(n).origin >= forgotten[n]
                        /\ updates[n] # None => updates[n].origin >= forgotten[n]
      BY DEF ResetIsFinal
    <2>1. n \in Names /\ Stored(n) = store[n] /\ forgotten[n] \in Nat
      BY CounterAssumption DEF Stored, CanonicalNames, TotalsInv, TypeOK
    <2>2. /\ store[n] # None => store[n].origin \in Nat
          /\ updates[n] # None => updates[n].origin \in Nat
      BY <2>1 DEF TotalsInv, TypeOK, Total
    <2> QED BY <2>1, <2>2 DEF TotalsInv, AllFit, Fits, Describes
  <1> QED BY <1>1, TotalsInvariance, PTL

\* A stored total never falls, whatever the device and the process do.
THEOREM StoredTotalsGrow ==
  ASSUME CanonicalNames
  PROVE  Spec => TotalsPersist
  <1>1. TotalsInv /\ [Next]_vars =>
          [\A n \in Reported :
             Stored(n) # None /\ Stored(n)' # None => Stored(n)'.cum >= Stored(n).cum]_vars
    <2> SUFFICES ASSUME TotalsInv, [Next]_vars, NEW n \in Reported,
                        store[n] # None, store'[n] # None
                 PROVE  store'[n].cum >= store[n].cum
      BY DEF Stored, CanonicalNames
    <2>1. n \in Names /\ store[n].cum \in Nat
      BY CounterAssumption DEF TotalsInv, TypeOK, Total
    <2>2. CASE SaveCounters
      <3>1. \A k \in Updated : Canonical[k] = n <=> k = n
        BY DEF Updated, TotalsInv, Pending, CanonicalNames
      <3>2. store'[n] = IF n \in Updated THEN updates[n] ELSE store[n]
        BY <2>1, <2>2, <3>1 DEF SaveCounters, Row
      <3> QED BY <2>1, <3>2 DEF TotalsInv, Pending, Updated
    <2>3. CASE Reset
      BY <2>1, <2>3 DEF Reset, NoTotals
    <2>4. CASE ~SaveCounters /\ ~Reset
      <3>1. store' = store
        BY <2>4 DEF Next, Carry, Reboot, StartPoll, PollDevice, PollNothing,
                    SaveFails, Restart, vars
      <3> QED BY <2>1, <3>1
    <2> QED BY <2>2, <2>3, <2>4
  <1> QED BY <1>1, TotalsInvariance, PTL DEF Spec, TotalsPersist

-----------------------------------------------------------------------------
(* The live rates.  Two samples of the ring may stem from cycles of which   *)
(* the first failed to save, so that both were counted from one baseline,   *)
(* or both began to count anew; the invariant says how they are related.    *)

\* Counting began with this sample.
Fresh(r) == r.cum = 0 /\ r.origin = r.at

Chained(q, r) == q.at <= r.at /\ (q.origin = r.origin \/ (Fresh(q) /\ Fresh(r)))

\* The latest sample of a port is the pending total, if there is one, and began
\* to count where the baseline did, or at itself if there is none.
LatestFits(l, pending, baseline) ==
  /\ pending # None => pending = l
  /\ baseline = None => Fresh(l)
  /\ baseline # None => l.origin = baseline.origin

RingFits(n) ==
  /\ Len(ring[n]) <= 2
  /\ \A i \in DOMAIN ring[n] : Fits(ring[n][i], n)
  /\ Len(ring[n]) = 2 => Chained(ring[n][1], ring[n][2])
  /\ ring[n] # <<>> =>
       loaded /\ LatestFits(ring[n][Len(ring[n])], updates[n], baselines[n])

RatesInv == TotalsInv /\ \A n \in Reported : RingFits(n)

\* The ring after a sample: it holds the sample and the one before it.
LEMMA ShortLength ==
  ASSUME NEW S, NEW s \in Seq(S), Len(s) <= 2
  PROVE  Len(s) \in 0 .. 2
  <1> DEFINE n == Len(s)
  <1>1. n \in Nat /\ n <= 2
    OBVIOUS
  <1> HIDE DEF n
  <1>2. n \in 0 .. 2
    BY <1>1
  <1> QED BY <1>2 DEF n

LEMMA LastTwo ==
  ASSUME NEW S, NEW u \in Seq(S), Len(u) \in 1 .. 3, NEW t, t = LatestTwo(u)
  PROVE  /\ Len(t) = IF Len(u) = 1 THEN 1 ELSE 2
         /\ t[Len(t)] = u[Len(u)]
         /\ Len(u) # 1 => t[1] = u[Len(u) - 1]
  <1>1. CASE Len(u) = 1
    <2>1. t = u
      BY <1>1 DEF LatestTwo
    <2> QED BY <1>1, <2>1
  <1>2. CASE Len(u) = 2
    <2>1. t = u
      BY <1>2 DEF LatestTwo
    <2>2. Len(t) = 2 /\ t[Len(t)] = u[Len(u)]
      BY <1>2, <2>1
    <2>3. t[1] = u[Len(u) - 1]
      BY <1>2, <2>1
    <2> QED BY <1>2, <2>2, <2>3
  <1>3. CASE Len(u) = 3
    <2>1. u # <<>>
      BY <1>3
    <2>2. t = Tail(u)
      BY <1>3 DEF LatestTwo
    <2>3. Len(t) = 3 - 1 /\ \A i \in 1 .. Len(t) : t[i] = u[i + 1]
      BY <1>3, <2>1, <2>2, HeadTailProperties
    <2>4. Len(t) = 2 /\ t[1] = u[2] /\ t[2] = u[3]
      BY <2>3
    <2> QED BY <1>3, <2>4
  <1> QED BY <1>1, <1>2, <1>3

LEMMA LatestTwoOf ==
  ASSUME NEW S, NEW s \in Seq(S), NEW e \in S, Len(s) <= 2,
         NEW t, t = LatestTwo(Append(s, e))
  PROVE  /\ t \in Seq(S) /\ Len(t) \in 1 .. 2 /\ t[Len(t)] = e
         /\ Len(t) = 2 <=> s # <<>>
         /\ s # <<>> => t[1] = s[Len(s)]
  <1>1. t \in Seq(S)
    BY LatestTwoType
  <1>2. PICK u : u = Append(s, e)
    OBVIOUS
  <1>3. Len(s) \in 0 .. 2 /\ (s = <<>> <=> Len(s) = 0)
    <2>1. Len(s) \in 0 .. 2
      BY ShortLength
    <2>2. s = <<>> <=> Len(s) = 0
      BY EmptySeq
    <2> QED BY <2>1, <2>2
  <1>4. /\ u \in Seq(S) /\ Len(u) = Len(s) + 1 /\ u[Len(u)] = e
        /\ \A i \in 1 .. Len(s) : u[i] = s[i]
    BY <1>2, AppendProperties
  <1>5. Len(s) # 0 => u[Len(u) - 1] = s[Len(s)]
    BY <1>3, <1>4
  <1>6. /\ Len(t) = IF Len(u) = 1 THEN 1 ELSE 2
        /\ t[Len(t)] = u[Len(u)]
        /\ Len(u) # 1 => t[1] = u[Len(u) - 1]
    <2>1. Len(u) \in 1 .. 3
      BY <1>3, <1>4
    <2> QED BY <1>2, <1>4, <2>1, LastTwo
  <1> QED BY <1>1, <1>3, <1>4, <1>5, <1>6

LEMMA RingOf ==
  ASSUME TypeOK, NEW n \in Reported
  PROVE  /\ n \in Names /\ ring[n] \in Seq(Total) /\ Len(ring[n]) \in Nat
         /\ DOMAIN ring[n] = 1 .. Len(ring[n])
         /\ \A i \in DOMAIN ring[n] : ring[n][i] \in Total
         /\ Len(ring[n]) = 0 <=> ring[n] = <<>>
  <1>1. n \in Names /\ ring[n] \in Seq(Total)
    BY CounterAssumption DEF TypeOK
  <1> QED BY <1>1

\* While no sample is added, samples go on fitting.
LEMMA RingKept ==
  ASSUME TotalsInv, NEW n \in Reported, RingFits(n), ring'[n] = ring[n],
         \A r \in Total : Fits(r, n) => Fits(r, n)',
         ring[n] # <<>> => loaded' /\ LatestFits(ring[n][Len(ring[n])], updates[n], baselines[n])'
  PROVE  RingFits(n)'
  <1>1. \A i \in DOMAIN ring[n] : ring[n][i] \in Total
    BY RingOf DEF TotalsInv
  <1>2. \A i \in DOMAIN ring[n] : Fits(ring[n][i], n)'
    BY <1>1 DEF RingFits
  <1> QED BY <1>2 DEF RingFits, Fits

LEMMA RingCleared ==
  ASSUME NEW n \in Reported, ring'[n] = <<>>
  PROVE  RingFits(n)'
  BY DEF RingFits

LEMMA RingPolled ==
  ASSUME TotalsInv, NEW n \in Reported, RingFits(n), PollDevice, TotalsInv'
  PROVE  RingFits(n)'
  <1>1. PICK outcome, limit, bytes, sample : PollOf(outcome, limit, bytes, sample)
    BY PollWitness
  <1>2. /\ phase = "polling"
        /\ UNCHANGED <<deviceVars, loaded, baselines, store, forgotten>>
    BY DEF PollDevice
  <1>short. Len(ring[n]) <= 2
    BY DEF RingFits
  <1> DEFINE s == sample[n]
  <1>3. n \in Names /\ s \in Total /\ ring[n] \in Seq(Total) /\ carried[n] \in Nat
    BY <1>1, PollTypes, RingOf DEF TotalsInv, TypeOK
  <1>4. updates'[n] = s /\ ring'[n] = LatestTwo(Append(ring[n], s))
    BY <1>1, <1>3 DEF PollOf
  <1>5. s # None /\ Fits(s, n)'
    <2>1. s # None
      BY <1>3, CounterAssumption
    <2> HIDE DEF s
    <2> QED BY <1>4, <2>1 DEF TotalsInv, AllFit, Fits
  <1>6. /\ s.at = carried[n]
        /\ baselines[n] = None => Fresh(s)
        /\ baselines[n] # None => s.origin = baselines[n].origin
    <2>1. s = IF baselines[n] = None
                THEN FirstSample(n, bytes[n], outcome = "online")
                ELSE NextSample(n, baselines[n], bytes[n], limit[n],
                                outcome = "online")
      BY <1>1, Zenon DEF PollOf
    <2> HIDE DEF s
    <2> QED BY <2>1 DEF FirstSample, NextSample, Fresh
  <1> HIDE DEF s
  <1>7. loaded' /\ LatestFits(s, updates[n], baselines[n])'
    BY <1>2, <1>4, <1>5, <1>6 DEF TotalsInv, Pending, LatestFits
  <1>8. /\ ring'[n] \in Seq(Total) /\ Len(ring'[n]) \in 1 .. 2
        /\ ring'[n][Len(ring'[n])] = s
        /\ Len(ring'[n]) = 2 <=> ring[n] # <<>>
        /\ ring[n] # <<>> => ring'[n][1] = ring[n][Len(ring[n])]
    BY <1>short, <1>3, <1>4, LatestTwoOf
  <1>9. CASE ring[n] = <<>>
    <2>1. Len(ring'[n]) = 1 /\ DOMAIN ring'[n] = {1} /\ ring'[n][1] = s
      BY <1>8, <1>9
    <2> QED BY <1>5, <1>7, <1>8, <2>1 DEF RingFits, Fits
  <1>10. CASE ring[n] # <<>>
    <2>1. PICK l : l = ring[n][Len(ring[n])]
      OBVIOUS
    <2>2. l \in Total /\ Fits(l, n) /\ LatestFits(l, updates[n], baselines[n])
      BY <1>10, <2>1, RingOf DEF TotalsInv, RingFits
    <2>3. /\ Len(ring'[n]) = 2 /\ DOMAIN ring'[n] = 1 .. 2
          /\ ring'[n][1] = l /\ ring'[n][2] = s
      BY <1>8, <1>10, <2>1
    <2>4. Fits(l, n)'
      BY <1>2, <2>2 DEF Fits, deviceVars
    <2>5. Chained(l, s)
      BY <1>6, <2>2 DEF Fits, Describes, LatestFits, Chained
    <2>6. (\A i \in DOMAIN ring[n] : Fits(ring[n][i], n))'
      BY <1>5, <2>3, <2>4 DEF Fits
    <2> QED BY <1>7, <2>3, <2>5, <2>6 DEF RingFits
  <1> QED BY <1>9, <1>10

LEMMA RatesInit == Init => RatesInv
  <1> SUFFICES ASSUME Init, NEW n \in Reported PROVE RingFits(n)
    BY TotalsInit DEF RatesInv
  <1>1. ring[n] = <<>>
    BY CounterAssumption DEF Init
  <1> QED BY <1>1 DEF RingFits

LEMMA RatesStep ==
  ASSUME CanonicalNames, RatesInv, [Next]_vars
  PROVE  RatesInv'
  <1>1. TotalsInv /\ TotalsInv' /\ TypeOK /\ TypeOK' /\ DeviceBounds
    BY TotalsStep DEF RatesInv, TotalsInv
  <1> SUFFICES ASSUME NEW n \in Reported PROVE RingFits(n)'
    BY <1>1 DEF RatesInv
  <1>2. RingFits(n) /\ n \in Names
    BY CounterAssumption DEF RatesInv
  <1>3. UNCHANGED <<deviceVars, forgotten>> => \A r \in Total : Fits(r, n) => Fits(r, n)'
    BY FitsFrame
  <1>4. CASE \E m \in Reported, b \in Bursts : Carry(m, b)
    <2>1. PICK m \in Reported, b \in Bursts : Carry(m, b)
      BY <1>4
    <2>2. m \in Names /\ b \in 1 .. Modulus
      BY CounterAssumption
    <2>3. \A r \in Total : Fits(r, n) => Fits(r, n)'
      BY <1>1, <1>2, <2>1, <2>2, FitsCarry
    <2>4. UNCHANGED <<loaded, baselines, updates, ring>>
      BY <2>1 DEF Carry
    <2> QED BY <1>1, <1>2, <2>3, <2>4, RingKept DEF RingFits, LatestFits
  <1>5. CASE Reboot
    <2>1. \A r \in Total : Fits(r, n) => Fits(r, n)'
      BY <1>1, <1>2, <1>5, FitsReboot
    <2>2. UNCHANGED <<loaded, baselines, updates, ring>>
      BY <1>5 DEF Reboot
    <2> QED BY <1>1, <1>2, <2>1, <2>2, RingKept DEF RingFits, LatestFits
  <1>6. CASE StartPoll
    <2>1. /\ UNCHANGED <<deviceVars, updates, ring, forgotten>>
          /\ loaded' = TRUE
          /\ loaded => baselines' = baselines
      BY <1>6 DEF StartPoll
    <2> QED BY <1>1, <1>2, <1>3, <2>1, RingKept DEF RingFits, LatestFits
  <1>7. CASE PollDevice
    BY <1>1, <1>2, <1>7, RingPolled
  <1>8. CASE PollNothing \/ SaveFails \/ UNCHANGED vars
    <2>1. /\ UNCHANGED <<deviceVars, loaded, baselines, ring, forgotten>>
          /\ updates' = updates \/ updates' = NoTotals
      BY <1>8 DEF PollNothing, SaveFails, vars
    <2> QED BY <1>1, <1>2, <1>3, <2>1, RingKept DEF RingFits, LatestFits, NoTotals
  <1>9. CASE SaveCounters
    <2>1. /\ UNCHANGED <<deviceVars, loaded, ring, forgotten>>
          /\ updates'[n] = None
          /\ baselines'[n] = IF updates[n] # None THEN updates[n] ELSE baselines[n]
      BY <1>2, <1>9 DEF SaveCounters, NoTotals, Updated
    <2>2. ring[n] # <<>> =>
            loaded' /\ LatestFits(ring[n][Len(ring[n])], updates[n], baselines[n])'
      BY <1>2, <2>1 DEF RingFits, LatestFits
    <2> QED BY <1>1, <1>2, <1>3, <2>1, <2>2, RingKept
  <1>10. CASE Reset \/ Restart
    <2>1. ring'[n] = <<>>
      BY <1>2, <1>10 DEF Reset, Restart
    <2> QED BY <2>1, RingCleared
  <1> QED BY <1>4, <1>5, <1>6, <1>7, <1>8, <1>9, <1>10 DEF Next

\* The rate shown for a port with counters of 32 bits is its traffic between
\* the two samples it is computed from, also when the save between them failed.
THEOREM RatesAreTraffic ==
  ASSUME CanonicalNames, Modulus = Wrap
  PROVE  Spec => []RateIsTraffic
  <1>1. RatesInv => RateIsTraffic
    <2> SUFFICES ASSUME RatesInv, NEW n \in Reported, Len(ring[n]) = 2,
                        ring[n][1].exact, ring[n][2].exact
                 PROVE  LET shown   == ring[n][2].cum - ring[n][1].cum
                            between == ring[n][2].at - ring[n][1].at
                        IN  /\ shown \in 0 .. between
                            /\ ring[n][1].origin = ring[n][2].origin => shown = between
      BY Zenon DEF RateIsTraffic
    <2> DEFINE q == ring[n][1]
               r == ring[n][2]
    <2>1. q \in Total /\ r \in Total /\ Fits(q, n) /\ Fits(r, n) /\ Chained(q, r)
      BY RingOf DEF RatesInv, TotalsInv, RingFits
    <2>2. /\ q.cum \in Nat /\ q.origin \in Nat /\ q.at \in Nat
          /\ r.cum \in Nat /\ r.origin \in Nat /\ r.at \in Nat
      BY <2>1 DEF Total
    <2>3. q.cum = q.at - q.origin /\ r.cum = r.at - r.origin
      BY <2>1 DEF Fits, Describes
    <2> HIDE DEF q, r
    <2>4. /\ r.cum - q.cum \in 0 .. (r.at - q.at)
          /\ q.origin = r.origin => r.cum - q.cum = r.at - q.at
      BY <2>1, <2>2, <2>3 DEF Chained, Fresh
    <2> QED BY <2>4 DEF q, r
  <1>2. Spec => []RatesInv
    BY RatesInit, RatesStep, PTL DEF Spec
  <1> QED BY <1>1, <1>2, PTL
=============================================================================
