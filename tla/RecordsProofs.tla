-------------------------- MODULE RecordsProofs --------------------------
(* Theorems about what is kept of the past: the addresses of clients (module *)
(* ClientIpHistory), for any clients, addresses and batches, and the samples *)
(* and trends of a port (MetricRollup), for any times and retentions.        *)
EXTENDS ClientIpHistory, MetricRollup, TLAPS

-----------------------------------------------------------------------------
(* The addresses of clients.                                               *)

LEMMA ObserveRow ==
  ASSUME NEW row \in [Ips -> {"none", "inactive", "active"}], NEW ip \in Ips
  PROVE  /\ Observe(row, ip) \in [Ips -> {"none", "inactive", "active"}]
         /\ Observe(row, ip)[ip] = "active"
         /\ \A a \in Ips : row[a] = "none" /\ Observe(row, ip)[a] # "none"
              => {b \in Ips : Observe(row, ip)[b] = "active"} = {ip}
  BY DEF Observe, Deactivated

LEMMA ObserveAllRow ==
  ASSUME NEW row \in [Ips -> {"none", "inactive", "active"}],
         NEW seq \in Seq(Ips), seq # <<>>
  PROVE  /\ LastOf(seq) \in Ips
         /\ ObserveAll(row, seq) \in [Ips -> {"none", "inactive", "active"}]
         /\ ObserveAll(row, seq)[LastOf(seq)] = "active"
         /\ \A a \in Ips : row[a] = "none" /\ ObserveAll(row, seq)[a] # "none"
              => {b \in Ips : ObserveAll(row, seq)[b] = "active"} = {LastOf(seq)}
<1>1. Len(seq) \in DOMAIN seq /\ \A i \in DOMAIN seq : seq[i] \in Ips
  OBVIOUS
<1>2. LastOf(seq) \in Ips /\ LastOf(seq) \in Elements(seq)
  BY <1>1 DEF LastOf, Elements
<1>3. ObserveAll(row, seq) \in [Ips -> {"none", "inactive", "active"}]
  BY DEF ObserveAll, Deactivated
<1>4. ObserveAll(row, seq)[LastOf(seq)] = "active"
  BY <1>2 DEF ObserveAll
<1>5. ASSUME NEW a \in Ips, row[a] = "none", ObserveAll(row, seq)[a] # "none",
             NEW b \in Ips, ObserveAll(row, seq)[b] = "active"
      PROVE  b = LastOf(seq)
  <2>1. a \in Elements(seq)
    BY <1>5 DEF ObserveAll, Deactivated
  <2> QED
    BY <1>5, <2>1 DEF ObserveAll, Deactivated
<1> QED
  BY <1>2, <1>3, <1>4, <1>5

\* The table and the latest address keep their types.
THEOREM IpTypeCorrect == IpSpec => []IpTypeOK
<1>1. IpInit => IpTypeOK
  BY DEF IpInit, IpTypeOK
<1>2. IpTypeOK /\ [IpNext]_ipVars => IpTypeOK'
  <2> SUFFICES ASSUME IpTypeOK, [IpNext]_ipVars
               PROVE  IpTypeOK'
    OBVIOUS
  <2>1. ASSUME NEW m \in Macs, NEW ip \in Ips, RecordOne(m, ip)
        PROVE  IpTypeOK'
    BY <2>1, ObserveRow DEF RecordOne, IpTypeOK
  <2>2. CASE RecordBatch
    <3>1. PICK seen \in [Macs -> Observed] :
            /\ status' = [m \in Macs |-> IF seen[m] = <<>> THEN status[m]
                                         ELSE ObserveAll(status[m], seen[m])]
            /\ latest' = [m \in Macs |-> IF seen[m] = <<>> THEN latest[m]
                                         ELSE LastOf(seen[m])]
      BY <2>2 DEF RecordBatch
    <3>2. \A m \in Macs : seen[m] \in Seq(Ips)
      BY IpAssumption
    <3> QED
      BY <3>1, <3>2, ObserveAllRow DEF IpTypeOK
  <2>3. CASE UNCHANGED ipVars
    BY <2>3 DEF ipVars, IpTypeOK
  <2> QED
    BY <2>1, <2>2, <2>3 DEF IpNext
<1> QED
  BY <1>1, <1>2, PTL DEF IpSpec

\* Whatever mix of single and batched observations was recorded, the address a
\* client was last seen with is active.
THEOREM LatestAddressActive == IpSpec => []LatestIsActive
<1>1. IpInit => LatestIsActive
  BY DEF IpInit, LatestIsActive
<1>2. IpTypeOK /\ LatestIsActive /\ [IpNext]_ipVars => LatestIsActive'
  <2> SUFFICES ASSUME IpTypeOK, LatestIsActive, [IpNext]_ipVars
               PROVE  LatestIsActive'
    OBVIOUS
  <2>1. ASSUME NEW m \in Macs, NEW ip \in Ips, RecordOne(m, ip)
        PROVE  LatestIsActive'
    <3>1. status'[m] = Observe(status[m], ip) /\ latest'[m] = ip
      BY <2>1 DEF RecordOne, IpTypeOK
    <3>2. \A k \in Macs \ {m} : status'[k] = status[k] /\ latest'[k] = latest[k]
      BY <2>1 DEF RecordOne, IpTypeOK
    <3>3. status'[m][ip] = "active"
      BY <3>1, ObserveRow DEF IpTypeOK
    <3> QED
      BY <3>1, <3>2, <3>3 DEF LatestIsActive, ActiveIps
  <2>2. CASE RecordBatch
    <3>1. PICK seen \in [Macs -> Observed] :
            /\ status' = [m \in Macs |-> IF seen[m] = <<>> THEN status[m]
                                         ELSE ObserveAll(status[m], seen[m])]
            /\ latest' = [m \in Macs |-> IF seen[m] = <<>> THEN latest[m]
                                         ELSE LastOf(seen[m])]
      BY <2>2 DEF RecordBatch
    <3>2. \A m \in Macs : seen[m] \in Seq(Ips)
      BY IpAssumption
    <3>3. ASSUME NEW m \in Macs, latest'[m] # NoIp
          PROVE  latest'[m] \in ActiveIps(m)'
      <4>1. CASE seen[m] = <<>>
        BY <3>1, <3>3, <4>1 DEF LatestIsActive, ActiveIps
      <4>2. CASE seen[m] # <<>>
        BY <3>1, <3>2, <4>2, ObserveAllRow DEF ActiveIps, IpTypeOK
      <4> QED
        BY <4>1, <4>2
    <3> QED
      BY <3>3 DEF LatestIsActive
  <2>3. CASE UNCHANGED ipVars
    BY <2>3 DEF ipVars, LatestIsActive, ActiveIps
  <2> QED
    BY <2>1, <2>2, <2>3 DEF IpNext
<1> QED
  BY <1>1, <1>2, IpTypeCorrect, PTL DEF IpSpec

\* A newly learnt address leaves exactly the latest address active.
THEOREM NewAddressExclusive == IpSpec => NewAddressRetiresOthers
<1> DEFINE Retires == \A m \in Macs :
       (\E ip \in Ips : status[m][ip] = "none" /\ status'[m][ip] # "none")
       => ActiveIps(m)' = {latest'[m]}
<1>1. IpTypeOK /\ [IpNext]_ipVars => [Retires]_ipVars
  <2> SUFFICES ASSUME IpTypeOK, IpNext, NEW m \in Macs, NEW a \in Ips,
                      status[m][a] = "none", status'[m][a] # "none"
               PROVE  ActiveIps(m)' = {latest'[m]}
    OBVIOUS
  <2>1. ASSUME NEW k \in Macs, NEW ip \in Ips, RecordOne(k, ip)
        PROVE  ActiveIps(m)' = {latest'[m]}
    <3>1. k = m
      BY <2>1 DEF RecordOne, IpTypeOK
    <3>2. status'[m] = Observe(status[m], ip) /\ latest'[m] = ip
      BY <2>1, <3>1 DEF RecordOne, IpTypeOK
    <3> QED
      BY <3>2, ObserveRow DEF ActiveIps, IpTypeOK
  <2>2. CASE RecordBatch
    <3>1. PICK seen \in [Macs -> Observed] :
            /\ status' = [k \in Macs |-> IF seen[k] = <<>> THEN status[k]
                                         ELSE ObserveAll(status[k], seen[k])]
            /\ latest' = [k \in Macs |-> IF seen[k] = <<>> THEN latest[k]
                                         ELSE LastOf(seen[k])]
      BY <2>2 DEF RecordBatch
    <3>2. seen[m] # <<>> /\ seen[m] \in Seq(Ips)
      BY <3>1, IpAssumption
    <3> QED
      BY <3>1, <3>2, ObserveAllRow DEF ActiveIps, IpTypeOK
  <2> QED
    BY <2>1, <2>2 DEF IpNext
<1> QED
  BY <1>1, IpTypeCorrect, PTL DEF IpSpec, NewAddressRetiresOthers

\* A second address becomes active only when a client returns to an address it
\* had before, which is what the run ClientIpHistory_oneactive shows.
SecondByReturn ==
  [][\A m \in Macs :
       ActiveIps(m) \subseteq {latest[m]} /\ ~(ActiveIps(m)' \subseteq {latest'[m]})
       => status[m][latest'[m]] = "inactive"]_ipVars

\* A row with one active address has the observed one only, or it is a return.
LEMMA ReturnOne ==
  ASSUME NEW row \in [Ips -> {"none", "inactive", "active"}], NEW ip \in Ips, NEW was,
         {b \in Ips : row[b] = "active"} \subseteq {was}, row[ip] # "inactive"
  PROVE  {b \in Ips : Observe(row, ip)[b] = "active"} \subseteq {ip}
  BY DEF Observe, Deactivated

LEMMA ReturnAll ==
  ASSUME NEW row \in [Ips -> {"none", "inactive", "active"}],
         NEW seq \in Seq(Ips), seq # <<>>, NEW was,
         {b \in Ips : row[b] = "active"} \subseteq {was}, row[LastOf(seq)] # "inactive"
  PROVE  {b \in Ips : ObserveAll(row, seq)[b] = "active"} \subseteq {LastOf(seq)}
<1>1. LastOf(seq) \in Ips /\ LastOf(seq) \in Elements(seq)
  BY ObserveAllRow DEF LastOf, Elements
<1>2. ASSUME NEW b \in Ips, ObserveAll(row, seq)[b] = "active", b # LastOf(seq)
      PROVE  FALSE
  <2>1. b \notin Elements(seq) /\ \A a \in Elements(seq) : row[a] # "none"
    BY <1>2 DEF ObserveAll, Deactivated
  <2>2. row[b] = "active" /\ row[LastOf(seq)] = "active"
    BY <1>1, <1>2, <2>1 DEF ObserveAll
  <2> QED
    BY <1>1, <1>2, <2>2
<1> QED
  BY <1>2

\* As long as no client returns to an address it had before, each has one active
\* address, as the tests expect, over any mix of single and batched observations.
THEOREM OnlyReturnsAddActive == IpSpec => SecondByReturn
<1> DEFINE Step == \A m \in Macs :
       ActiveIps(m) \subseteq {latest[m]} /\ ~(ActiveIps(m)' \subseteq {latest'[m]})
       => status[m][latest'[m]] = "inactive"
<1>1. IpTypeOK /\ [IpNext]_ipVars => [Step]_ipVars
  <2> SUFFICES ASSUME IpTypeOK, IpNext, NEW m \in Macs,
                      ActiveIps(m) \subseteq {latest[m]},
                      status[m][latest'[m]] # "inactive"
               PROVE  ActiveIps(m)' \subseteq {latest'[m]}
    OBVIOUS
  <2>1. ASSUME NEW k \in Macs, NEW ip \in Ips, RecordOne(k, ip)
        PROVE  ActiveIps(m)' \subseteq {latest'[m]}
    <3>1. CASE k = m
      <4>1. status'[m] = Observe(status[m], ip) /\ latest'[m] = ip
        BY <2>1, <3>1 DEF RecordOne, IpTypeOK
      <4> QED
        BY <4>1, ReturnOne DEF ActiveIps, IpTypeOK
    <3>2. CASE k # m
      BY <2>1, <3>2 DEF RecordOne, IpTypeOK, ActiveIps
    <3> QED
      BY <3>1, <3>2
  <2>2. CASE RecordBatch
    <3>1. PICK seen \in [Macs -> Observed] :
            /\ status' = [k \in Macs |-> IF seen[k] = <<>> THEN status[k]
                                         ELSE ObserveAll(status[k], seen[k])]
            /\ latest' = [k \in Macs |-> IF seen[k] = <<>> THEN latest[k]
                                         ELSE LastOf(seen[k])]
      BY <2>2 DEF RecordBatch
    <3>2. seen[m] \in Seq(Ips)
      BY IpAssumption
    <3>3. CASE seen[m] = <<>>
      BY <3>1, <3>3 DEF ActiveIps
    <3>4. CASE seen[m] # <<>>
      <4>1. status'[m] = ObserveAll(status[m], seen[m]) /\ latest'[m] = LastOf(seen[m])
        BY <3>1, <3>4
      <4>2. {b \in Ips : ObserveAll(status[m], seen[m])[b] = "active"} \subseteq {LastOf(seen[m])}
        <5>1. status[m] \in [Ips -> {"none", "inactive", "active"}]
          BY DEF IpTypeOK
        <5>2. {b \in Ips : status[m][b] = "active"} \subseteq {latest[m]}
          BY DEF ActiveIps
        <5>3. status[m][LastOf(seen[m])] # "inactive"
          BY <4>1
        <5> QED
          BY <3>2, <3>4, <5>1, <5>2, <5>3, ReturnAll
      <4> QED
        BY <4>1, <4>2 DEF ActiveIps
    <3> QED
      BY <3>3, <3>4
  <2> QED
    BY <2>1, <2>2 DEF IpNext
<1> QED
  BY <1>1, IpTypeCorrect, PTL DEF IpSpec, SecondByReturn

-----------------------------------------------------------------------------
(* The history of a port.                                                  *)

LEMMA HourBounds ==
  ASSUME NEW s \in Times
  PROVE  /\ HourOf(s) \in Hours
         /\ HourOf(s) * HourLen <= s
  <1>1. s \in Nat /\ HourLen \in Nat /\ HourLen > 0 /\ MaxTime \in Nat /\ s <= MaxTime
    BY RollupAssumption DEF Times
  <1>2. s \div HourLen \in Int /\ HourLen * (s \div HourLen) <= s /\ s \div HourLen >= 0
    BY <1>1, Z3
  <1>3. s \div HourLen <= s
    BY <1>1, <1>2, Z3
  <1> QED BY <1>1, <1>2, <1>3 DEF HourOf, Hours

-----------------------------------------------------------------------------
(* The inductive invariant.                                                *)

\* A sample is gone only from before the horizon.
RawKept == \A s \in recorded : horizon <= s => s \in raw

\* A run read in the past, and no cycle reaches back to what has been rolled up.
RunPast ==
  /\ done <= clock - RollupLag
  /\ work # Idle => work.at <= clock

\* Old samples that are still there have been summed up, and unless a reset came
\* between, what was found is what is there.
ReadCurrent ==
  work # Idle =>
    \A s \in raw :
      s <= work.at - RollupLag =>
        /\ s \in work.sums[HourOf(s)]
        /\ HourOf(s) \notin work.todo =>
             work.found[HourOf(s)] = trends[HourOf(s)]

RollupInv == RollupTypeOK /\ RawKept /\ RunPast /\ ReadCurrent /\ TrendsComplete

LEMMA Initially == RollupInit => RollupInv
  <1> SUFFICES ASSUME RollupInit PROVE RollupInv
    OBVIOUS
  <1>1. /\ clock = 0 /\ raw = {} /\ recorded = {} /\ trends = NoTrends
        /\ work = Idle /\ done = -RollupLag /\ horizon = 0
    BY DEF RollupInit
  <1>2. RollupLag \in Nat /\ MaxTime \in Nat
    BY RollupAssumption
  <1>3. RollupTypeOK
    BY <1>1, <1>2 DEF RollupTypeOK, Times, NoTrends, Trends
  <1>4. RunPast
    BY <1>1, <1>2 DEF RunPast
  <1> QED BY <1>1, <1>3, <1>4 DEF RollupInv, RawKept, ReadCurrent, TrendsComplete

\* A run with its fields.
LEMMA RunFields ==
  ASSUME RollupTypeOK, work # Idle
  PROVE  /\ work.at \in Times /\ work.sums \in Trends /\ work.found \in Trends
         /\ work.todo \in SUBSET Hours
  BY DEF RollupTypeOK, Run

-----------------------------------------------------------------------------
(* What the transaction leaves.                                            *)

\* A summed-up sample is in the trend of its hour afterwards, unless the trend has
\* expired.
LEMMA SummedUp ==
  ASSUME RollupTypeOK, ReadCurrent, NEW keep \in Retentions, Store(keep),
         NEW s \in raw, s <= work.at - RollupLag
  PROVE  \/ s \in trends'[HourOf(s)]
         \/ Expired(HourOf(s), keep) /\ trends'[HourOf(s)] = {}
  <1> DEFINE h == HourOf(s)
  <1>1. work # Idle /\ work.todo = {} /\ trends' = Rolled(keep)
    BY DEF Store
  <1>2. s \in work.sums[h] /\ work.found[h] = trends[h]
    BY <1>1 DEF ReadCurrent
  <1>3. h \in Hours
    BY HourBounds DEF RollupTypeOK
  <1>4. trends'[h] = IF work.sums[h] # {} /\ work.found[h] = {} THEN work.sums[h]
                     ELSE IF Expired(h, keep) THEN {}
                     ELSE IF Changed(h) THEN work.sums[h]
                     ELSE trends[h]
    BY <1>1, <1>3 DEF Rolled
  <1>5. work.sums[h] # {}
    BY <1>2
  <1>6. CASE work.found[h] = {}
    BY <1>2, <1>4, <1>5, <1>6
  <1>7. CASE work.found[h] # {} /\ Expired(h, keep)
    BY <1>4, <1>7
  <1>8. CASE work.found[h] # {} /\ ~Expired(h, keep)
    <2>1. CASE work.sums[h] = work.found[h]
      BY <1>2, <1>4, <1>8, <2>1 DEF Changed
    <2>2. CASE work.sums[h] # work.found[h]
      BY <1>2, <1>4, <1>5, <1>8, <2>2 DEF Changed
    <2> QED BY <2>1, <2>2
  <1> QED BY <1>6, <1>7, <1>8

-----------------------------------------------------------------------------
(* Every action keeps the invariant.                                       *)

LEMMA TickKeeps == ASSUME RollupInv, Tick PROVE RollupInv'
  <1> USE RollupAssumption DEF RollupInv, Tick
  <1>1. clock \in Nat /\ clock' \in Nat /\ clock' = clock + 1 /\ clock' <= MaxTime
    BY DEF RollupTypeOK, Times
  <1>2. RollupTypeOK'
    BY <1>1 DEF RollupTypeOK, Times
  <1>3. RunPast'
    <2>1. done' <= clock' - RollupLag
      BY <1>1 DEF RunPast, RollupTypeOK
    <2>2. work' # Idle => work'.at <= clock'
      BY <1>1, RunFields DEF RunPast, Times
    <2> QED BY <2>1, <2>2 DEF RunPast
  <1>4. ReadCurrent' /\ RawKept' /\ TrendsComplete'
    BY DEF ReadCurrent, RawKept, TrendsComplete
  <1> QED BY <1>2, <1>3, <1>4

LEMMA RecordKeeps == ASSUME RollupInv, NEW t \in Times, Record(t) PROVE RollupInv'
  <1> USE RollupAssumption DEF RollupInv, Record
  <1>1. RollupTypeOK'
    BY DEF RollupTypeOK
  <1>2. clock - RollupLag < t
    BY DEF RollupTypeOK, Times
  <1>3. RunPast' /\ RawKept'
    BY DEF RunPast, RawKept
  <1>4. ReadCurrent'
    <2>1. work # Idle => work.at - RollupLag < t
      BY <1>2, RunFields DEF RunPast, RollupTypeOK, Times
    <2> SUFFICES ASSUME work # Idle, NEW s \in raw', s <= work.at - RollupLag
                 PROVE  /\ s \in work.sums[HourOf(s)]
                        /\ HourOf(s) \notin work.todo =>
                             work.found[HourOf(s)] = trends[HourOf(s)]
      BY DEF ReadCurrent
    <2>2. s # t
      BY <2>1, RunFields DEF Times
    <2> QED BY <2>2 DEF ReadCurrent
  <1>5. TrendsComplete'
    <2>1. done < t
      BY <1>2 DEF RunPast, RollupTypeOK, Times
    <2> SUFFICES ASSUME NEW s \in recorded', s <= done, horizon <= HourOf(s) * HourLen
                 PROVE  s \in trends[HourOf(s)]
      BY DEF TrendsComplete
    <2>2. s # t
      BY <2>1 DEF RollupTypeOK, Times
    <2> QED BY <2>2 DEF TrendsComplete
  <1> QED BY <1>1, <1>3, <1>4, <1>5

LEMMA ResetKeeps == ASSUME RollupInv, ResetHistory PROVE RollupInv'
  <1> USE DEF RollupInv, ResetHistory
  <1>1. RollupTypeOK'
    BY DEF RollupTypeOK, NoTrends, Trends
  <1>2. RunPast'
    BY DEF RunPast
  <1>3. RawKept' /\ ReadCurrent' /\ TrendsComplete'
    BY DEF RawKept, ReadCurrent, TrendsComplete
  <1> QED BY <1>1, <1>2, <1>3

LEMMA CollectKeeps == ASSUME RollupInv, Collect PROVE RollupInv'
  <1> USE DEF RollupInv, Collect
  <1>1. OldSamples \subseteq Times /\ \A s \in OldSamples : HourOf(s) \in Hours
    BY HourBounds DEF OldSamples, RollupTypeOK
  <1>2. /\ work'.at = clock
        /\ work'.sums = [h \in Hours |-> {s \in OldSamples : HourOf(s) = h}]
        /\ work'.todo = {HourOf(s) : s \in OldSamples}
    OBVIOUS
  <1>3. work' \in Run
    <2>1. work'.sums \in Trends
      BY <1>1, <1>2 DEF Trends
    <2>2. work'.todo \in SUBSET Hours
      BY <1>1, <1>2
    <2>3. NoTrends \in Trends
      BY DEF NoTrends, Trends
    <2> QED BY <2>1, <2>2, <2>3 DEF Run, RollupTypeOK
  <1>4. RollupTypeOK'
    BY <1>3 DEF RollupTypeOK
  <1>5. RunPast'
    BY <1>2 DEF RunPast, RollupTypeOK, Times
  <1>6. ReadCurrent'
    <2> SUFFICES ASSUME NEW s \in raw, s <= clock - RollupLag
                 PROVE  s \in work'.sums[HourOf(s)] /\ HourOf(s) \in work'.todo
      BY <1>2 DEF ReadCurrent
    <2>1. s \in OldSamples
      BY DEF OldSamples
    <2> QED BY <1>1, <1>2, <2>1
  <1>7. RawKept' /\ TrendsComplete'
    BY DEF RawKept, TrendsComplete
  <1> QED BY <1>4, <1>5, <1>6, <1>7

LEMMA LookUpKeeps == ASSUME RollupInv, NEW g \in Hours, LookUp(g) PROVE RollupInv'
  <1> USE DEF RollupInv, LookUp
  <1>1. /\ work \in Run
        /\ work' = [work EXCEPT !.found[g] = trends[g], !.todo = @ \ {g}]
    BY DEF RollupTypeOK
  <1>2. /\ work'.at = work.at /\ work'.sums = work.sums
        /\ work'.todo = work.todo \ {g}
        /\ \A h \in Hours : work'.found[h] = IF h = g THEN trends[g] ELSE work.found[h]
        /\ work' \in Run
    BY <1>1 DEF Run, Trends, RollupTypeOK
  <1>3. RollupTypeOK'
    BY <1>2 DEF RollupTypeOK
  <1>4. RunPast'
    BY <1>2 DEF RunPast
  <1>5. ReadCurrent'
    <2> SUFFICES ASSUME NEW s \in raw, s <= work.at - RollupLag
                 PROVE  /\ s \in work.sums[HourOf(s)]
                        /\ HourOf(s) \notin work'.todo =>
                             work'.found[HourOf(s)] = trends[HourOf(s)]
      BY <1>2 DEF ReadCurrent
    <2>1. HourOf(s) \in Hours
      BY HourBounds DEF RollupTypeOK
    <2> QED BY <1>2, <2>1 DEF ReadCurrent
  <1>6. RawKept' /\ TrendsComplete'
    BY DEF RawKept, TrendsComplete
  <1> QED BY <1>3, <1>4, <1>5, <1>6

LEMMA StoreKeeps ==
  ASSUME RollupInv, NEW keep \in Retentions, Store(keep)
  PROVE  RollupInv'
  <1> USE RollupAssumption DEF RollupInv
  <1>1. /\ work # Idle /\ work.at \in Times /\ work.sums \in Trends
        /\ keep.raw \in Nat /\ keep.trends \in Nat
    BY RunFields DEF Store
  <1>2. /\ raw' = raw \ Purged(keep) /\ recorded' = recorded /\ clock' = clock
        /\ trends' = Rolled(keep) /\ work' = Idle /\ done' = work.at - RollupLag
    BY DEF Store
  <1>3. horizon' = Later(horizon, Later(work.at - keep.raw, work.at - keep.trends))
    BY DEF Store
  <1>4. /\ horizon' \in Int /\ horizon <= horizon'
        /\ work.at - keep.raw <= horizon' /\ work.at - keep.trends <= horizon'
    BY <1>1, <1>3 DEF Later, RollupTypeOK, Times
  <1>5. RollupTypeOK'
    <2>1. trends' \in Trends
      BY <1>1, <1>2 DEF Rolled, Trends, RollupTypeOK
    <2>2. done' \in Int
      BY <1>1, <1>2 DEF Times
    <2> QED BY <1>2, <1>4, <2>1, <2>2 DEF RollupTypeOK
  <1>6. RunPast'
    BY <1>1, <1>2 DEF RunPast, RollupTypeOK, Times
  <1>7. RawKept'
    <2> SUFFICES ASSUME NEW s \in recorded, horizon' <= s PROVE s \in raw'
      BY <1>2 DEF RawKept
    <2>1. s \in Nat
      BY DEF RollupTypeOK, Times
    <2>2. s \in raw
      BY <1>4, <2>1 DEF RawKept, RollupTypeOK
    <2>3. ~(s < work.at - keep.raw)
      BY <1>1, <1>4, <2>1 DEF Times
    <2> QED BY <1>2, <2>2, <2>3 DEF Purged
  <1>8. TrendsComplete'
    <2> SUFFICES ASSUME NEW s \in recorded, s <= work.at - RollupLag,
                        horizon' <= HourOf(s) * HourLen
                 PROVE  s \in trends'[HourOf(s)]
      BY <1>2 DEF TrendsComplete
    <2>1. s \in Times /\ HourOf(s) \in Hours /\ HourOf(s) * HourLen <= s
      BY HourBounds DEF RollupTypeOK
    <2>2. HourOf(s) * HourLen \in Int
      BY <2>1 DEF Hours
    <2>3. s \in raw
      BY <1>4, <2>1, <2>2 DEF RawKept, RollupTypeOK, Times
    <2>4. ~Expired(HourOf(s), keep)
      BY <1>1, <1>4, <2>2 DEF Expired, Times
    <2> QED BY <2>3, <2>4, SummedUp
  <1>9. ReadCurrent'
    BY <1>2 DEF ReadCurrent
  <1> QED BY <1>5, <1>6, <1>7, <1>8, <1>9

LEMMA GiveUpKeeps == ASSUME RollupInv, GiveUp PROVE RollupInv'
  BY DEF RollupInv, GiveUp, RollupTypeOK, RawKept, RunPast, ReadCurrent, TrendsComplete

LEMMA StutterKeeps == ASSUME RollupInv, UNCHANGED rollupVars PROVE RollupInv'
  BY DEF RollupInv, rollupVars, RollupTypeOK, RawKept, RunPast, ReadCurrent, TrendsComplete

THEOREM RollupInvariant == RollupSpec => []RollupInv
  <1>1. RollupInv /\ [RollupNext]_rollupVars => RollupInv'
    BY TickKeeps, RecordKeeps, ResetKeeps, CollectKeeps, LookUpKeeps, StoreKeeps,
       GiveUpKeeps, StutterKeeps DEF RollupNext
  <1> QED BY <1>1, Initially, PTL DEF RollupSpec

-----------------------------------------------------------------------------
(* The theorems.                                                           *)

\* The variables have their types, and trends are sets of samples of the clock's
\* range.
THEOREM RollupTypeCorrect == RollupSpec => []RollupTypeOK
  BY RollupInvariant, PTL DEF RollupInv

\* For any lag longer than a cycle, and any retention that is not shorter than the lag,
\* the trends of the hours that are kept are complete (housekeeper.py:55-97).
THEOREM TrendsAreComplete == RollupSpec => []TrendsComplete
  BY RollupInvariant, PTL DEF RollupInv

\* The housekeeper purges no sample that it has not rolled up (housekeeper.py:106-108).
THEOREM PurgedAreCounted == RollupSpec => CountedBeforePurged
  <1> DEFINE Counted == \A s \in raw :
                s \notin raw' =>
                  \/ raw' = {} /\ trends' = NoTrends
                  \/ s \in trends'[HourOf(s)]
                  \/ HourOf(s) * HourLen < horizon' /\ trends'[HourOf(s)] = {}
  <1>1. RollupInv /\ [RollupNext]_rollupVars => [Counted]_rollupVars
    <2> SUFFICES ASSUME RollupInv, RollupNext, NEW s \in raw, s \notin raw'
                 PROVE  \/ raw' = {} /\ trends' = NoTrends
                        \/ s \in trends'[HourOf(s)]
                        \/ HourOf(s) * HourLen < horizon' /\ trends'[HourOf(s)] = {}
      OBVIOUS
    <2>1. CASE ResetHistory
      BY <2>1 DEF ResetHistory
    <2>2. CASE \E keep \in Retentions : Store(keep)
      <3> PICK keep \in Retentions : Store(keep)
        BY <2>2
      <3>1. /\ work # Idle /\ s < work.at - keep.raw
            /\ horizon' = Later(horizon, Later(work.at - keep.raw, work.at - keep.trends))
        BY DEF Store, Purged
      <3>2. /\ work.at \in Nat /\ s \in Nat /\ horizon \in Int /\ RollupLag \in Nat
            /\ keep.raw \in Nat /\ keep.raw >= RollupLag /\ keep.trends \in Nat
        BY <3>1, RunFields, RollupAssumption DEF RollupInv, RollupTypeOK, Times
      <3>3. s <= work.at - RollupLag
        BY <3>1, <3>2
      <3>4. \/ s \in trends'[HourOf(s)]
            \/ Expired(HourOf(s), keep) /\ trends'[HourOf(s)] = {}
        BY <3>3, SummedUp DEF RollupInv
      <3>5. HourOf(s) * HourLen \in Int
        BY HourBounds, RollupAssumption DEF RollupInv, RollupTypeOK, Hours
      <3>6. Expired(HourOf(s), keep) => HourOf(s) * HourLen < horizon'
        BY <3>1, <3>2, <3>5 DEF Expired, Later
      <3> QED BY <3>4, <3>6
    <2>3. CASE ~ResetHistory /\ ~(\E keep \in Retentions : Store(keep))
      BY <2>3 DEF RollupNext, Tick, Record, Collect, LookUp, GiveUp
    <2> QED BY <2>1, <2>2, <2>3
  <1> QED BY <1>1, RollupInvariant, PTL DEF RollupSpec, CountedBeforePurged

=============================================================================
