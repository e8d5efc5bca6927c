-------------------------- MODULE CollectionProofs --------------------------
(***************************************************************************)
(* Proofs about Collection: the snapshots never say more of a counter than *)
(* it has grown since Sentinel was started, and nothing it has grown by is *)
(* lost between two samples, for any devices, failures and interleavings.  *)
(***************************************************************************)
EXTENDS CollectionInvariant, FiniteSetTheorems, TLAPS

(* The collectors, and what each of them names. *)
LEMMA SourcesAre ==
  /\ Collectors = {"disk", "network", "process"}
  /\ Sources["disk"] = Disks /\ Sources["network"] = Interfaces /\ Sources["process"] = Pids
  /\ Names = Disks \cup Interfaces \cup Pids
<1>1. /\ Collectors = {"disk", "network", "process"}
      /\ Sources["disk"] = Disks /\ Sources["network"] = Interfaces /\ Sources["process"] = Pids
  BY DEF Collectors, Sources
<1>2. Range(Sources) = {Sources[c] : c \in Collectors}
  BY DEF Range, Collectors
<1>3. \A d : d \in Names <=> \E c \in Collectors : d \in Sources[c]
  BY <1>2 DEF Names
<1>4. QED
  BY <1>1, <1>3

(* A name belongs to one collector. *)
LEMMA CollectorIs ==
  ASSUME NEW c \in Collectors, NEW d \in Sources[c]
  PROVE  d \in Names /\ \A k \in Collectors : d \in Sources[k] => k = c
  BY SourcesAre, CollectionConstants

(* Every name belongs to one. *)
LEMMA NameIs ==
  ASSUME NEW d \in Names
  PROVE  \E c \in Collectors : d \in Sources[c]
  BY SourcesAre

(* There are finitely many names. *)
LEMMA SourcesFinite ==
  ASSUME NEW c \in Collectors
  PROVE  IsFiniteSet(Sources[c])
  BY SourcesAre, CollectionConstants

(* Figures are neither of the marks of a thread without figures. *)
LEMMA FiguresAreNoMark ==
  ASSUME NEW c \in Collectors, NEW S \in SUBSET Sources[c], NEW f \in [S -> Nat]
  PROVE  f \notin {RUNNING, FAILED}
<1>1. S \in SUBSET (Disks \cup Interfaces \cup Pids)
  BY SourcesAre
<1>2. {RUNNING, FAILED} \cap [S -> Nat] = {}
  BY <1>1, CollectionConstants
<1>3. QED
  BY <1>2

(* The figures in a thread's hands are those of the name's collector. *)
LEMMA InHandIs ==
  ASSUME TypeOK, NEW c \in Collectors, NEW d \in Sources[c]
  PROVE  /\ InHand(d) = IF IsMeasured(c) /\ d \in DOMAIN results[c] THEN results[c][d] ELSE 0
         /\ d \in Measured <=> IsMeasured(c) /\ d \in DOMAIN results[c]
         /\ d \in Measured => InHand(d) = Figure(d)
         /\ InHand(d) \in Nat
<1>1. (CHOOSE k \in Collectors : d \in Sources[k]) = c
  BY CollectorIs
<1>2. \A k \in Collectors : IsMeasured(k) => IsSample(results[k], k)
  BY DEF TypeOK, IsMeasured
<1>3. d \in Measured <=> IsMeasured(c) /\ d \in DOMAIN results[c]
  <2>1. d \in Measured <=> \E k \in Collectors : IsMeasured(k) /\ d \in DOMAIN results[k]
    BY DEF Measured, IsMeasured
  <2>2. \A k \in Collectors : IsMeasured(k) /\ d \in DOMAIN results[k] => k = c
    BY <1>2, CollectorIs DEF IsSample
  <2>3. QED
    BY <2>1, <2>2
<1>4. Figure(d) = results[c][d]
  BY <1>1 DEF Figure
<1>5. IsMeasured(c) /\ d \in DOMAIN results[c] => results[c][d] \in Nat
  BY <1>2 DEF IsSample
<1>6. QED
  BY <1>3, <1>4, <1>5 DEF InHand

(* The same after a step. *)
LEMMA InHandNext ==
  ASSUME TypeOK', NEW c \in Collectors, NEW d \in Sources[c]
  PROVE  InHand(d)' = IF IsMeasured(c)' /\ d \in DOMAIN results'[c] THEN results'[c][d] ELSE 0
<1>1. (CHOOSE k \in Collectors : d \in Sources[k]) = c
  BY CollectorIs
<1>2. \A k \in Collectors : IsMeasured(k)' => IsSample(results'[k], k)
  BY DEF TypeOK, IsMeasured
<1>3. (d \in Measured)' <=> IsMeasured(c)' /\ d \in DOMAIN results'[c]
  <2>1. (d \in Measured)' <=> \E k \in Collectors : IsMeasured(k)' /\ d \in DOMAIN results'[k]
    BY DEF Measured, IsMeasured
  <2>2. \A k \in Collectors : IsMeasured(k)' /\ d \in DOMAIN results'[k] => k = c
    BY <1>2, CollectorIs DEF IsSample
  <2>3. QED
    BY <2>1, <2>2
<1>4. Figure(d)' = results'[c][d]
  BY <1>1 DEF Figure
<1>5. QED
  BY <1>3, <1>4 DEF InHand

-----------------------------------------------------------------------------
(* The steps *)

(* In the first state nothing has been read. *)
LEMMA InitInv == Init => FiguresInv
<1> SUFFICES ASSUME Init PROVE FiguresInv
  OBVIOUS
<1>1. TypeOK
  <2>1. PICK S \in SUBSET Names : host = [d \in S |-> Boot]
    BY DEF Init
  <2>2. DOMAIN host \subseteq Names /\ \A d \in DOMAIN host : host[d] \in Nat
    BY <2>1, CollectionConstants
  <2>3. moved \in [Names -> Nat] /\ counted \in [Names -> Nat] /\ dropped \in [Names -> Nat]
    BY DEF Init, Zeros
  <2>4. QED
    BY <2>2, <2>3, CollectionConstants DEF Init, TypeOK, NoFigures, IsSample
<1>2. \A c \in Collectors : previous[c] = <<>> /\ ~IsMeasured(c)
  BY DEF Init, NoFigures, IsMeasured
<1>3. Continuous /\ BaselineInv
  BY <1>2 DEF Continuous, BaselineInv, Init
<1>4. FirstInv
  BY DEF FirstInv, Init, Zeros
<1>5. BudgetInv
  <2> SUFFICES ASSUME NEW c \in Collectors, NEW d \in Sources[c]
               PROVE  counted[d] + dropped[d] + InHand(d) + Pending(c, d) <= moved[d]
    BY DEF BudgetInv
  <2>1. d \in Names /\ InHand(d) = 0
    BY <1>1, <1>2, InHandIs, CollectorIs
  <2>2. Pending(c, d) = 0
    BY <1>2 DEF Pending
  <2>3. QED
    BY <2>1, <2>2 DEF Init, Zeros
<1>6. TurnInv
  BY DEF TurnInv, Init, NoFigures
<1>7. QED
  BY <1>1, <1>3, <1>4, <1>5, <1>6 DEF FiguresInv, CollectionInv

(* What is in the threads' hands stays as long as the threads do nothing. *)
LEMMA InHandStays ==
  ASSUME UNCHANGED results, NEW d
  PROVE  InHand(d)' = InHand(d)
  BY DEF InHand, Measured, Figure

(* The host alone can only let a counter grow, lose a name or start it anew: *)
(* what is pending grows by no more than the counter moves.                *)
LEMMA HostInv ==
  ASSUME FiguresInv, UNCHANGED <<collectorVars, figureVars, first, misread>>,
         DOMAIN host' \subseteq Names, \A d \in DOMAIN host' : host'[d] \in Nat,
         moved' \in [Names -> Nat], broken \subseteq broken', broken' \subseteq Names,
         faults' \in 0 .. MaxFaults,
         \A d \in DOMAIN host \ broken' : d \in DOMAIN host' /\ host'[d] >= host[d],
         \A d \in Names : moved'[d] >= moved[d],
         \A d \in DOMAIN host' :
           \/ d \in DOMAIN host /\ host'[d] - host[d] <= moved'[d] - moved[d]
           \/ host'[d] = 0
  PROVE  FiguresInv'
<1>1. UNCHANGED <<previous, results, counted, dropped, cycles, first, misread>>
  BY DEF collectorVars, figureVars
<1>2. TypeOK /\ Continuous /\ BaselineInv /\ FirstInv /\ BudgetInv /\ TurnInv
  BY DEF FiguresInv, CollectionInv
<1>3. TypeOK'
  BY <1>1, <1>2 DEF TypeOK, IsSample
<1>4. Continuous' /\ FirstInv' /\ TurnInv'
  BY <1>1, <1>2, InHandStays DEF Continuous, FirstInv, TurnInv
<1>5. BaselineInv'
  <2> SUFFICES ASSUME NEW c \in Collectors
               PROVE  /\ IsMeasured(c)' => DOMAIN results'[c] = DOMAIN previous'[c]
                      /\ DOMAIN previous'[c] \subseteq DOMAIN first'
                      /\ (DOMAIN first' \cap Sources[c]) \ broken' \subseteq DOMAIN previous'[c]
                      /\ \A d \in DOMAIN previous'[c] \ broken' :
                           d \in DOMAIN host' /\ previous'[c][d] <= host'[d]
    BY DEF BaselineInv
  <2>1. /\ IsMeasured(c)' => DOMAIN results'[c] = DOMAIN previous'[c]
        /\ DOMAIN previous'[c] \subseteq DOMAIN first'
        /\ (DOMAIN first' \cap Sources[c]) \ broken' \subseteq DOMAIN previous'[c]
    BY <1>1, <1>2 DEF BaselineInv, IsMeasured
  <2>2. ASSUME NEW d \in DOMAIN previous'[c] \ broken'
        PROVE  d \in DOMAIN host' /\ previous'[c][d] <= host'[d]
    <3>1. d \in DOMAIN host /\ previous[c][d] <= host[d]
      BY <1>1, <1>2, <2>2 DEF BaselineInv
    <3>2. d \in DOMAIN host' /\ host'[d] >= host[d]
      BY <2>2, <3>1
    <3>3. host[d] \in Nat /\ host'[d] \in Nat /\ previous[c][d] \in Nat
      BY <1>1, <1>2, <2>2, <3>1, <3>2 DEF TypeOK, IsSample
    <3>4. QED
      BY <1>1, <3>1, <3>2, <3>3
  <2>3. QED
    BY <2>1, <2>2
<1>6. BudgetInv'
  <2> SUFFICES ASSUME NEW c \in Collectors, NEW d \in Sources[c] \ misread'
               PROVE  counted'[d] + dropped'[d] + InHand(d)' + Pending(c, d)' <= moved'[d]
    BY DEF BudgetInv
  <2>1. d \in Sources[c] /\ d \in Names /\ d \notin misread
    BY <1>1, CollectorIs
  <2>2. counted[d] + dropped[d] + InHand(d) + Pending(c, d) <= moved[d]
    BY <1>2, <2>1 DEF BudgetInv
  <2>3. /\ counted[d] \in Nat /\ dropped[d] \in Nat /\ moved[d] \in Nat /\ moved'[d] \in Nat
        /\ InHand(d) \in Nat
    BY <1>2, <2>1, InHandIs DEF TypeOK
  <2>4. /\ d \in DOMAIN host => host[d] \in Nat
        /\ d \in DOMAIN previous[c] => previous[c][d] \in Nat
    BY <1>2 DEF TypeOK, IsSample
  <2>5. Pending(c, d) \in Nat
    BY <2>4 DEF Pending, Less
  <2>6. moved'[d] >= moved[d]
    BY <2>1
  <2>7. Pending(c, d)' - Pending(c, d) <= moved'[d] - moved[d] /\ Pending(c, d)' \in Nat
    <3>1. CASE d \in DOMAIN host' /\ d \in DOMAIN previous[c]
      <4>1. Pending(c, d)' = Less(host'[d], previous[c][d])
        BY <1>1, <3>1 DEF Pending
      <4>2. CASE d \in DOMAIN host /\ host'[d] - host[d] <= moved'[d] - moved[d]
        <5>1. Pending(c, d) = Less(host[d], previous[c][d])
          BY <3>1, <4>2 DEF Pending
        <5>2. QED
          BY <2>3, <2>4, <2>6, <3>1, <4>1, <4>2, <5>1 DEF Less
      <4>3. CASE host'[d] = 0
        <5>1. Pending(c, d)' = 0
          BY <2>4, <3>1, <4>1, <4>3 DEF Less
        <5>2. QED
          BY <2>3, <2>5, <2>6, <5>1
      <4>4. QED
        BY <3>1, <4>2, <4>3
    <3>2. CASE ~(d \in DOMAIN host' /\ d \in DOMAIN previous[c])
      <4>1. Pending(c, d)' = 0
        BY <1>1, <3>2 DEF Pending
      <4>2. QED
        BY <2>3, <2>5, <2>6, <4>1
    <3>3. QED
      BY <3>1, <3>2
  <2>8. counted'[d] = counted[d] /\ dropped'[d] = dropped[d] /\ InHand(d)' = InHand(d)
    BY <1>1, InHandStays
  <2>9. QED
    BY <2>2, <2>3, <2>5, <2>7, <2>8
<1>7. QED
  BY <1>3, <1>4, <1>5, <1>6 DEF FiguresInv, CollectionInv

(* A counter grows, a name vanishes or appears. *)
LEMMA HostSteps ==
  ASSUME FiguresInv, NEW d \in Names, Move(d) \/ Vanish(d) \/ Appear(d)
  PROVE  FiguresInv'
<1>1. TypeOK
  BY DEF FiguresInv, CollectionInv
<1>2. CASE Move(d)
  <2>1. /\ d \in DOMAIN host /\ host' = [host EXCEPT ![d] = @ + 1]
        /\ moved' = [moved EXCEPT ![d] = @ + 1]
        /\ UNCHANGED <<collectorVars, figureVars, first, broken, misread, faults>>
    BY <1>2 DEF Move
  <2>2. /\ DOMAIN host' = DOMAIN host /\ \A x \in DOMAIN host : host[x] \in Nat
        /\ moved \in [Names -> Nat] /\ faults \in 0 .. MaxFaults /\ broken \subseteq Names
        /\ DOMAIN host \subseteq Names
    BY <1>1, <2>1 DEF TypeOK
  <2>3. \A x \in DOMAIN host : host'[x] = IF x = d THEN host[x] + 1 ELSE host[x]
    BY <2>1
  <2>4. \A x \in Names : moved'[x] = IF x = d THEN moved[x] + 1 ELSE moved[x]
    BY <2>1, <2>2
  <2>5. moved' \in [Names -> Nat]
    BY <2>1, <2>2
  <2>6. \A x \in DOMAIN host' : host'[x] \in Nat /\ host'[x] >= host[x]
    BY <2>2, <2>3
  <2>7. \A x \in DOMAIN host' : host'[x] - host[x] <= moved'[x] - moved[x]
    BY <2>2, <2>3, <2>4
  <2>8. \A x \in Names : moved'[x] >= moved[x]
    BY <2>2, <2>4
  <2>9. QED
    BY <2>1, <2>2, <2>5, <2>6, <2>7, <2>8, HostInv
<1>3. CASE Vanish(d)
  <2>1. /\ host' = Restrict(host, DOMAIN host \ {d}) /\ broken' = broken \cup {d}
        /\ UNCHANGED <<collectorVars, moved, figureVars, first, misread>>
        /\ faults + 1 <= MaxFaults /\ faults' = faults + 1
    BY <1>3 DEF Vanish, Fault
  <2>2. DOMAIN host' = DOMAIN host \ {d} /\ \A x \in DOMAIN host' : host'[x] = host[x]
    BY <2>1 DEF Restrict
  <2>3. /\ DOMAIN host \subseteq Names /\ \A x \in DOMAIN host : host[x] \in Nat
        /\ moved \in [Names -> Nat] /\ broken \subseteq Names /\ faults \in Nat
    BY <1>1, CollectionConstants DEF TypeOK
  <2>4. faults' \in 0 .. MaxFaults
    BY <2>1, <2>3, CollectionConstants
  <2>5. ASSUME NEW x \in DOMAIN host'
        PROVE  host'[x] \in Nat /\ host'[x] >= host[x] /\ host'[x] - host[x] <= moved'[x] - moved[x]
    <3>1. host'[x] = host[x] /\ host[x] \in Nat /\ moved'[x] = moved[x] /\ moved[x] \in Nat
      BY <2>1, <2>2, <2>3
    <3>2. QED
      BY <3>1
  <2>6. \A x \in DOMAIN host \ broken' : x \in DOMAIN host' /\ host'[x] >= host[x]
    BY <2>1, <2>2, <2>5
  <2>7. \A x \in Names : moved'[x] >= moved[x]
    BY <2>1, <2>3
  <2>8. QED
    BY <2>1, <2>2, <2>3, <2>4, <2>5, <2>6, <2>7, HostInv
<1>4. CASE Appear(d)
  <2>1. /\ d \notin DOMAIN host
        /\ host' = [x \in DOMAIN host \cup {d} |-> IF x = d THEN 0 ELSE host[x]]
        /\ UNCHANGED <<collectorVars, moved, figureVars, first, broken, misread, faults>>
    BY <1>4 DEF Appear
  <2>2. /\ DOMAIN host \subseteq Names /\ \A x \in DOMAIN host : host[x] \in Nat
        /\ moved \in [Names -> Nat] /\ broken \subseteq Names /\ faults \in 0 .. MaxFaults
    BY <1>1 DEF TypeOK
  <2>3. /\ DOMAIN host' = DOMAIN host \cup {d} /\ host'[d] = 0
        /\ \A x \in DOMAIN host : host'[x] = host[x]
    BY <2>1
  <2>4. \A x \in DOMAIN host : host'[x] >= host[x] /\ host'[x] - host[x] <= moved'[x] - moved[x]
    BY <2>1, <2>2, <2>3
  <2>5. \A x \in Names : moved'[x] >= moved[x]
    BY <2>1, <2>2
  <2>6. \A x \in DOMAIN host' : host'[x] \in Nat
    BY <2>2, <2>3
  <2>7. QED
    BY <2>1, <2>2, <2>3, <2>4, <2>5, <2>6, HostInv
<1>5. QED
  BY <1>2, <1>3, <1>4

(* A sample of a collector: the names that it does not see, or takes for 0, *)
(* are broken, and for the others it measures what was pending.            *)
LEMMA SampleInv ==
  ASSUME FiguresInv, NEW c \in Collectors, NEW r, r.seen \subseteq Present(c),
         r.zero \subseteq r.seen, r.zero \subseteq Interfaces, Sample(c, r)
  PROVE  FiguresInv'
<1>1. TypeOK /\ Continuous /\ BaselineInv /\ FirstInv /\ BudgetInv
  BY DEF FiguresInv, CollectionInv
<1> DEFINE now == [d \in r.seen |-> IF d \in r.zero THEN 0 ELSE host[d]]
           new == r.seen \ DOMAIN first
           unseen == Present(c) \ r.seen
           G == Growth(previous[c], now)
<1>2. /\ results[c] = RUNNING
      /\ results' = [results EXCEPT ![c] = G]
      /\ previous' = [previous EXCEPT ![c] = now]
      /\ first' = [d \in DOMAIN first \cup new |-> IF d \in new THEN now[d] ELSE first[d]]
      /\ misread' = misread \cup r.zero
      /\ broken' = broken \cup r.zero \cup unseen
      /\ faults' = faults + (Cardinality(r.zero) + Cardinality(unseen)) /\ faults' <= MaxFaults
      /\ UNCHANGED <<host, moved, counted, dropped, cycles>>
  BY DEF Sample, Fault, figureVars
<1>3. r.seen \subseteq Sources[c] /\ r.seen \subseteq DOMAIN host /\ unseen \subseteq Sources[c]
  BY DEF Present
<1>4. /\ DOMAIN now = r.seen
      /\ \A d \in r.seen : now[d] = IF d \in r.zero THEN 0 ELSE host[d]
      /\ \A d \in r.seen : now[d] \in Nat
  BY <1>1, <1>3 DEF TypeOK
<1>5. \A d \in DOMAIN previous[c] : previous[c][d] \in Nat
  BY <1>1 DEF TypeOK, IsSample
<1>6. /\ G \in [r.seen -> Nat]
      /\ \A d \in r.seen : G[d] = Less(now[d], IF d \in DOMAIN previous[c] THEN previous[c][d] ELSE now[d])
  BY <1>4, <1>5 DEF Growth, Less
<1> HIDE DEF now, G
<1>7. /\ DOMAIN results' = Collectors /\ DOMAIN previous' = Collectors
      /\ results'[c] = G /\ previous'[c] = now
      /\ \A k \in Collectors : k # c => results'[k] = results[k] /\ previous'[k] = previous[k]
  BY <1>1, <1>2 DEF TypeOK
<1>8. IsMeasured(c)' /\ ~IsMeasured(c) /\ \A k \in Collectors : k # c => (IsMeasured(k)' <=> IsMeasured(k))
  BY <1>2, <1>3, <1>6, <1>7, FiguresAreNoMark DEF IsMeasured
<1>9. \A k \in Collectors : Sources[k] \subseteq Names
  BY CollectorIs
<1>10. TypeOK'
  <2>1. \A k \in Collectors : IsSample(previous[k], k)' /\ (results[k] \in {RUNNING, FAILED} \/ IsSample(results[k], k))'
    <3> SUFFICES ASSUME NEW k \in Collectors
                 PROVE  /\ IsSample(previous'[k], k)
                        /\ results'[k] \in {RUNNING, FAILED} \/ IsSample(results'[k], k)
      OBVIOUS
    <3>1. CASE k = c
      BY <1>3, <1>4, <1>6, <1>7, <3>1 DEF IsSample
    <3>2. CASE k # c
      BY <1>1, <1>7, <3>2 DEF TypeOK
    <3>3. QED
      BY <3>1, <3>2
  <2>2. DOMAIN first' \subseteq Names /\ \A d \in DOMAIN first' : first'[d] \in Nat
    BY <1>1, <1>2, <1>3, <1>4, <1>9 DEF TypeOK
  <2>3. broken' \subseteq Names /\ misread' \subseteq Interfaces
    BY <1>1, <1>2, <1>3, <1>9 DEF TypeOK
  <2>4. faults' \in 0 .. MaxFaults
    <3>1. IsFiniteSet(r.zero) /\ IsFiniteSet(unseen)
      BY <1>3, SourcesFinite, FS_Subset
    <3>2. Cardinality(r.zero) \in Nat /\ Cardinality(unseen) \in Nat
      BY <3>1, FS_CardinalityType
    <3>3. faults \in Nat
      BY <1>1 DEF TypeOK
    <3>4. QED
      BY <1>2, <3>2, <3>3, CollectionConstants
  <2>5. QED
    BY <1>1, <1>2, <1>7, <2>1, <2>2, <2>3, <2>4 DEF TypeOK
<1>11. ASSUME NEW k \in Collectors, NEW d \in Sources[k]
       PROVE  /\ InHand(d)' = IF k = c THEN IF d \in r.seen THEN G[d] ELSE 0 ELSE InHand(d)
              /\ k = c => InHand(d) = 0
  BY <1>1, <1>6, <1>7, <1>8, <1>10, InHandIs, InHandNext
<1>12. \A k \in Collectors : \A d \in Sources[k] : k # c => d \notin r.seen /\ d \notin unseen
  BY <1>3, CollectorIs
<1>13. Continuous'
  <2> SUFFICES ASSUME NEW k \in Collectors, NEW d \in DOMAIN previous'[k] \ broken'
               PROVE  d \in DOMAIN first' /\ first'[d] + counted'[d] + dropped'[d] + InHand(d)' = previous'[k][d]
    BY DEF Continuous
  <2>1. d \in Sources[k] /\ d \in Names
    BY <1>9, <1>10 DEF TypeOK, IsSample
  <2>2. d \notin broken /\ d \notin r.zero /\ d \notin unseen
    BY <1>2
  <2>3. CASE k # c
    <3>1. d \in DOMAIN first /\ first[d] + counted[d] + dropped[d] + InHand(d) = previous[k][d]
      BY <1>1, <1>7, <2>2, <2>3 DEF Continuous
    <3>2. d \in DOMAIN first' /\ first'[d] = first[d]
      BY <1>2, <3>1
    <3>3. QED
      BY <1>2, <1>7, <1>11, <2>1, <2>3, <3>1, <3>2
  <2>4. CASE k = c
    <3>1. d \in r.seen /\ now[d] = host[d] /\ host[d] \in Nat /\ InHand(d)' = G[d] /\ InHand(d) = 0
      BY <1>4, <1>7, <1>11, <2>1, <2>2, <2>4
    <3>2. previous'[k][d] = now[d]
      BY <1>7, <2>4
    <3>3. counted[d] \in Nat /\ dropped[d] \in Nat
      BY <1>1, <2>1 DEF TypeOK
    <3>4. CASE d \in DOMAIN first
      <4>1. d \in DOMAIN previous[c] /\ previous[c][d] <= host[d]
        BY <1>1, <2>1, <2>2, <2>4, <3>4 DEF BaselineInv
      <4>2. first[d] + counted[d] + dropped[d] + 0 = previous[c][d]
        BY <1>1, <2>2, <3>1, <4>1 DEF Continuous
      <4>3. d \in DOMAIN first' /\ first'[d] = first[d]
        BY <1>2, <3>4
      <4>4. first[d] \in Nat /\ previous[c][d] \in Nat
        BY <1>1, <1>5, <3>4, <4>1 DEF TypeOK
      <4>5. G[d] = host[d] - previous[c][d]
        BY <1>6, <3>1, <4>1, <4>4 DEF Less
      <4>6. QED
        BY <1>2, <3>1, <3>2, <3>3, <4>2, <4>3, <4>4, <4>5
    <3>5. CASE d \notin DOMAIN first
      <4>1. d \notin DOMAIN previous[c] /\ counted[d] = 0 /\ dropped[d] = 0
        BY <1>1, <2>1, <3>5 DEF BaselineInv, FirstInv
      <4>2. G[d] = 0
        BY <1>6, <3>1, <4>1 DEF Less
      <4>3. d \in DOMAIN first' /\ first'[d] = now[d]
        BY <1>2, <3>1, <3>5
      <4>4. QED
        BY <1>2, <3>1, <3>2, <4>1, <4>2, <4>3
    <3>6. QED
      BY <3>4, <3>5
  <2>5. QED
    BY <2>3, <2>4
<1>14. BaselineInv'
  <2> SUFFICES ASSUME NEW k \in Collectors
               PROVE  /\ IsMeasured(k)' => DOMAIN results'[k] = DOMAIN previous'[k]
                      /\ DOMAIN previous'[k] \subseteq DOMAIN first'
                      /\ (DOMAIN first' \cap Sources[k]) \ broken' \subseteq DOMAIN previous'[k]
                      /\ \A d \in DOMAIN previous'[k] \ broken' :
                           d \in DOMAIN host' /\ previous'[k][d] <= host'[d]
    BY DEF BaselineInv
  <2>1. CASE k = c
    <3>1. DOMAIN results'[k] = r.seen /\ DOMAIN previous'[k] = r.seen
      BY <1>4, <1>6, <1>7, <2>1
    <3>2. r.seen \subseteq DOMAIN first'
      BY <1>2
    <3>3. ASSUME NEW d \in (DOMAIN first' \cap Sources[k]) \ broken'
          PROVE  d \in r.seen
      <4>1. CASE d \in DOMAIN first
        <5>1. d \in DOMAIN previous[c] /\ d \in DOMAIN host
          BY <1>1, <1>2, <2>1, <3>3, <4>1 DEF BaselineInv
        <5>2. d \in Present(c)
          BY <2>1, <5>1 DEF Present
        <5>3. QED
          BY <1>2, <5>2
      <4>2. CASE d \notin DOMAIN first
        BY <1>2, <4>2
      <4>3. QED
        BY <4>1, <4>2
    <3>4. ASSUME NEW d \in r.seen \ broken'
          PROVE  d \in DOMAIN host' /\ previous'[k][d] <= host'[d]
      <4>1. now[d] = host[d] /\ host[d] \in Nat /\ d \in DOMAIN host
        BY <1>2, <1>3, <1>4
      <4>2. QED
        BY <1>2, <1>7, <2>1, <4>1
    <3>5. QED
      BY <3>1, <3>2, <3>3, <3>4
  <2>2. CASE k # c
    <3>1. /\ IsMeasured(k)' => DOMAIN results'[k] = DOMAIN previous'[k]
          /\ DOMAIN previous'[k] \subseteq DOMAIN first
          /\ (DOMAIN first \cap Sources[k]) \ broken \subseteq DOMAIN previous'[k]
          /\ \A d \in DOMAIN previous'[k] \ broken : d \in DOMAIN host /\ previous'[k][d] <= host[d]
      BY <1>1, <1>7, <1>8, <2>2 DEF BaselineInv
    <3>2. DOMAIN first \subseteq DOMAIN first' /\ DOMAIN first' \cap Sources[k] \subseteq DOMAIN first
      BY <1>2, <1>12, <2>2
    <3>3. broken \subseteq broken' /\ host' = host
      BY <1>2
    <3>4. QED
      BY <3>1, <3>2, <3>3
  <2>3. QED
    BY <2>1, <2>2
<1>15. FirstInv'
  BY <1>1, <1>2 DEF FirstInv
<1>16. BudgetInv'
  <2> SUFFICES ASSUME NEW k \in Collectors, NEW d \in Sources[k] \ misread'
               PROVE  counted'[d] + dropped'[d] + InHand(d)' + Pending(k, d)' <= moved'[d]
    BY DEF BudgetInv
  <2>1. d \in Sources[k] /\ d \in Names /\ d \notin misread /\ d \notin r.zero
    BY <1>2, CollectorIs
  <2>2. counted[d] + dropped[d] + InHand(d) + Pending(k, d) <= moved[d]
    BY <1>1, <2>1 DEF BudgetInv
  <2>3. CASE k # c
    <3>1. Pending(k, d)' = Pending(k, d)
      BY <1>2, <1>7, <2>3 DEF Pending
    <3>2. QED
      BY <1>2, <1>11, <2>1, <2>2, <2>3, <3>1
  <2>4. CASE k = c
    <3>1. counted[d] \in Nat /\ dropped[d] \in Nat /\ moved[d] \in Nat /\ InHand(d) = 0
      BY <1>1, <1>11, <2>1, <2>4 DEF TypeOK
    <3>2. d \in DOMAIN host => host[d] \in Nat
      BY <1>1 DEF TypeOK
    <3>3. CASE d \in r.seen
      <4>1. d \in DOMAIN host /\ now[d] = host[d] /\ InHand(d)' = G[d]
        BY <1>3, <1>4, <1>11, <2>1, <2>4, <3>3
      <4>2. Pending(k, d)' = 0
        BY <1>2, <1>7, <2>4, <3>2, <4>1 DEF Pending, Less
      <4>3. G[d] = Pending(k, d) /\ G[d] \in Nat
        BY <1>5, <1>6, <2>4, <3>2, <3>3, <4>1 DEF Pending, Less
      <4>4. QED
        BY <1>2, <2>2, <3>1, <4>1, <4>2, <4>3
    <3>4. CASE d \notin r.seen
      <4>1. InHand(d)' = 0
        BY <1>11, <2>1, <2>4, <3>4
      <4>2. Pending(k, d)' = 0
        BY <1>4, <1>7, <2>4, <3>4 DEF Pending
      <4>3. Pending(k, d) \in Nat
        BY <1>5, <2>4, <3>2 DEF Pending, Less
      <4>4. QED
        BY <1>2, <2>2, <3>1, <4>1, <4>2, <4>3
    <3>5. QED
      BY <3>3, <3>4
  <2>5. QED
    BY <2>3, <2>4
<1>17. TurnInv'
  <2>1. cycles' = cycles /\ cycles < MaxCycles
    BY <1>2 DEF Sample
  <2>2. QED
    BY <2>1 DEF TurnInv
<1>18. QED
  BY <1>10, <1>13, <1>14, <1>15, <1>16, <1>17 DEF FiguresInv, CollectionInv

(* A collector that fails has nothing in its hands, as before. *)
LEMMA SampleFailsInv ==
  ASSUME FiguresInv, NEW c \in Collectors, Sample_Fails(c)
  PROVE  FiguresInv'
<1>1. TypeOK /\ Continuous /\ BaselineInv /\ FirstInv /\ BudgetInv /\ TurnInv
  BY DEF FiguresInv, CollectionInv
<1>2. /\ results[c] = RUNNING /\ results' = [results EXCEPT ![c] = FAILED]
      /\ cycles < MaxCycles /\ faults + 1 <= MaxFaults /\ faults' = faults + 1
      /\ UNCHANGED <<host, previous, moved, counted, dropped, cycles, first, broken, misread>>
  BY DEF Sample_Fails, Fault, figureVars
<1>3. /\ DOMAIN results' = Collectors /\ results'[c] = FAILED
      /\ \A k \in Collectors : k # c => results'[k] = results[k]
  BY <1>1, <1>2 DEF TypeOK
<1>4. ~IsMeasured(c) /\ ~IsMeasured(c)' /\ \A k \in Collectors : k # c => (IsMeasured(k)' <=> IsMeasured(k))
  BY <1>2, <1>3 DEF IsMeasured
<1>5. TypeOK'
  <2>1. \A k \in Collectors : IsSample(previous'[k], k) /\ (results'[k] \in {RUNNING, FAILED} \/ IsSample(results'[k], k))
    BY <1>1, <1>2, <1>3 DEF TypeOK
  <2>2. faults' \in 0 .. MaxFaults
    <3>1. faults \in Nat
      BY <1>1 DEF TypeOK
    <3>2. QED
      BY <1>2, <3>1, CollectionConstants
  <2>3. QED
    BY <1>1, <1>2, <1>3, <2>1, <2>2 DEF TypeOK
<1>6. \A k \in Collectors : \A d \in Sources[k] : InHand(d)' = InHand(d)
  BY <1>1, <1>3, <1>4, <1>5, InHandIs, InHandNext
<1>7. Continuous'
  <2>1. \A k \in Collectors : DOMAIN previous[k] \subseteq Sources[k]
    BY <1>1 DEF TypeOK, IsSample
  <2>2. QED
    BY <1>1, <1>2, <1>6, <2>1 DEF Continuous
<1>8. BaselineInv' /\ FirstInv'
  BY <1>1, <1>2, <1>3, <1>4 DEF BaselineInv, FirstInv
<1>9. BudgetInv'
  BY <1>1, <1>2, <1>6 DEF BudgetInv, Pending
<1>10. TurnInv'
  BY <1>2 DEF TurnInv
<1>11. QED
  BY <1>5, <1>7, <1>8, <1>9, <1>10 DEF FiguresInv, CollectionInv

(* The end of a collection: what was in hand is said or dropped, once. *)
LEMMA JoinInv ==
  ASSUME FiguresInv, UNCHANGED <<host, previous, moved, first, broken, misread, faults>>,
         Joined, results' = NoFigures, cycles' = cycles + 1,
         counted' \in [Names -> Nat], dropped' \in [Names -> Nat],
         \A d \in Names : counted'[d] + dropped'[d] = counted[d] + dropped[d] + InHand(d)
  PROVE  FiguresInv'
<1>1. TypeOK /\ Continuous /\ BaselineInv /\ FirstInv /\ BudgetInv /\ TurnInv
  BY DEF FiguresInv, CollectionInv
<1>2. DOMAIN results' = Collectors /\ \A c \in Collectors : results'[c] = RUNNING /\ ~IsMeasured(c)'
  BY DEF NoFigures, IsMeasured
<1>3. cycles' \in 0 .. MaxCycles
  <2>1. results["disk"] # RUNNING /\ "disk" \in Collectors
    BY SourcesAre DEF Joined
  <2>2. cycles < MaxCycles /\ cycles \in Nat
    BY <1>1, <2>1 DEF TurnInv, TypeOK
  <2>3. QED
    BY <2>2, CollectionConstants
<1>4. TypeOK'
  BY <1>1, <1>2, <1>3 DEF TypeOK, IsSample
<1>5. \A c \in Collectors : \A d \in Sources[c] : InHand(d)' = 0 /\ d \in Names
  BY <1>2, <1>4, InHandNext, CollectorIs
<1>6. \A d \in Names : /\ counted[d] \in Nat /\ dropped[d] \in Nat /\ InHand(d) \in Nat
                       /\ counted'[d] \in Nat /\ dropped'[d] \in Nat /\ moved[d] \in Nat
  BY <1>1, NameIs, InHandIs DEF TypeOK
<1>7. Continuous'
  <2> SUFFICES ASSUME NEW c \in Collectors, NEW d \in DOMAIN previous[c] \ broken
               PROVE  d \in DOMAIN first /\ first[d] + counted'[d] + dropped'[d] + InHand(d)' = previous[c][d]
    BY DEF Continuous
  <2>1. d \in Sources[c]
    BY <1>1 DEF TypeOK, IsSample
  <2>2. d \in DOMAIN first /\ first[d] + counted[d] + dropped[d] + InHand(d) = previous[c][d]
    BY <1>1 DEF Continuous
  <2>3. first[d] \in Nat
    BY <1>1, <2>2 DEF TypeOK
  <2>4. counted'[d] + dropped'[d] = counted[d] + dropped[d] + InHand(d)
    BY <1>5, <2>1
  <2>5. /\ counted[d] \in Nat /\ dropped[d] \in Nat /\ InHand(d) \in Nat
        /\ counted'[d] \in Nat /\ dropped'[d] \in Nat /\ InHand(d)' = 0
    BY <1>5, <1>6, <2>1
  <2>6. first[d] + counted'[d] + dropped'[d] + InHand(d)' = first[d] + counted[d] + dropped[d] + InHand(d)
    BY <2>3, <2>4, <2>5
  <2>7. QED
    BY <2>2, <2>6
<1>8. BaselineInv' /\ TurnInv'
  BY <1>1, <1>2 DEF BaselineInv, TurnInv
<1>9. FirstInv'
  <2> SUFFICES ASSUME NEW d \in Names \ DOMAIN first
               PROVE  counted'[d] = 0 /\ dropped'[d] = 0
    BY DEF FirstInv
  <2>1. PICK c \in Collectors : d \in Sources[c]
    BY NameIs
  <2>2. ~(IsMeasured(c) /\ d \in DOMAIN results[c])
    BY <1>1, <2>1 DEF BaselineInv
  <2>3. InHand(d) = 0
    BY <1>1, <2>1, <2>2, InHandIs
  <2>4. counted[d] = 0 /\ dropped[d] = 0
    BY <1>1 DEF FirstInv
  <2>5. counted'[d] + dropped'[d] = 0
    BY <2>3, <2>4
  <2>6. QED
    BY <1>6, <2>5
<1>10. BudgetInv'
  <2> SUFFICES ASSUME NEW c \in Collectors, NEW d \in Sources[c] \ misread
               PROVE  counted'[d] + dropped'[d] + InHand(d)' + Pending(c, d)' <= moved[d]
    BY DEF BudgetInv
  <2>1. d \in Names /\ InHand(d)' = 0
    BY <1>5
  <2>2. counted[d] + dropped[d] + InHand(d) + Pending(c, d) <= moved[d]
    BY <1>1 DEF BudgetInv
  <2>3. Pending(c, d)' = Pending(c, d)
    BY DEF Pending
  <2>4. Pending(c, d) \in Nat
    <3>1. d \in DOMAIN host => host[d] \in Nat
      BY <1>1 DEF TypeOK
    <3>2. d \in DOMAIN previous[c] => previous[c][d] \in Nat
      BY <1>1 DEF TypeOK, IsSample
    <3>3. QED
      BY <3>1, <3>2 DEF Pending, Less
  <2>5. counted'[d] + dropped'[d] = counted[d] + dropped[d] + InHand(d)
    BY <2>1
  <2>6. QED
    BY <1>6, <2>1, <2>2, <2>3, <2>4, <2>5
<1>11. QED
  BY <1>4, <1>7, <1>8, <1>9, <1>10 DEF FiguresInv, CollectionInv

(* Sums of figures are sums. *)
LEMMA AddIs ==
  ASSUME TypeOK, NEW f \in [Names -> Nat], NEW S \in SUBSET Measured
  PROVE  /\ Add(f, S) \in [Names -> Nat]
         /\ \A d \in Names : Add(f, S)[d] = f[d] + IF d \in S THEN InHand(d) ELSE 0
<1>1. \A d \in Names : d \in Measured => InHand(d) = Figure(d) /\ InHand(d) \in Nat
  BY NameIs, InHandIs
<1>2. \A d \in Names : Add(f, S)[d] = f[d] + IF d \in S THEN InHand(d) ELSE 0
  BY <1>1 DEF Add
<1>3. \A d \in Names : Add(f, S)[d] \in Nat
  BY <1>1, <1>2
<1>4. QED
  BY <1>2, <1>3 DEF Add

(* A snapshot says what it shows, and drops the processes that it does not. *)
LEMMA CollectedInv ==
  ASSUME FiguresInv, Collected
  PROVE  FiguresInv'
<1>1. TypeOK
  BY DEF FiguresInv, CollectionInv
<1>2. PICK S \in Shown("process") :
        /\ counted' = Add(counted, S \cup (Measured \ Pids))
        /\ dropped' = Add(dropped, Measured \ (S \cup (Measured \ Pids)))
  BY DEF Collected
<1>3. S \subseteq DOMAIN results["process"]
  BY DEF Shown, kSubset
<1>4. "process" \in Collectors /\ IsMeasured("process")
  BY SourcesAre DEF Collected, Joined, IsMeasured
<1>5. S \subseteq Measured
  BY <1>3, <1>4 DEF Measured, IsMeasured
<1> DEFINE shown == S \cup (Measured \ Pids)
<1>6. shown \in SUBSET Measured /\ Measured \ shown \in SUBSET Measured
  BY <1>5
<1>7. counted' = Add(counted, shown) /\ dropped' = Add(dropped, Measured \ shown)
  BY <1>2
<1> HIDE DEF shown
<1>8. counted \in [Names -> Nat] /\ dropped \in [Names -> Nat]
  BY <1>1 DEF TypeOK
<1>9. /\ counted' \in [Names -> Nat]
      /\ \A d \in Names : counted'[d] = counted[d] + IF d \in shown THEN InHand(d) ELSE 0
  BY <1>1, <1>6, <1>7, <1>8, AddIs
<1>10. /\ dropped' \in [Names -> Nat]
       /\ \A d \in Names : dropped'[d] = dropped[d] + IF d \in Measured \ shown THEN InHand(d) ELSE 0
  BY <1>1, <1>6, <1>7, <1>8, AddIs
<1>11. ASSUME NEW d \in Names
       PROVE  counted'[d] + dropped'[d] = counted[d] + dropped[d] + InHand(d)
  <2>1. counted[d] \in Nat /\ dropped[d] \in Nat /\ InHand(d) \in Nat
    BY <1>1, <1>8, NameIs, InHandIs
  <2>2. d \notin Measured => InHand(d) = 0
    BY DEF InHand
  <2>3. QED
    BY <1>6, <1>9, <1>10, <2>1, <2>2
<1>12. /\ UNCHANGED <<host, previous, moved, first, broken, misread, faults>>
       /\ Joined /\ results' = NoFigures /\ cycles' = cycles + 1
  BY DEF Collected
<1>13. QED
  BY <1>9, <1>10, <1>11, <1>12, JoinInv

(* A collection that fails drops what was in hand. *)
LEMMA CollectedFailsInv ==
  ASSUME FiguresInv, Collected_Fails
  PROVE  FiguresInv'
<1>1. TypeOK
  BY DEF FiguresInv, CollectionInv
<1>2. /\ UNCHANGED <<host, previous, moved, counted, first, broken, misread, faults>>
      /\ Joined /\ results' = NoFigures /\ cycles' = cycles + 1 /\ dropped' = Add(dropped, Measured)
  BY DEF Collected_Fails
<1>3. counted \in [Names -> Nat] /\ dropped \in [Names -> Nat]
  BY <1>1 DEF TypeOK
<1>4. /\ dropped' \in [Names -> Nat]
      /\ \A d \in Names : dropped'[d] = dropped[d] + IF d \in Measured THEN InHand(d) ELSE 0
  BY <1>1, <1>2, <1>3, AddIs
<1>5. ASSUME NEW d \in Names
      PROVE  counted'[d] + dropped'[d] = counted[d] + dropped[d] + InHand(d)
  <2>1. counted[d] \in Nat /\ dropped[d] \in Nat /\ InHand(d) \in Nat
    BY <1>1, <1>3, NameIs, InHandIs
  <2>2. d \notin Measured => InHand(d) = 0
    BY DEF InHand
  <2>3. QED
    BY <1>2, <1>4, <2>1, <2>2
<1>6. QED
  BY <1>2, <1>3, <1>4, <1>5, JoinInv

(* Every step. *)
LEMMA NextInv == FiguresInv /\ [Next]_vars => FiguresInv'
<1> SUFFICES ASSUME FiguresInv, [Next]_vars PROVE FiguresInv'
  OBVIOUS
<1>1. ASSUME NEW d \in Names, Move(d) \/ Vanish(d) \/ Appear(d) PROVE FiguresInv'
  BY <1>1, HostSteps
<1>2. CASE Disk_Collect \/ Network_Collect \/ Process_Collect
  <2>1. PICK c \in Collectors : \E seen \in SUBSET Present(c) : \E zero \in SUBSET seen :
          Sample(c, [seen |-> seen, zero |-> zero]) /\ (zero = {} \/ c = "network")
    <3>1. CASE Disk_Collect
      BY <3>1, SourcesAre DEF Disk_Collect
    <3>2. CASE Network_Collect
      BY <3>2, SourcesAre DEF Network_Collect
    <3>3. CASE Process_Collect
      BY <3>3, SourcesAre DEF Process_Collect
    <3>4. QED
      BY <1>2, <3>1, <3>2, <3>3
  <2>2. PICK seen \in SUBSET Present(c) : \E zero \in SUBSET seen :
          Sample(c, [seen |-> seen, zero |-> zero]) /\ (zero = {} \/ c = "network")
    BY <2>1
  <2>3. PICK zero \in SUBSET seen :
          Sample(c, [seen |-> seen, zero |-> zero]) /\ (zero = {} \/ c = "network")
    BY <2>2
  <2>4. zero \subseteq Interfaces
    BY <2>3, SourcesAre DEF Present
  <2> DEFINE r == [seen |-> seen, zero |-> zero]
  <2>5. r.seen = seen /\ r.zero = zero
    OBVIOUS
  <2>6. Sample(c, r)
    BY <2>3
  <2> HIDE DEF r
  <2>7. QED
    BY <2>4, <2>5, <2>6, SampleInv
<1>3. ASSUME NEW c \in Collectors, Sample_Fails(c) PROVE FiguresInv'
  BY <1>3, SampleFailsInv
<1>4. CASE Collected \/ Collected_Fails
  BY <1>4, CollectedInv, CollectedFailsInv
<1>5. CASE UNCHANGED vars
  <2>1. UNCHANGED <<host, previous, results, moved, counted, dropped, cycles, first, broken, misread, faults>>
    BY <1>5 DEF vars, collectorVars, figureVars
  <2>2. TypeOK' /\ Continuous'
    BY <2>1, InHandStays DEF FiguresInv, CollectionInv, TypeOK, IsSample, Continuous
  <2>3. BaselineInv' /\ FirstInv' /\ TurnInv'
    BY <2>1 DEF FiguresInv, BaselineInv, FirstInv, TurnInv, IsMeasured
  <2>4. BudgetInv'
    BY <2>1, InHandStays DEF FiguresInv, BudgetInv, Pending
  <2>5. QED
    BY <2>2, <2>3, <2>4 DEF FiguresInv, CollectionInv
<1>6. QED
  BY <1>1, <1>2, <1>3, <1>4, <1>5 DEF Next

-----------------------------------------------------------------------------
(* The properties *)

(* What every step of the host, the collectors and the engine keeps.        *)
THEOREM FiguresInvariantHolds == Spec => []FiguresInv
  BY InitInv, NextInv, PTL DEF Spec

(* The samples of a collector join without a gap, whichever threads fail    *)
(* (collect of the collectors and of the engine), for any devices and      *)
(* processes.                                                              *)
THEOREM SamplesJoin == Spec => []CollectionInv
<1>1. FiguresInv => CollectionInv
  BY DEF FiguresInv
<1>2. QED
  BY FiguresInvariantHolds, <1>1, PTL

(* The snapshots never say that more was transferred or used than was       *)
(* (collect of the collectors): nothing is counted twice.                  *)
THEOREM NothingCountedTwice == Spec => []CountedOnce
<1>1. FiguresInv => CountedOnce
  <2> SUFFICES ASSUME FiguresInv, NEW d \in Names, d \notin misread
               PROVE  counted[d] <= moved[d]
    BY DEF CountedOnce
  <2>1. TypeOK /\ BudgetInv
    BY DEF FiguresInv, CollectionInv
  <2>2. PICK c \in Collectors : d \in Sources[c]
    BY NameIs
  <2>3. counted[d] + dropped[d] + InHand(d) + Pending(c, d) <= moved[d]
    BY <2>1, <2>2 DEF BudgetInv
  <2>4. counted[d] \in Nat /\ dropped[d] \in Nat /\ moved[d] \in Nat /\ InHand(d) \in Nat
    BY <2>1, <2>2, InHandIs DEF TypeOK
  <2>5. Pending(c, d) \in Nat
    BY <2>1 DEF Pending, Less, TypeOK, IsSample
  <2>6. QED
    BY <2>3, <2>4, <2>5
<1>2. QED
  BY FiguresInvariantHolds, <1>1, PTL

=============================================================================
