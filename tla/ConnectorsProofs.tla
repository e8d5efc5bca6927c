-------------------------- MODULE ConnectorsProofs --------------------------
(***************************************************************************)
(* Proofs about Connectors, for every interval and any number of snapshots *)
(* and of bad answers: what the summary shows of a refused publish, and    *)
(* the order and the spacing of what PeerWeave is given.                   *)
(***************************************************************************)
EXTENDS Connectors, TLAPS

Peers == [status : Statuses, snapshot : BOOLEAN, pending : 1 .. MaxCycles \cup {NONE},
          since : Spans \cup {NONE}]

Entries == [n : 1 .. MaxCycles, outcome : {"stored", "declined", "unanswered"}, gap : Spans]

(* The inductive invariant: the order and the spacing need what the         *)
(* connector remembers, and it needs nothing of them.                      *)
IInv == ConnectorsInv /\ PublishedInOrder /\ PublishSpaced

(* publish_snapshot touches nothing but the snapshot that waits and the     *)
(* time, and both only on an acknowledgement.                              *)
LEMMA PublishFields ==
  ASSUME peerweave \in Peers, NEW outcome
  PROVE  /\ Publish(outcome) \in Peers
         /\ Publish(outcome).pending = IF Acknowledged(outcome) THEN NONE ELSE peerweave.pending
         /\ Publish(outcome).since = IF Acknowledged(outcome) THEN 0 ELSE peerweave.since
<1> DEFINE ack == [peerweave EXCEPT !.pending = NONE, !.since = 0]
<1>1. 0 \in Spans
  BY ConnectorsConstants DEF Spans
<1>2. ack \in Peers /\ ack.pending = NONE /\ ack.since = 0
  BY <1>1 DEF Peers
<1>3. Publish(outcome) = IF Acknowledged(outcome) THEN ack ELSE peerweave
  BY DEF Publish
<1> HIDE DEF ack
<1>4. QED
  BY <1>2, <1>3

(* The poll's result differs from the publish's in status and snapshot.     *)
LEMMA AnswerFields ==
  ASSUME peerweave \in Peers, NEW hasErrors \in BOOLEAN, NEW outcome,
         PeerWeave_Answers(hasErrors, outcome)
  PROVE  /\ peerweave' \in Peers
         /\ peerweave'.pending = IF Acknowledged(outcome) THEN NONE ELSE peerweave.pending
         /\ peerweave'.since = IF Acknowledged(outcome) THEN 0 ELSE peerweave.since
         /\ outcome # NONE /\ ~Acknowledged(outcome) => peerweave'.status = "degraded"
<1> DEFINE p == Publish(outcome)
           shown == IF hasErrors \/ (outcome # NONE /\ ~Acknowledged(outcome)) THEN "degraded"
                    ELSE "healthy"
<1>1. /\ p \in Peers
      /\ p.pending = IF Acknowledged(outcome) THEN NONE ELSE peerweave.pending
      /\ p.since = IF Acknowledged(outcome) THEN 0 ELSE peerweave.since
  BY PublishFields
<1>2. peerweave' = [p EXCEPT !.status = shown, !.snapshot = TRUE]
  BY DEF PeerWeave_Answers
<1>3. shown \in Statuses
  BY DEF Statuses
<1>4. outcome # NONE /\ ~Acknowledged(outcome) => shown = "degraded"
  OBVIOUS
<1> HIDE DEF p, shown
<1>5. QED
  BY <1>1, <1>2, <1>3, <1>4 DEF Peers

(* An attempt is made only after the interval, of a snapshot that waits.    *)
LEMMA AttemptDue ==
  ASSUME NEW outcome \in Outcomes
  PROVE  /\ outcome # NONE => ShouldPublish
         /\ outcome = NONE => ~ShouldPublish
         /\ outcome \in {"stored", "declined", "unanswered"} => outcome # NONE
  BY ConnectorsConstants DEF Outcomes

(* What PeerWeave has received was sent to it. *)
LEMMA EntryType ==
  ASSUME TypeOK
  PROVE  /\ received \in Seq(Entries)
         /\ \A i \in DOMAIN received : received[i] \in Entries
<1>1. received \in Seq(Entries)
  BY DEF TypeOK, Entries
<1>2. QED
  BY <1>1

-----------------------------------------------------------------------------
(* The steps other than a poll *)

(* Nothing is waiting or sent at the start. *)
LEMMA InitIInv == Init => IInv
<1> SUFFICES ASSUME Init PROVE IInv
  OBVIOUS
<1> USE ConnectorsConstants
<1>1. received = <<>> /\ DOMAIN received = {}
  BY DEF Init
<1>2. TypeOK
  <2>1. <<>> \in Seq(Statuses) /\ <<>> \in Seq(Entries)
    OBVIOUS
  <2>2. [statuses |-> <<>>, snapshots |-> {}]
          \in [statuses : Seq(Statuses), snapshots : SUBSET {"peerweave", "evrus"}]
    BY <2>1
  <2>3. peerweave \in Peers /\ evrus \in [status : Statuses, oidcHealthy : BOOLEAN]
    BY DEF Init, Peers, Statuses
  <2>4. Interval \in Spans
    BY DEF Spans
  <2>5. summary \in [statuses : Seq(Statuses), snapshots : SUBSET {"peerweave", "evrus"}]
    BY <2>2, Zenon DEF Init
  <2>6. received \in Seq(Entries)
    BY <2>1 DEF Init
  <2>7. publishing \in {"off", "unset", "on"} /\ refused \in BOOLEAN
    BY Zenon DEF Init
  <2>8. quiet \in Spans
    BY <2>4 DEF Init
  <2>9. cycles = 0 /\ faults = 0
    BY Zenon DEF Init
  <2>10. QED
    BY <2>3, <2>5, <2>6, <2>7, <2>8, <2>9 DEF TypeOK, Peers, Entries
<1>3. RefusalShown /\ Remembered
  BY <1>1 DEF Init, RefusalShown, Remembered
<1>4. PublishedInOrder /\ PublishSpaced
  BY <1>1 DEF PublishedInOrder, PublishSpaced
<1>5. QED
  BY <1>2, <1>3, <1>4 DEF IInv, ConnectorsInv

(* The worker hands over a snapshot. *)
LEMMA IngestStep == IInv /\ Ingest => IInv'
<1> SUFFICES ASSUME IInv, Ingest PROVE IInv'
  OBVIOUS
<1> USE ConnectorsConstants DEF IInv, ConnectorsInv
<1> DEFINE next == [peerweave EXCEPT !.pending = cycles + 1]
<1>0. peerweave \in Peers /\ cycles \in Nat /\ cycles < MaxCycles /\ cycles' = cycles + 1
  BY DEF TypeOK, Peers, Ingest
<1>1. cycles + 1 \in 1 .. MaxCycles
  BY <1>0
<1>2. next \in Peers /\ next.pending = cycles + 1 /\ next.since = peerweave.since
  BY <1>0, <1>1 DEF Peers
<1>3. peerweave' = IF publishing = "off" THEN peerweave ELSE next
  BY DEF Ingest
<1>4. UNCHANGED <<publishing, evrus, summary, received, quiet, refused, faults>>
  BY DEF Ingest
<1> HIDE DEF next
<1>5. peerweave' \in Peers /\ peerweave'.since = peerweave.since
  BY <1>0, <1>2, <1>3
<1>6. peerweave'.pending = IF publishing = "off" THEN peerweave.pending ELSE cycles + 1
  BY <1>2, <1>3
<1>7. TypeOK'
  BY <1>0, <1>1, <1>4, <1>5 DEF TypeOK, Peers
<1>8. RefusalShown'
  BY <1>4 DEF RefusalShown
<1>9. Remembered'
  <2>1. \A i \in DOMAIN received : received[i] \in Entries /\ received[i].n <= cycles
    BY EntryType DEF Remembered
  <2>2. (quiet = IF peerweave.since = NONE THEN Interval ELSE peerweave.since)'
    BY <1>4, <1>5 DEF Remembered
  <2>3. (refused => ShouldPublish)'
    BY <1>0, <1>4, <1>5, <1>6 DEF Remembered, ShouldPublish
  <2>4. (peerweave.pending # NONE => peerweave.pending <= cycles)'
    BY <1>0, <1>6 DEF Remembered, Peers
  <2>5. ASSUME NEW i \in DOMAIN received
        PROVE  /\ received[i].n <= cycles'
               /\ peerweave'.pending # NONE =>
                    \/ received[i].n < peerweave'.pending
                    \/ received[i].n = peerweave'.pending /\ received[i].outcome = "unanswered"
    <3>1. received[i].n \in Nat /\ received[i].n <= cycles
      BY <2>1 DEF Entries
    <3>2. CASE publishing = "off"
      BY <1>0, <1>6, <3>1, <3>2 DEF Remembered
    <3>3. CASE publishing # "off"
      BY <1>0, <1>6, <3>1, <3>3
    <3>4. QED
      BY <3>2, <3>3
  <2>6. QED
    BY <1>4, <2>2, <2>3, <2>4, <2>5 DEF Remembered
<1>10. PublishedInOrder' /\ PublishSpaced'
  BY <1>4 DEF PublishedInOrder, PublishSpaced
<1>11. QED
  BY <1>7, <1>8, <1>9, <1>10

(* Time passes. *)
LEMMA ElapseStep == IInv /\ Elapse => IInv'
<1> SUFFICES ASSUME IInv, Elapse PROVE IInv'
  OBVIOUS
<1> USE ConnectorsConstants DEF IInv, ConnectorsInv
<1> DEFINE next == [peerweave EXCEPT !.since = Later(@)]
<1>1. peerweave \in Peers /\ quiet \in Spans
  BY DEF TypeOK, Peers
<1>2. \A t \in Spans : Later(t) \in Spans /\ (t = Interval => Later(t) = Interval)
  BY DEF Spans, Later
<1>3. ASSUME peerweave.since # NONE
      PROVE  next \in Peers /\ next.pending = peerweave.pending
             /\ next.since = Later(peerweave.since)
  BY <1>1, <1>2, <1>3 DEF Peers
<1>4. peerweave' = IF peerweave.since = NONE THEN peerweave ELSE next
  BY DEF Elapse
<1>5. quiet' = Later(quiet) /\ UNCHANGED <<publishing, evrus, summary, received, refused, cycles, faults>>
  BY DEF Elapse
<1> HIDE DEF next
<1>6. /\ peerweave' \in Peers /\ peerweave'.pending = peerweave.pending
      /\ peerweave'.since = IF peerweave.since = NONE THEN NONE ELSE Later(peerweave.since)
  BY <1>1, <1>3, <1>4
<1>7. TypeOK'
  BY <1>1, <1>2, <1>5, <1>6 DEF TypeOK, Peers
<1>8. RefusalShown'
  BY <1>5 DEF RefusalShown
<1>9. Remembered'
  <2>1. peerweave.since # NONE => peerweave.since \in Spans /\ Later(peerweave.since) # NONE
    BY <1>1, <1>2 DEF Peers, Spans
  <2>2. (quiet = IF peerweave.since = NONE THEN Interval ELSE peerweave.since)'
    BY <1>2, <1>5, <1>6, <2>1 DEF Remembered, Later
  <2>3. (refused => ShouldPublish)'
    BY <1>2, <1>5, <1>6, <2>1 DEF Remembered, ShouldPublish
  <2>4. QED
    BY <1>5, <1>6, <2>2, <2>3 DEF Remembered
<1>10. PublishedInOrder' /\ PublishSpaced'
  BY <1>5 DEF PublishedInOrder, PublishSpaced
<1>11. QED
  BY <1>7, <1>8, <1>9, <1>10

-----------------------------------------------------------------------------
(* A poll *)

(* PeerWeave does not answer: nothing it was given changes. *)
LEMMA FailsStep ==
  ASSUME IInv, PeerWeave_Fails, NEW reached \in BOOLEAN, Evrus_Check(reached), Summarised,
         UNCHANGED <<publishing, cycles>>, faults' \in 0 .. MaxFaults
  PROVE  IInv'
<1> USE DEF IInv, ConnectorsInv
<1>1. peerweave \in Peers
  BY DEF TypeOK, Peers
<1>2. /\ peerweave' \in Peers /\ peerweave'.pending = peerweave.pending
      /\ peerweave'.since = peerweave.since /\ peerweave'.status = "failed"
  BY <1>1 DEF PeerWeave_Fails, Peers, Statuses
<1>3. UNCHANGED <<publishing, cycles, received, quiet, refused>>
  BY DEF PeerWeave_Fails
<1>4. evrus' \in [status : Statuses, oidcHealthy : BOOLEAN]
  BY DEF Evrus_Check, Statuses
<1>5. /\ summary' \in [statuses : Seq(Statuses), snapshots : SUBSET {"peerweave", "evrus"}]
      /\ summary'.statuses[1] = "failed"
  BY <1>2, <1>4 DEF Summarised, Peers
<1>6. TypeOK'
  BY <1>2, <1>3, <1>4, <1>5 DEF TypeOK, Peers
<1>7. RefusalShown'
  BY <1>5 DEF RefusalShown
<1>8. Remembered'
  BY <1>2, <1>3 DEF Remembered, ShouldPublish
<1>9. PublishedInOrder' /\ PublishSpaced'
  BY <1>3 DEF PublishedInOrder, PublishSpaced
<1>10. QED
  BY <1>6, <1>7, <1>8, <1>9

(* What the poll adds to the publications, if it publishes: the snapshot    *)
(* that waits, after the interval.                                         *)
LEMMA ReceivedEntry ==
  ASSUME IInv, NEW outcome \in Outcomes, Receive(outcome),
         outcome \in {"stored", "declined", "unanswered"}
  PROVE  /\ received' \in Seq(Entries) /\ Len(received') = Len(received) + 1
         /\ \A i \in DOMAIN received : received'[i] = received[i]
         /\ received'[Len(received) + 1].n = peerweave.pending
         /\ received'[Len(received) + 1].outcome = outcome
         /\ received'[Len(received) + 1].gap = Interval
<1> USE DEF IInv, ConnectorsInv
<1> DEFINE entry == [n |-> peerweave.pending, outcome |-> outcome, gap |-> quiet]
<1>1. ShouldPublish
  BY AttemptDue
<1>2. quiet = Interval
  BY <1>1 DEF ShouldPublish, Remembered
<1>3. peerweave \in Peers /\ peerweave.pending # NONE /\ quiet \in Spans
  BY <1>1 DEF ShouldPublish, TypeOK, Peers
<1>4. entry \in Entries /\ entry.n = peerweave.pending /\ entry.outcome = outcome /\ entry.gap = Interval
  BY <1>2, <1>3 DEF Entries, Peers
<1>5. received' = Append(received, entry)
  BY DEF Receive
<1> HIDE DEF entry
<1>6. received \in Seq(Entries)
  BY EntryType
<1>7. QED
  BY <1>4, <1>5, <1>6

(* PeerWeave answers, and may have been given a snapshot. *)
LEMMA AnswersStep ==
  ASSUME IInv, NEW hasErrors \in BOOLEAN, NEW outcome, PeerWeave_Answers(hasErrors, outcome),
         NEW reached \in BOOLEAN, Evrus_Check(reached), Summarised,
         UNCHANGED <<publishing, cycles>>, faults' \in 0 .. MaxFaults
  PROVE  IInv'
<1> USE ConnectorsConstants DEF IInv, ConnectorsInv
<1> DEFINE given == outcome \in {"stored", "declined", "unanswered"}
           L == Len(received)
<1>1. peerweave \in Peers /\ outcome \in Outcomes /\ Receive(outcome)
  BY DEF TypeOK, Peers, PeerWeave_Answers
<1>2. /\ peerweave' \in Peers
      /\ peerweave'.pending = IF Acknowledged(outcome) THEN NONE ELSE peerweave.pending
      /\ peerweave'.since = IF Acknowledged(outcome) THEN 0 ELSE peerweave.since
      /\ outcome # NONE /\ ~Acknowledged(outcome) => peerweave'.status = "degraded"
  BY <1>1, AnswerFields
<1>3. /\ outcome # NONE => ShouldPublish
      /\ outcome = NONE => ~ShouldPublish
      /\ given => outcome # NONE
  BY <1>1, AttemptDue
<1>4. evrus' \in [status : Statuses, oidcHealthy : BOOLEAN]
  BY DEF Evrus_Check, Statuses
<1>5. /\ summary' \in [statuses : Seq(Statuses), snapshots : SUBSET {"peerweave", "evrus"}]
      /\ summary'.statuses[1] = peerweave'.status
  BY <1>2, <1>4 DEF Summarised, Peers
<1>6. /\ quiet' = IF Acknowledged(outcome) THEN 0 ELSE quiet
      /\ refused' = IF outcome = NONE THEN refused ELSE ~Acknowledged(outcome)
      /\ ~given => received' = received
  BY <1>1 DEF Receive
<1>7. received \in Seq(Entries) /\ \A i \in DOMAIN received : received[i] \in Entries
  BY EntryType
<1>8. given => /\ received' \in Seq(Entries) /\ Len(received') = L + 1
               /\ \A i \in DOMAIN received : received'[i] = received[i]
               /\ received'[L + 1].n = peerweave.pending
               /\ received'[L + 1].outcome = outcome
               /\ received'[L + 1].gap = Interval
  BY <1>1, ReceivedEntry
<1>9. 0 \in Spans /\ Interval \in Spans /\ quiet \in Spans /\ refused \in BOOLEAN
      /\ cycles \in Nat /\ 0 # NONE
  BY DEF Spans, TypeOK
<1>10. L \in Nat /\ DOMAIN received = 1 .. L /\ (given => DOMAIN received' = 1 .. L + 1)
  BY <1>7, <1>8
<1>11. Acknowledged(outcome) => given
  BY DEF Acknowledged
<1>12. outcome # NONE => peerweave.pending # NONE /\ peerweave.pending \in Nat
                         /\ peerweave.pending <= cycles
  BY <1>1, <1>3 DEF ShouldPublish, Remembered, Peers
<1> HIDE DEF given, L
<1>13. TypeOK'
  <2>1. received' \in Seq(Entries)
    BY <1>6, <1>7, <1>8
  <2>2. quiet' \in Spans /\ refused' \in BOOLEAN
    BY <1>6, <1>9
  <2>3. QED
    BY <1>2, <1>4, <1>5, <2>1, <2>2 DEF TypeOK, Peers, Entries
<1>14. RefusalShown'
  <2>1. CASE outcome = NONE
    BY <1>3, <1>6, <2>1 DEF Remembered, RefusalShown
  <2>2. QED
    BY <1>2, <1>5, <1>6, <2>1 DEF RefusalShown
<1>15. Remembered'
  <2>1. (quiet = IF peerweave.since = NONE THEN Interval ELSE peerweave.since)'
    BY <1>2, <1>6, <1>9 DEF Remembered
  <2>2. (refused => ShouldPublish)'
    BY <1>2, <1>3, <1>6 DEF Remembered, ShouldPublish
  <2>3. (peerweave.pending # NONE => peerweave.pending <= cycles)'
    BY <1>2 DEF Remembered
  <2>4. ASSUME NEW i \in DOMAIN received'
        PROVE  /\ received'[i].n <= cycles'
               /\ peerweave'.pending # NONE =>
                    \/ received'[i].n < peerweave'.pending
                    \/ received'[i].n = peerweave'.pending /\ received'[i].outcome = "unanswered"
    <3>1. CASE i \in DOMAIN received
      BY <1>2, <1>6, <1>8, <3>1 DEF Remembered
    <3>2. CASE i \notin DOMAIN received
      <4>1. given /\ i = L + 1
        BY <1>6, <1>10, <2>4, <3>2
      <4>2. received'[i].n = peerweave.pending /\ received'[i].outcome = outcome
        BY <1>8, <4>1
      <4>3. ~Acknowledged(outcome) => outcome = "unanswered"
        BY <4>1 DEF given, Acknowledged
      <4>4. QED
        BY <1>2, <1>3, <1>12, <4>1, <4>2, <4>3
    <3>3. QED
      BY <3>1, <3>2
  <2>5. QED
    BY <2>1, <2>2, <2>3, <2>4 DEF Remembered
<1>16. PublishedInOrder'
  <2>1. CASE ~given
    BY <1>6, <2>1 DEF PublishedInOrder
  <2>2. CASE given
    <3>1. ASSUME NEW i \in DOMAIN received', NEW j \in DOMAIN received', i < j
          PROVE  /\ received'[i].n <= received'[j].n
                 /\ received'[i].n = received'[j].n => received'[i].outcome = "unanswered"
      <4>1. i \in DOMAIN received /\ received'[i] = received[i] /\ received[i] \in Entries
        BY <1>7, <1>8, <1>10, <2>2, <3>1
      <4>2. CASE j \in DOMAIN received
        BY <1>8, <2>2, <3>1, <4>1, <4>2 DEF PublishedInOrder
      <4>3. CASE j \notin DOMAIN received
        <5>1. j = L + 1
          BY <1>10, <2>2, <3>1, <4>3
        <5>2. received'[j].n = peerweave.pending /\ peerweave.pending # NONE
              /\ peerweave.pending \in Nat
          BY <1>3, <1>8, <1>12, <2>2, <5>1
        <5>3. received[i].n \in Nat
          BY <4>1 DEF Entries
        <5>4. \/ received[i].n < peerweave.pending
              \/ received[i].n = peerweave.pending /\ received[i].outcome = "unanswered"
          BY <4>1, <5>2 DEF Remembered
        <5>5. QED
          BY <4>1, <5>2, <5>3, <5>4
      <4>4. QED
        BY <4>2, <4>3
    <3>2. QED
      BY <3>1 DEF PublishedInOrder
  <2>3. QED
    BY <2>1, <2>2
<1>17. PublishSpaced'
  <2>1. CASE ~given
    BY <1>6, <2>1 DEF PublishSpaced
  <2>2. CASE given
    BY <1>8, <1>10, <2>2 DEF PublishSpaced
  <2>3. QED
    BY <2>1, <2>2
<1>18. QED
  BY <1>13, <1>14, <1>15, <1>16, <1>17

(* One poll of both connectors. *)
LEMMA PollStep == IInv /\ Poll => IInv'
<1> SUFFICES ASSUME IInv, Poll PROVE IInv'
  OBVIOUS
<1>1. PICK reached \in BOOLEAN :
        /\ \/ PeerWeave_Fails /\ Fault(1 + Cost(~reached))
           \/ \E hasErrors \in BOOLEAN, outcome \in Outcomes :
                /\ PeerWeave_Answers(hasErrors, outcome)
                /\ Fault(Cost(hasErrors) + Cost(outcome \notin {NONE, "unset", "stored"}) + Cost(~reached))
        /\ Evrus_Check(reached) /\ Summarised
        /\ UNCHANGED <<publishing, cycles>>
  BY Zenon DEF Poll
<1>2. \A n \in Nat : Fault(n) => faults' \in 0 .. MaxFaults
  BY ConnectorsConstants DEF Fault, IInv, ConnectorsInv, TypeOK
<1>3. \A bad \in BOOLEAN : Cost(bad) \in Nat
  BY DEF Cost
<1>4. CASE PeerWeave_Fails /\ Fault(1 + Cost(~reached))
  <2>1. 1 + Cost(~reached) \in Nat
    BY DEF Cost
  <2>2. QED
    BY <1>1, <1>2, <1>4, <2>1, FailsStep
<1>5. ASSUME NEW hasErrors \in BOOLEAN, NEW outcome \in Outcomes,
             PeerWeave_Answers(hasErrors, outcome),
             Fault(Cost(hasErrors) + Cost(outcome \notin {NONE, "unset", "stored"}) + Cost(~reached))
      PROVE  IInv'
  <2>1. Cost(hasErrors) + Cost(outcome \notin {NONE, "unset", "stored"}) + Cost(~reached) \in Nat
    BY DEF Cost
  <2>2. QED
    BY <1>1, <1>2, <1>5, <2>1, AnswersStep
<1>6. QED
  BY <1>1, <1>4, <1>5

-----------------------------------------------------------------------------
(* In every reachable state: what the connector remembers is true, and a    *)
(* refused publish is on the screen until one is acknowledged.             *)
THEOREM ConnectorsInductive == Spec => []IInv
<1>1. Init => IInv
  BY InitIInv
<1>2. IInv /\ [Next]_vars => IInv'
  <2> SUFFICES ASSUME IInv, [Next]_vars PROVE IInv'
    OBVIOUS
  <2>1. CASE UNCHANGED vars
    BY <2>1 DEF IInv, ConnectorsInv, TypeOK, RefusalShown, Remembered, ShouldPublish,
                PublishedInOrder, PublishSpaced, vars, historyVars
  <2>2. QED
    BY <2>1, IngestStep, ElapseStep, PollStep DEF Next
<1>3. QED
  BY <1>1, <1>2, PTL DEF Spec

(* Types, the honest status and the connector's memory. *)
THEOREM ConnectorsInvHolds == Spec => []ConnectorsInv
<1>1. IInv => ConnectorsInv
  BY DEF IInv
<1>2. QED
  BY <1>1, ConnectorsInductive, PTL

(* PeerWeave gets the snapshots in order, one again only if its answer was  *)
(* lost, whatever fails and however many wait.                             *)
THEOREM PublishedInOrderHolds == Spec => []PublishedInOrder
<1>1. IInv => PublishedInOrder
  BY DEF IInv
<1>2. QED
  BY <1>1, ConnectorsInductive, PTL

(* The interval lies between an acknowledged publish and the next one, for  *)
(* every interval.                                                         *)
THEOREM PublishSpacedHolds == Spec => []PublishSpaced
<1>1. IInv => PublishSpaced
  BY DEF IInv
<1>2. QED
  BY <1>1, ConnectorsInductive, PTL

=============================================================================
