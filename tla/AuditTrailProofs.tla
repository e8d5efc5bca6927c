-------------------------- MODULE AuditTrailProofs --------------------------
(***************************************************************************)
(* Proofs about AuditTrail and AuditPoll, for one writer, any retention    *)
(* limit and any number of events.  Without faults the trail keeps every   *)
(* event, in order, through appends, retention passes and Merkle           *)
(* bookkeeping, the root it computes is that of the events in the file,    *)
(* and the dashboard's anchors and its stream fit it.  With crashes,       *)
(* failed writes and lost answers the trail and the stream keep their      *)
(* order.                                                                  *)
(***************************************************************************)
EXTENDS AuditPollInvariant, FiniteSetTheorems, SequenceTheorems,
        WellFoundedInduction, TLAPS

Sequential == \E w : Writers = {w}

(* Induction over the naturals, for sets. *)
LEMMA SetInduction ==
  ASSUME NEW S, 0 \in S, \A n \in Nat : n \in S => n + 1 \in S
  PROVE  Nat \subseteq S
<1> SUFFICES ASSUME NEW k \in Nat, k \notin S PROVE FALSE
  OBVIOUS
<1> DEFINE T == {n \in Nat : n \notin S}
<1>1. PICK m \in T : \A i \in T : <<i, m>> \notin OpToRel(<, Nat)
  <2>1. T \subseteq Nat /\ T # {}
    OBVIOUS
  <2> HIDE DEF T
  <2>2. QED
    BY <2>1, WFMin, NatLessThanWellFounded, Zenon
<1>2. \A i \in T : ~(i < m)
  BY <1>1 DEF OpToRel
<1>3. m # 0 /\ m - 1 \in Nat
  OBVIOUS
<1>4. m - 1 \notin T
  BY <1>2, <1>3
<1>5. QED
  BY <1>3, <1>4

-----------------------------------------------------------------------------
(* What the readers make of a file *)

(* What one line more leaves. *)
OneMore(line, dropped, r) == IF line \in dropped THEN r ELSE Append(r, line)

(* f is the function rest of Without(lines, dropped). *)
IsRest(f, lines, dropped) ==
  f = [i \in 0 .. Len(lines) |-> IF i = 0 THEN <<>> ELSE OneMore(lines[i], dropped, f[i - 1])]

(* Without is well defined: there is such a function. *)
LEMMA RestExists ==
  ASSUME NEW lines, Len(lines) \in Nat, NEW dropped
  PROVE  \E f : IsRest(f, lines, dropped) /\ Without(lines, dropped) = f[Len(lines)]
<1> DEFINE Def(g, n) == [i \in 0 .. n |-> IF i = 0 THEN <<>> ELSE OneMore(lines[i], dropped, g[i - 1])]
           S == {n \in Nat : \E g : g = Def(g, n)}
<1>1. 0 \in S
  <2> DEFINE h == [i \in 0 .. 0 |-> <<>>]
  <2>1. h = Def(h, 0)
    OBVIOUS
  <2>2. QED
    BY <2>1
<1>2. ASSUME NEW n \in Nat, n \in S PROVE n + 1 \in S
  <2>1. PICK g : g = Def(g, n)
    BY <1>2
  <2> DEFINE h == [i \in 0 .. n + 1 |->
                     IF i = n + 1 THEN OneMore(lines[n + 1], dropped, g[n]) ELSE g[i]]
  <2>2. ASSUME NEW i \in 0 .. n + 1 PROVE h[i] = Def(h, n + 1)[i]
    <3>1. CASE i = n + 1
      BY <3>1
    <3>2. CASE i # n + 1
      <4>1. i \in 0 .. n /\ h[i] = g[i] /\ (i # 0 => h[i - 1] = g[i - 1])
        BY <3>2
      <4>2. g[i] = Def(g, n)[i]
        BY <2>1, Zenon
      <4>3. Def(g, n)[i] = IF i = 0 THEN <<>> ELSE OneMore(lines[i], dropped, g[i - 1])
        BY <4>1
      <4>4. Def(h, n + 1)[i] = IF i = 0 THEN <<>> ELSE OneMore(lines[i], dropped, h[i - 1])
        OBVIOUS
      <4> HIDE DEF h, Def
      <4>5. QED
        BY <4>1, <4>2, <4>3, <4>4
    <3>3. QED
      BY <3>1, <3>2
  <2>3. h = Def(h, n + 1)
    BY <2>2
  <2> HIDE DEF h, Def
  <2>4. \E x : x = Def(x, n + 1)
    BY <2>3
  <2>5. QED
    BY <2>4
<1> HIDE DEF S
<1>3. Len(lines) \in S
  BY <1>1, <1>2, SetInduction
<1>4. \E g : g = Def(g, Len(lines))
  BY <1>3 DEF S
<1> DEFINE f == CHOOSE g : g = Def(g, Len(lines))
<1>5. f = Def(f, Len(lines))
  BY <1>4
<1>6. Without(lines, dropped) = f[Len(lines)]
  BY DEF Without, OneMore
<1> HIDE DEF f
<1>7. IsRest(f, lines, dropped)
  BY <1>5 DEF IsRest
<1>8. QED
  BY <1>6, <1>7

(* Its values, one line after the other. *)
LEMMA RestStep ==
  ASSUME NEW lines, Len(lines) \in Nat, NEW dropped, NEW f, IsRest(f, lines, dropped)
  PROVE  /\ f[0] = <<>>
         /\ \A k \in Nat : k + 1 <= Len(lines) =>
              f[k + 1] = OneMore(lines[k + 1], dropped, f[k])
<1> DEFINE d == [i \in 0 .. Len(lines) |-> IF i = 0 THEN <<>> ELSE OneMore(lines[i], dropped, f[i - 1])]
<1>1. f = d
  BY DEF IsRest
<1>2. d[0] = <<>>
  OBVIOUS
<1>3. ASSUME NEW k \in Nat, k + 1 <= Len(lines)
      PROVE  d[k + 1] = OneMore(lines[k + 1], dropped, f[k])
  <2>1. k + 1 \in 0 .. Len(lines) /\ k + 1 # 0 /\ (k + 1) - 1 = k
    BY <1>3
  <2>2. QED
    BY <2>1
<1> HIDE DEF d
<1>4. QED
  BY <1>1, <1>2, <1>3

(* r holds those of the first k lines of s that are not dropped, in their   *)
(* order.                                                                  *)
RestOf(r, s, k, dropped) ==
  /\ Len(r) <= k
  /\ \A i, j \in 1 .. Len(r) : i < j =>
       \E m, n \in 1 .. k : m < n /\ r[i] = s[m] /\ r[j] = s[n]
  /\ \A i \in 1 .. Len(r) : r[i] \notin dropped /\ \E m \in i .. k : r[i] = s[m]
  /\ \A m \in 1 .. k : s[m] \notin dropped => \E i \in 1 .. Len(r) : r[i] = s[m]
  /\ (\A m \in 1 .. k : s[m] \notin dropped) => Len(r) = k /\ \A i \in 1 .. k : r[i] = s[i]

(* One line more: either it is dropped, or it comes last. *)
LEMMA RestOfOneMore ==
  ASSUME NEW T, NEW s \in Seq(T), NEW dropped, NEW k \in Nat, k + 1 <= Len(s),
         NEW r \in Seq(T), RestOf(r, s, k, dropped)
  PROVE  /\ OneMore(s[k + 1], dropped, r) \in Seq(T)
         /\ RestOf(OneMore(s[k + 1], dropped, r), s, k + 1, dropped)
<1> DEFINE line == s[k + 1]
           q == OneMore(line, dropped, r)
<1>1. line \in T /\ Len(r) \in Nat
  BY LenProperties, ElementOfSeq
<1>2. CASE line \in dropped
  <2>1. q = r
    BY <1>2 DEF OneMore
  <2> HIDE DEF q
  <2>2. RestOf(r, s, k + 1, dropped)
    <3>1. Len(r) <= k + 1 /\ ~(\A m \in 1 .. k + 1 : s[m] \notin dropped)
      BY <1>1, <1>2 DEF RestOf
    <3>2. \A m \in 1 .. k + 1 : s[m] \notin dropped => \E i \in 1 .. Len(r) : r[i] = s[m]
      BY <1>2 DEF RestOf
    <3>3. \A i \in 1 .. Len(r) : r[i] \notin dropped /\ \E m \in i .. k + 1 : r[i] = s[m]
      BY <1>1 DEF RestOf
    <3>4. \A i, j \in 1 .. Len(r) : i < j =>
            \E m, n \in 1 .. k + 1 : m < n /\ r[i] = s[m] /\ r[j] = s[n]
      <4>1. SUFFICES ASSUME NEW i \in 1 .. Len(r), NEW j \in 1 .. Len(r), i < j
                     PROVE  \E m, n \in 1 .. k + 1 : m < n /\ r[i] = s[m] /\ r[j] = s[n]
        OBVIOUS
      <4>2. PICK m \in 1 .. k, n \in 1 .. k : m < n /\ r[i] = s[m] /\ r[j] = s[n]
        BY <4>1 DEF RestOf
      <4>3. m \in 1 .. k + 1 /\ n \in 1 .. k + 1
        OBVIOUS
      <4>4. QED
        BY <4>2, <4>3
    <3>5. QED
      BY <3>1, <3>2, <3>3, <3>4 DEF RestOf
  <2>3. QED
    BY <2>1, <2>2 DEF q
<1>3. CASE line \notin dropped
  <2>1. q = Append(r, line)
    BY <1>3 DEF OneMore
  <2>2. /\ q \in Seq(T) /\ Len(q) = Len(r) + 1 /\ q[Len(r) + 1] = line
        /\ \A i \in 1 .. Len(r) : q[i] = r[i]
    BY <1>1, <2>1, AppendProperties
  <2> HIDE DEF q
  <2>3. Len(r) <= k
    BY DEF RestOf
  <2>4. \A i, j \in 1 .. Len(q) : i < j =>
          \E m, n \in 1 .. k + 1 : m < n /\ q[i] = s[m] /\ q[j] = s[n]
    <3>1. SUFFICES ASSUME NEW i \in 1 .. Len(q), NEW j \in 1 .. Len(q), i < j
                   PROVE  \E m, n \in 1 .. k + 1 : m < n /\ q[i] = s[m] /\ q[j] = s[n]
      OBVIOUS
    <3>2. CASE j = Len(r) + 1
      <4>1. i \in 1 .. Len(r)
        BY <1>1, <2>2, <3>1, <3>2
      <4>2. PICK m \in i .. k : r[i] = s[m]
        BY <4>1 DEF RestOf
      <4>3. m \in 1 .. k + 1 /\ k + 1 \in 1 .. k + 1 /\ m < k + 1
        OBVIOUS
      <4>4. q[i] = s[m] /\ q[j] = s[k + 1]
        BY <2>2, <3>2, <4>1, <4>2
      <4>5. QED
        BY <4>3, <4>4
    <3>3. CASE j # Len(r) + 1
      <4>1. i \in 1 .. Len(r) /\ j \in 1 .. Len(r)
        BY <1>1, <2>2, <3>1, <3>3
      <4>2. PICK m \in 1 .. k, n \in 1 .. k : m < n /\ r[i] = s[m] /\ r[j] = s[n]
        BY <3>1, <4>1 DEF RestOf
      <4>3. m \in 1 .. k + 1 /\ n \in 1 .. k + 1
        OBVIOUS
      <4>4. QED
        BY <2>2, <4>1, <4>2, <4>3
    <3>4. QED
      BY <3>2, <3>3
  <2>5. ASSUME NEW i \in 1 .. Len(q)
        PROVE  q[i] \notin dropped /\ \E m \in i .. k + 1 : q[i] = s[m]
    <3>1. CASE i = Len(r) + 1
      <4>1. k + 1 \in i .. k + 1
        BY <1>1, <2>3, <3>1
      <4>2. QED
        BY <1>3, <2>2, <3>1, <4>1
    <3>2. CASE i # Len(r) + 1
      <4>1. i \in 1 .. Len(r)
        BY <1>1, <2>2, <3>2
      <4>2. r[i] \notin dropped /\ \E m \in i .. k : r[i] = s[m]
        BY <4>1 DEF RestOf
      <4>3. i .. k \subseteq i .. k + 1
        OBVIOUS
      <4>4. QED
        BY <2>2, <4>1, <4>2, <4>3
    <3>3. QED
      BY <3>1, <3>2
  <2>6. ASSUME NEW m \in 1 .. k + 1, s[m] \notin dropped
        PROVE  \E i \in 1 .. Len(q) : q[i] = s[m]
    <3>1. CASE m = k + 1
      <4>1. Len(r) + 1 \in 1 .. Len(q)
        BY <1>1, <2>2
      <4>2. QED
        BY <2>2, <3>1, <4>1
    <3>2. CASE m # k + 1
      <4>1. PICK i \in 1 .. Len(r) : r[i] = s[m]
        BY <2>6, <3>2 DEF RestOf
      <4>2. i \in 1 .. Len(q)
        BY <1>1, <2>2
      <4>3. QED
        BY <2>2, <4>1, <4>2
    <3>3. QED
      BY <3>1, <3>2
  <2>7. ASSUME \A m \in 1 .. k + 1 : s[m] \notin dropped
        PROVE  Len(q) = k + 1 /\ \A i \in 1 .. k + 1 : q[i] = s[i]
    <3>1. Len(r) = k /\ \A i \in 1 .. k : r[i] = s[i]
      BY <2>7 DEF RestOf
    <3>2. QED
      BY <2>2, <3>1
  <2>8. Len(q) <= k + 1
    BY <1>1, <2>2, <2>3
  <2>9. QED
    BY <2>2, <2>4, <2>5, <2>6, <2>7, <2>8 DEF RestOf, q
<1>4. QED
  BY <1>2, <1>3

(* Without, whatever the file: the other lines, in their order. *)
LEMMA WithoutIs ==
  ASSUME NEW T, NEW s \in Seq(T), NEW dropped
  PROVE  /\ Without(s, dropped) \in Seq(T)
         /\ RestOf(Without(s, dropped), s, Len(s), dropped)
<1>0. Len(s) \in Nat
  BY LenProperties
<1>1. PICK f : IsRest(f, s, dropped) /\ Without(s, dropped) = f[Len(s)]
  BY <1>0, RestExists
<1>2. /\ f[0] = <<>>
      /\ \A k \in Nat : k + 1 <= Len(s) => f[k + 1] = OneMore(s[k + 1], dropped, f[k])
  BY <1>0, <1>1, RestStep
<1> DEFINE S == {k \in Nat : k <= Len(s) => f[k] \in Seq(T) /\ RestOf(f[k], s, k, dropped)}
<1>3. 0 \in S
  <2>1. <<>> \in Seq(T) /\ Len(<<>>) = 0
    BY EmptySeq
  <2> DEFINE r == <<>>
  <2> HIDE DEF r
  <2>2. ASSUME Len(r) = 0 PROVE RestOf(r, s, 0, dropped)
    BY <2>2 DEF RestOf
  <2>3. QED
    BY <1>2, <2>1, <2>2 DEF r
<1>4. ASSUME NEW k \in Nat, k \in S PROVE k + 1 \in S
  <2>1. SUFFICES ASSUME k + 1 <= Len(s)
                 PROVE  f[k + 1] \in Seq(T) /\ RestOf(f[k + 1], s, k + 1, dropped)
    OBVIOUS
  <2>2. f[k] \in Seq(T) /\ RestOf(f[k], s, k, dropped)
    BY <1>0, <1>4, <2>1
  <2>3. QED
    BY <1>2, <2>1, <2>2, RestOfOneMore
<1> HIDE DEF S
<1>5. Len(s) \in S
  BY <1>0, <1>3, <1>4, SetInduction
<1>6. QED
  BY <1>0, <1>1, <1>5 DEF S

-----------------------------------------------------------------------------
(* Runs of consecutive event numbers *)

(* Appending the next number to a run gives a longer run. *)
LEMMA RunAppend ==
  ASSUME NEW s, NEW n \in Nat, RunTo(s, n)
  PROVE  /\ RunTo(Append(s, n + 1), n + 1)
         /\ Len(Append(s, n + 1)) = Len(s) + 1
  BY AppendProperties DEF RunTo

(* A part of a run is a run. *)
LEMMA RunPart ==
  ASSUME NEW s, NEW n \in Nat, RunTo(s, n),
         NEW i \in 1 .. Len(s) + 1, NEW j \in i - 1 .. Len(s)
  PROVE  /\ RunTo(SubSeq(s, i, j), (n - Len(s)) + j)
         /\ Len(SubSeq(s, i, j)) = (j - i) + 1
<1> DEFINE part == SubSeq(s, i, j)
<1>1. Len(s) \in Nat /\ Len(s) <= n /\ \A k \in i .. j : s[k] \in Nat
  BY DEF RunTo
<1>2. /\ part \in Seq(Nat)
      /\ Len(part) = IF i <= j THEN (j - i) + 1 ELSE 0
      /\ \A k \in 1 .. (j - i) + 1 : part[k] = s[(i + k) - 1]
  BY <1>1, SubSeqProperties
<1>3. Len(part) = (j - i) + 1
  BY <1>1, <1>2
<1>4. ASSUME NEW k \in 1 .. Len(part)
      PROVE  part[k] = (((n - Len(s)) + j) - Len(part)) + k
  <2> HIDE DEF part
  <2>1. (i + k) - 1 \in 1 .. Len(s) /\ part[k] = s[(i + k) - 1]
    BY <1>1, <1>2, <1>3
  <2>2. QED
    BY <1>1, <1>3, <2>1 DEF RunTo
<1>5. RunTo(part, (n - Len(s)) + j)
  <2> HIDE DEF part
  <2>1. Len(part) <= (n - Len(s)) + j
    BY <1>1, <1>3
  <2>2. QED
    BY <1>2, <1>4, <2>1 DEF RunTo
<1>6. QED
  BY <1>3, <1>5

(* Two runs that end alike and are equally long are equal. *)
LEMMA RunUnique ==
  ASSUME NEW s, NEW t, NEW n \in Nat, RunTo(s, n), RunTo(t, n), Len(s) = Len(t)
  PROVE  s = t
  BY SeqEqual DEF RunTo

(* Two runs that meet join into one. *)
LEMMA RunJoin ==
  ASSUME NEW s, NEW t, NEW m \in Nat, NEW n \in Nat,
         RunTo(s, m), RunTo(t, n), m = n - Len(t)
  PROVE  /\ RunTo(s \o t, n)
         /\ Len(s \o t) = Len(s) + Len(t)
  BY ConcatProperties DEF RunTo

(* A file of events is read as it stands: neither filter drops a line. *)
LEMMA RunIsClean ==
  ASSUME NEW s, NEW n \in Nat, RunTo(s, n)
  PROVE  Parsed(s) = s /\ NonBlank(s) = s
<1>1. s \in Seq(Nat) /\ Len(s) \in Nat
  BY DEF RunTo
<1>2. \A i \in 1 .. Len(s) : s[i] \notin {JUNK, BLANK} /\ s[i] \notin {BLANK}
  BY <1>1, AuditConstants DEF RunTo
<1>3. ASSUME NEW dropped, \A i \in 1 .. Len(s) : s[i] \notin dropped
      PROVE  Without(s, dropped) = s
  <2> DEFINE r == Without(s, dropped)
  <2>1. r \in Seq(Nat) /\ RestOf(r, s, Len(s), dropped)
    BY <1>1, WithoutIs
  <2> HIDE DEF r
  <2>2. Len(r) = Len(s) /\ \A i \in 1 .. Len(s) : r[i] = s[i]
    BY <1>3, <2>1 DEF RestOf
  <2>3. r = s
    BY <1>1, <2>1, <2>2, SeqEqual
  <2>4. QED
    BY <2>3 DEF r
<1>4. QED
  BY <1>2, <1>3 DEF Parsed, NonBlank

(* What retention keeps, and what it archives. *)
LEMMA KeptIsRun ==
  ASSUME NEW s, NEW n \in Nat, RunTo(s, n), Len(s) > MaxEntries, MaxEntries > 0
  PROVE  /\ RunTo(Kept(s), n) /\ Len(Kept(s)) = MaxEntries
         /\ RunTo(Overflow(s), n - MaxEntries)
         /\ Len(Overflow(s)) = Len(s) - MaxEntries
<1> Len(s) \in Nat
  BY DEF RunTo
<1>1. RunTo(Kept(s), (n - Len(s)) + Len(s)) /\ Len(Kept(s)) = MaxEntries
  BY RunPart, AuditConstants DEF Kept
<1>2. RunTo(Overflow(s), (n - Len(s)) + (Len(s) - MaxEntries))
      /\ Len(Overflow(s)) = Len(s) - MaxEntries
  BY RunPart, AuditConstants DEF Overflow
<1>3. QED
  BY <1>1, <1>2, AuditConstants
-----------------------------------------------------------------------------
(* The empty file is a run. *)
LEMMA EmptyRun ==
  ASSUME NEW n \in Nat
  PROVE  RunTo(<<>>, n)
  BY EmptySeq DEF RunTo

(* Every step of the only writer preserves the invariant: SequentialInv is  *)
(* inductive.  The retention steps and the rebuild are the ones that move   *)
(* the start of a run.                                                      *)
LEMMA StepKeepsInv ==
  ASSUME Sequential, SequentialInv, [Next]_trailVars
  PROVE  SequentialInv'
<1>1. PICK w : Writers = {w}
  BY DEF Sequential
<1> USE <1>1
<1> SUFFICES Control(w)' /\ LogRun(w)' /\ LeavesRun(w)' /\ BufRun(w)' /\ ArchiveRun(w)'
  BY DEF SequentialInv
<1>2. Control(w) /\ LogRun(w) /\ LeavesRun(w) /\ BufRun(w) /\ ArchiveRun(w)
  BY DEF SequentialInv
<1> USE DEF Goto, files, local, PC
<1>3. CASE Append_Begin(w)
  <2>1. Control(w)'
    BY <1>2, <1>3, AuditConstants DEF Control, Append_Begin, Begin
  <2>2. LogRun(w)'
    BY <1>2, <1>3 DEF Control, LogRun, Written, Append_Begin, Begin
  <2>3. LeavesRun(w)'
    BY <1>2, <1>3 DEF Control, LogRun, LeavesRun, Written, Hashed, Append_Begin, Begin
  <2>4. BufRun(w)'
    BY <1>2, <1>3 DEF Control, LogRun, LeavesRun, BufRun, Written, Hashed, Append_Begin, Begin
  <2>5. ArchiveRun(w)'
    BY <1>2, <1>3 DEF Control, LogRun, ArchiveRun, Written, Append_Begin, Begin
  <2>6. QED
    BY <2>1, <2>2, <2>3, <2>4, <2>5
<1>4. CASE Append_WriteLine(w)
  <2>0. pc[w] = "write" /\ ~unterminated /\ event[w] = issued
    BY <1>2, <1>4 DEF Control, Append_WriteLine
  <2>1. /\ pc[w] = "write" /\ ~unterminated
        /\ log' = Append(log, issued) /\ issued' = issued
        /\ pc' = [pc EXCEPT ![w] = "newline"] /\ pc'[w] = "newline"
        /\ UNCHANGED <<leaves, archive, buf>>
        /\ issued - 1 \in Nat /\ (issued - 1) + 1 = issued
    <3>1. log' = Append(log, issued)
      BY <1>4, <2>0 DEF Append_WriteLine, Landed
    <3>2. issued - 1 \in Nat /\ (issued - 1) + 1 = issued
      BY <1>2, <2>0 DEF Control
    <3>3. QED
      BY <1>2, <1>4, <2>0, <3>1, <3>2 DEF Control, Append_WriteLine
  <2>2. RunTo(log', issued) /\ Len(log') = Len(log) + 1
    BY <1>2, <2>1, RunAppend DEF LogRun, Written
  <2>3. Control(w)'
    BY <1>2, <1>4, AuditConstants DEF Control, Append_WriteLine, Landed
  <2>4. LogRun(w)'
    BY <2>1, <2>2 DEF LogRun, Written
  <2>5. LeavesRun(w)'
    BY <1>2, <2>1, <2>2 DEF LogRun, LeavesRun, Written, Hashed, RunTo
  <2>6. BufRun(w)'
    BY <2>1 DEF BufRun
  <2>7. ArchiveRun(w)'
    BY <1>2, <2>1, <2>2 DEF LogRun, ArchiveRun, Written, RunTo
  <2>8. QED
    BY <2>3, <2>4, <2>5, <2>6, <2>7
<1>5. CASE Append_WriteNewline(w)
  <2>1. Control(w)'
    BY <1>2, <1>5, AuditConstants DEF Control, Append_WriteNewline
  <2>2. LogRun(w)'
    BY <1>2, <1>5 DEF Control, LogRun, Written, Append_WriteNewline
  <2>3. LeavesRun(w)'
    BY <1>2, <1>5 DEF Control, LogRun, LeavesRun, Written, Hashed, Append_WriteNewline
  <2>4. BufRun(w)'
    BY <1>2, <1>5 DEF Control, LogRun, LeavesRun, BufRun, Written, Hashed, Append_WriteNewline
  <2>5. ArchiveRun(w)'
    BY <1>2, <1>5 DEF Control, LogRun, ArchiveRun, Written, Append_WriteNewline
  <2>6. QED
    BY <2>1, <2>2, <2>3, <2>4, <2>5
<1>6. CASE LoadLeaves(w)
  <2>1. /\ pc[w] = "merkle"
        /\ buf' = [buf EXCEPT ![w] = Append(leaves, issued)]
        /\ pc' = [pc EXCEPT ![w] = "save_truncate"] /\ pc'[w] = "save_truncate"
        /\ UNCHANGED <<log, leaves, archive, issued, unterminated, event, retaining>>
        /\ issued - 1 \in Nat /\ (issued - 1) + 1 = issued
    BY <1>2, <1>6 DEF Control, LoadLeaves
  <2>2. RunTo(Append(leaves, issued), issued) /\ Len(Append(leaves, issued)) = Len(leaves) + 1
    BY <1>2, <2>1, RunAppend DEF LeavesRun, Hashed
  <2>3. buf' \in [Writers -> Seq(Nat)] /\ buf'[w] = Append(leaves, issued)
    BY <1>2, <2>1, <2>2 DEF Control, RunTo
  <2>4. Control(w)'
    BY <1>2, <2>1, <2>3 DEF Control
  <2>5. LogRun(w)' /\ ArchiveRun(w)'
    BY <1>2, <2>1 DEF LogRun, ArchiveRun, Written
  <2>6. LeavesRun(w)'
    BY <1>2, <2>1 DEF LeavesRun, Written, Hashed
  <2>7. BufRun(w)'
    <3>1. RunTo(buf[w], issued)' /\ Len(buf'[w]) = Len(leaves) + 1
      BY <2>1, <2>2, <2>3
    <3>2. Len(log) <= Len(leaves) + 1
      BY <1>2, <2>1 DEF Control, LeavesRun, Written, Hashed
    <3>3. QED
      BY <2>1, <3>1, <3>2 DEF BufRun
  <2>8. QED
    BY <2>4, <2>5, <2>6, <2>7
<1>7. CASE TruncateLeaves(w, "save_truncate", "save_write")
  <2>1. /\ pc[w] = "save_truncate" /\ pc' = [pc EXCEPT ![w] = "save_write"]
        /\ pc'[w] = "save_write" /\ leaves' = <<>>
        /\ UNCHANGED <<log, archive, issued, unterminated, event, retaining, buf>>
        /\ issued - 1 \in Nat
    BY <1>2, <1>7 DEF Control, TruncateLeaves
  <2>2. Control(w)'
    BY <1>2, <2>1 DEF Control
  <2>3. LogRun(w)' /\ ArchiveRun(w)'
    BY <1>2, <2>1 DEF LogRun, ArchiveRun, Written
  <2>4. LeavesRun(w)'
    BY <2>1, EmptyRun DEF LeavesRun, Hashed
  <2>5. BufRun(w)'
    BY <1>2, <2>1 DEF BufRun
  <2>6. QED
    BY <2>2, <2>3, <2>4, <2>5
<1>8. CASE WriteLeaves(w, "save_write", AfterMerkle(w))
  <2>1. /\ pc[w] = "save_write" /\ leaves = <<>>
        /\ RunTo(buf[w], issued) /\ Len(log) <= Len(buf[w])
        /\ pc' = [pc EXCEPT ![w] = AfterMerkle(w)] /\ pc'[w] = AfterMerkle(w)
        /\ UNCHANGED <<log, archive, issued, unterminated, event, retaining, buf>>
    BY <1>2, <1>8 DEF Control, LeavesRun, BufRun, WriteLeaves
  <2>2. leaves' = buf[w]
    BY <1>8, <2>1, EmptySeq DEF WriteLeaves, RunTo
  <2>3. /\ AfterMerkle(w) \in {"retain", "done"}
        /\ AfterMerkle(w) = "retain" => MaxEntries > 0
    BY DEF AfterMerkle
  <2>4. Control(w)'
    BY <1>2, <2>1, <2>3 DEF Control
  <2>5. LogRun(w)' /\ ArchiveRun(w)'
    BY <1>2, <2>1, <2>3 DEF LogRun, ArchiveRun, Written
  <2>6. LeavesRun(w)'
    BY <1>2, <2>1, <2>2, <2>3 DEF Control, LogRun, LeavesRun, Written, Hashed, RunTo
  <2>7. BufRun(w)'
    BY <2>1, <2>3 DEF BufRun
  <2>8. QED
    BY <2>4, <2>5, <2>6, <2>7
<1>9. CASE Append_Return(w)
  <2>1. Control(w)'
    BY <1>2, <1>9, AuditConstants DEF Control, Append_Return
  <2>2. LogRun(w)'
    BY <1>2, <1>9 DEF Control, LogRun, Written, Append_Return
  <2>3. LeavesRun(w)'
    BY <1>2, <1>9 DEF Control, LogRun, LeavesRun, Written, Hashed, Append_Return
  <2>4. BufRun(w)'
    BY <1>2, <1>9 DEF Control, LogRun, LeavesRun, BufRun, Written, Hashed, Append_Return
  <2>5. ArchiveRun(w)'
    BY <1>2, <1>9 DEF Control, LogRun, ArchiveRun, Written, Append_Return
  <2>6. QED
    BY <2>1, <2>2, <2>3, <2>4, <2>5
<1>10. CASE Retain_Read(w)
  <2>1. /\ pc[w] = "retain" /\ RunTo(log, issued) /\ MaxEntries > 0
        /\ Len(log) <= Len(leaves)
        /\ UNCHANGED <<log, leaves, archive, issued, unterminated, event, retaining>>
    BY <1>2, <1>10 DEF Control, LogRun, LeavesRun, Written, Hashed, RunTo, Retain_Read
  <2>2. NonBlank(log) = log /\ log \in Seq(Nat)
    BY <1>2, <2>1, RunIsClean DEF Control, RunTo
  <2>3. /\ buf' \in [Writers -> Seq(Nat)] /\ buf'[w] = log
        /\ pc' \in [Writers -> PC]
        /\ pc'[w] \in {"done", "archive", "truncate"}
        /\ pc'[w] # "done" => Len(log) > MaxEntries
        /\ pc'[w] = "truncate" => ~ArchiveEnabled
    BY <1>2, <1>10, <2>1, <2>2, AuditConstants DEF Control, Retain_Read, RunTo
  <2>4. Control(w)'
    BY <1>2, <2>1, <2>3 DEF Control
  <2>5. LogRun(w)' /\ ArchiveRun(w)'
    BY <1>2, <2>1, <2>3 DEF LogRun, ArchiveRun, Written
  <2>6. LeavesRun(w)'
    BY <1>2, <2>1, <2>3 DEF LeavesRun, Written, Hashed
  <2>7. BufRun(w)'
    BY <2>1, <2>3 DEF BufRun
  <2>8. QED
    BY <2>4, <2>5, <2>6, <2>7
<1>11. CASE Retain_Archive(w)
  <2>1. /\ pc[w] = "archive" /\ RunTo(buf[w], issued) /\ Len(buf[w]) > MaxEntries
        /\ MaxEntries > 0 /\ buf[w] = log
        /\ archive' = archive \o Overflow(buf[w])
        /\ pc' = [pc EXCEPT ![w] = "truncate"] /\ pc'[w] = "truncate"
        /\ UNCHANGED <<log, leaves, issued, unterminated, event, retaining, buf>>
    BY <1>2, <1>11 DEF Control, BufRun, Retain_Archive
  <2>2. Control(w)' /\ LogRun(w)' /\ LeavesRun(w)' /\ BufRun(w)'
    BY <1>2, <2>1 DEF Control, LogRun, LeavesRun, BufRun, Written, Hashed
  <2>3. ASSUME ArchiveEnabled
        PROVE  RunTo(archive', issued - MaxEntries) /\ Len(archive') = issued - MaxEntries
    <3>1. /\ RunTo(Overflow(buf[w]), issued - MaxEntries)
          /\ Len(Overflow(buf[w])) = Len(buf[w]) - MaxEntries
      BY <1>2, <2>1, KeptIsRun DEF Control
    <3>2. /\ RunTo(archive, Len(archive)) /\ Len(archive) = issued - Len(buf[w])
          /\ Len(archive) \in Nat /\ Len(buf[w]) \in Nat /\ issued \in Nat
          /\ Len(buf[w]) <= issued
      BY <1>2, <2>1, <2>3 DEF Control, ArchiveRun, Written, RunTo
    <3>3. issued - MaxEntries \in Nat
      BY <2>1, <3>2, AuditConstants
    <3>4. Len(archive) = (issued - MaxEntries) - Len(Overflow(buf[w]))
      BY <3>1, <3>2, AuditConstants
    <3>5. /\ RunTo(archive', issued - MaxEntries)
          /\ Len(archive') = Len(archive) + Len(Overflow(buf[w]))
      BY <2>1, <3>1, <3>2, <3>3, <3>4, RunJoin
    <3>6. QED
      BY <3>1, <3>2, <3>5, AuditConstants
  <2>4. ArchiveRun(w)'
    BY <2>1, <2>3 DEF ArchiveRun
  <2>5. QED
    BY <2>2, <2>4
<1>12. CASE Retain_Truncate(w)
  <2>1. /\ pc[w] = "truncate" /\ log' = <<>>
        /\ RunTo(buf[w], issued) /\ Len(buf[w]) > MaxEntries /\ buf[w] = log
        /\ pc' = [pc EXCEPT ![w] = "rewrite"] /\ pc'[w] = "rewrite"
        /\ unterminated' = FALSE
        /\ UNCHANGED <<leaves, archive, issued, event, retaining, buf>>
    BY <1>2, <1>12 DEF Control, BufRun, Retain_Truncate
  <2>2. Control(w)' /\ ArchiveRun(w)'
    BY <1>2, <2>1 DEF Control, ArchiveRun
  <2>3. LogRun(w)'
    BY <1>2, <2>1, EmptyRun DEF Control, LogRun, Written
  <2>4. Len(log) <= Len(leaves) /\ Len(log) \in Nat /\ Len(leaves) \in Nat
    BY <1>2, <2>1 DEF Control, LogRun, LeavesRun, Written, Hashed, RunTo
  <2>5. LeavesRun(w)'
    BY <1>2, <2>1, <2>4, EmptySeq DEF Control, LeavesRun, Written, Hashed
  <2>6. BufRun(w)'
    BY <2>1, <2>4, AuditConstants DEF BufRun
  <2>7. QED
    BY <2>2, <2>3, <2>5, <2>6
<1>13. CASE Retain_Rewrite(w)
  <2>1. /\ pc[w] = "rewrite" /\ log = <<>> /\ MaxEntries > 0
        /\ RunTo(buf[w], issued) /\ Len(buf[w]) > MaxEntries /\ MaxEntries <= Len(leaves)
        /\ pc' = [pc EXCEPT ![w] = "done"] /\ pc'[w] = "done"
        /\ UNCHANGED <<leaves, archive, issued, event, retaining, buf>>
    BY <1>2, <1>13 DEF Control, LogRun, BufRun, Retain_Rewrite
  <2>2. RunTo(Kept(buf[w]), issued) /\ Len(Kept(buf[w])) = MaxEntries
    BY <1>2, <2>1, KeptIsRun DEF Control
  <2>3. log' = Kept(buf[w]) /\ unterminated' = FALSE
    <3>1. Len(log) = 0 /\ ~unterminated
      BY <1>2, <2>1 DEF Control
    <3>2. Len(log) <= Len(Kept(buf[w])) /\ ~(Len(log) > Len(Kept(buf[w])))
      BY <2>2, <3>1, AuditConstants
    <3>3. QED
      BY <1>13, <3>1, <3>2 DEF Retain_Rewrite, Overlay
  <2>4. Control(w)' /\ BufRun(w)'
    BY <1>2, <2>1, <2>3 DEF Control, BufRun
  <2>5. LogRun(w)'
    BY <2>1, <2>2, <2>3 DEF LogRun, Written
  <2>6. LeavesRun(w)'
    BY <1>2, <2>1, <2>2, <2>3, AuditConstants DEF Control, LeavesRun, Written, Hashed, RunTo
  <2>7. ArchiveRun(w)'
    BY <1>2, <2>1, <2>2, <2>3 DEF ArchiveRun, Written
  <2>8. QED
    BY <2>4, <2>5, <2>6, <2>7
<1>14. CASE Root_LoadLeaves(w)
  <2>1. /\ pc[w] = "idle" /\ buf' = [buf EXCEPT ![w] = leaves]
        /\ pc' = [pc EXCEPT ![w] = "root_check"] /\ pc'[w] = "root_check"
        /\ UNCHANGED <<log, leaves, archive, issued, unterminated, event, retaining>>
    BY <1>2, <1>14 DEF Control, Root_LoadLeaves
  <2>2. buf' \in [Writers -> Seq(Nat)] /\ buf'[w] = leaves
    BY <1>2, <2>1 DEF Control, LeavesRun, RunTo
  <2>3. Control(w)' /\ LogRun(w)' /\ LeavesRun(w)' /\ BufRun(w)' /\ ArchiveRun(w)'
    BY <1>2, <2>1, <2>2 DEF Control, LogRun, LeavesRun, BufRun, ArchiveRun, Written, Hashed
  <2>4. QED
    BY <2>3
<1>15. CASE Root_Trust(w)
  <2>1. /\ pc[w] = "root_check" /\ Len(buf[w]) = Len(NonBlank(log))
        /\ pc' = [pc EXCEPT ![w] = "root"] /\ pc'[w] = "root"
        /\ UNCHANGED <<log, leaves, archive, issued, unterminated, event, retaining, buf>>
    BY <1>2, <1>15 DEF Control, Root_Trust
  <2>2. RunTo(log, issued) /\ RunTo(leaves, issued) /\ buf[w] = leaves
    BY <1>2, <2>1 DEF LogRun, LeavesRun, BufRun, Written, Hashed
  <2>3. buf[w] = log
    BY <1>2, <2>1, <2>2, RunIsClean, RunUnique DEF Control
  <2>4. Control(w)' /\ LogRun(w)' /\ LeavesRun(w)' /\ BufRun(w)' /\ ArchiveRun(w)'
    BY <1>2, <2>1, <2>3 DEF Control, LogRun, LeavesRun, BufRun, ArchiveRun, Written, Hashed
  <2>5. QED
    BY <2>4
<1>16. CASE Root_Rebuild(w)
  <2>1. /\ pc[w] = "root_check" /\ buf' = [buf EXCEPT ![w] = Parsed(log)]
        /\ pc' = [pc EXCEPT ![w] = "rebuild_truncate"] /\ pc'[w] = "rebuild_truncate"
        /\ UNCHANGED <<log, leaves, archive, issued, unterminated, event, retaining>>
    BY <1>2, <1>16 DEF Control, Root_Rebuild
  <2>2. Parsed(log) = log /\ log \in Seq(Nat)
    BY <1>2, <2>1, RunIsClean DEF Control, LogRun, Written, RunTo
  <2>3. buf' \in [Writers -> Seq(Nat)] /\ buf'[w] = log
    BY <1>2, <2>1, <2>2 DEF Control
  <2>4. Control(w)' /\ LogRun(w)' /\ LeavesRun(w)' /\ BufRun(w)' /\ ArchiveRun(w)'
    BY <1>2, <2>1, <2>3 DEF Control, LogRun, LeavesRun, BufRun, ArchiveRun, Written, Hashed
  <2>5. QED
    BY <2>4
<1>17. CASE TruncateLeaves(w, "rebuild_truncate", "rebuild_write")
  <2>1. /\ pc[w] = "rebuild_truncate" /\ pc' = [pc EXCEPT ![w] = "rebuild_write"]
        /\ pc'[w] = "rebuild_write" /\ leaves' = <<>>
        /\ UNCHANGED <<log, archive, issued, unterminated, event, retaining, buf>>
    BY <1>2, <1>17 DEF Control, TruncateLeaves
  <2>2. Control(w)' /\ LogRun(w)' /\ ArchiveRun(w)' /\ BufRun(w)'
    BY <1>2, <2>1 DEF Control, LogRun, ArchiveRun, BufRun, Written
  <2>3. LeavesRun(w)'
    BY <1>2, <2>1, EmptyRun DEF Control, LeavesRun, Hashed
  <2>4. QED
    BY <2>2, <2>3
<1>18. CASE WriteLeaves(w, "rebuild_write", "root")
  <2>1. /\ pc[w] = "rebuild_write" /\ leaves = <<>> /\ buf[w] = log /\ RunTo(log, issued)
        /\ pc' = [pc EXCEPT ![w] = "root"] /\ pc'[w] = "root"
        /\ UNCHANGED <<log, archive, issued, unterminated, event, retaining, buf>>
    BY <1>2, <1>18 DEF Control, LogRun, LeavesRun, BufRun, Written, WriteLeaves
  <2>2. leaves' = log
    BY <1>18, <2>1, EmptySeq DEF WriteLeaves, RunTo
  <2>3. Control(w)' /\ LogRun(w)' /\ ArchiveRun(w)' /\ BufRun(w)'
    BY <1>2, <2>1 DEF Control, LogRun, ArchiveRun, BufRun, Written
  <2>4. LeavesRun(w)'
    BY <1>2, <2>1, <2>2 DEF Control, LeavesRun, Written, Hashed, RunTo
  <2>5. QED
    BY <2>3, <2>4
<1>19. CASE Root_Show(w)
  <2>1. Control(w)'
    BY <1>2, <1>19, AuditConstants DEF Control, Root_Show
  <2>2. LogRun(w)'
    BY <1>2, <1>19 DEF Control, LogRun, Written, Root_Show
  <2>3. LeavesRun(w)'
    BY <1>2, <1>19 DEF Control, LogRun, LeavesRun, Written, Hashed, Root_Show
  <2>4. BufRun(w)'
    BY <1>2, <1>19 DEF Control, LogRun, LeavesRun, BufRun, Written, Hashed, Root_Show
  <2>5. ArchiveRun(w)'
    BY <1>2, <1>19 DEF Control, LogRun, ArchiveRun, Written, Root_Show
  <2>6. QED
    BY <2>1, <2>2, <2>3, <2>4, <2>5
<1>20. CASE UNCHANGED trailVars
  BY <1>2, <1>20 DEF trailVars, Control, LogRun, LeavesRun, BufRun, ArchiveRun, Written, Hashed
<1>21. QED
  BY <1>3, <1>4, <1>5, <1>6, <1>7, <1>8, <1>9, <1>10, <1>11, <1>12, <1>13, <1>14, <1>15, <1>16, <1>17, <1>18, <1>19, <1>20
     DEF Sequential, Next, TrailStep, AppendStep, Append_SaveLeaves, RootStep, Root_SaveLeaves
-----------------------------------------------------------------------------
(* The empty trail satisfies the invariant. *)
LEMMA InitHasInv ==
  ASSUME Init
  PROVE  SequentialInv
<1> SUFFICES ASSUME NEW w \in Writers
             PROVE  Control(w) /\ LogRun(w) /\ LeavesRun(w) /\ BufRun(w) /\ ArchiveRun(w)
  BY DEF SequentialInv
<1>1. /\ log = <<>> /\ archive = <<>> /\ leaves = <<>> /\ ~unterminated
      /\ issued = 0 /\ pc[w] = "idle"
  BY DEF Init
<1>2. Len(<<>>) = 0 /\ RunTo(<<>>, 0)
  BY EmptySeq, EmptyRun
<1>3. Control(w)
  <2>1. unterminated = (pc[w] = "newline")
    BY <1>1 DEF Init
  <2>2. buf \in [Writers -> Seq(Nat)] /\ pc \in [Writers -> PC]
    BY EmptySeq DEF Init, PC
  <2>3. QED
    BY <1>1, <2>1, <2>2 DEF Init, Control
<1>4. LogRun(w) /\ LeavesRun(w) /\ BufRun(w) /\ ArchiveRun(w)
  <2>1. Written(w) = 0 /\ Hashed(w) = 0
    BY <1>1 DEF Written, Hashed
  <2>2. LogRun(w)
    BY <1>1, <1>2, <2>1 DEF LogRun
  <2>3. BufRun(w)
    BY <1>1 DEF BufRun
  <2>4. RunTo(archive, Len(archive)) /\ Len(archive) = Written(w) - Len(log)
    <3>1. archive = <<>> /\ Len(archive) = 0 /\ Len(log) = 0
      BY <1>1, <1>2
    <3>2. QED
      BY <1>2, <2>1, <3>1
  <2>5. RunTo(leaves, Hashed(w)) /\ Len(log) <= Len(leaves) + (Written(w) - Hashed(w))
    BY <1>1, <1>2, <2>1
  <2>6. QED
    BY <1>1, <2>2, <2>3, <2>4, <2>5 DEF LeavesRun, ArchiveRun
<1>5. QED
  BY <1>3, <1>4

(* With one writer and no faults, every file of the audit trail is at every *)
(* step a run of consecutive events that ends where the step says it does,  *)
(* for every retention limit: what append_event_with_retention,             *)
(* enforce_audit_retention and current_merkle_root keep true together.      *)
THEOREM SequentialInductive ==
  ASSUME Sequential
  PROVE  Spec => []SequentialInv
<1>1. Init => SequentialInv
  BY InitHasInv
<1>2. SequentialInv /\ [Next]_trailVars => SequentialInv'
  BY StepKeepsInv
<1>3. QED
  BY <1>1, <1>2, PTL DEF Spec

(* A root in the writer's hands is that of the file. *)
LEMMA RootIsTrusted ==
  ASSUME SequentialInv
  PROVE  TrustedRoot
<1>1. SUFFICES ASSUME NEW w \in Writers, pc[w] = "root"
               PROVE  buf[w] = Parsed(log)
  BY DEF TrustedRoot
<1>2. buf[w] = log /\ RunTo(log, issued) /\ issued \in Nat
  BY <1>1 DEF SequentialInv, Control, LogRun, BufRun, Written
<1>3. QED
  BY <1>2, RunIsClean

(* The root current_merkle_root returns is the root of the events in the    *)
(* file, although it only ever compares how many leaves it has.             *)
THEOREM TrustedRootHolds ==
  ASSUME Sequential
  PROVE  Spec => []TrustedRoot
  BY RootIsTrusted, SequentialInductive, PTL

(* What a reader of archive and live file sees is every written event.      *)
LEMMA TrailIsRun ==
  ASSUME SequentialInv, ArchiveEnabled, NEW w, Writers = {w}
  PROVE  /\ RunTo(VisibleTrail, Written(w))
         /\ Len(VisibleTrail) = Written(w)
         /\ Written(w) \in Nat
<1>1. Control(w) /\ LogRun(w) /\ LeavesRun(w) /\ BufRun(w) /\ ArchiveRun(w)
  BY DEF SequentialInv
<1>2. TheWriter = w
  BY DEF TheWriter
<1>3. Written(w) \in Nat /\ issued \in Nat
  BY <1>1 DEF Control, Written
<1>4. RunTo(archive, Len(archive)) /\ Len(archive) \in Nat
  BY <1>1 DEF ArchiveRun, RunTo
<1>5. CASE pc[w] \in {"truncate", "rewrite"}
  <2>1. /\ RunTo(buf[w], issued) /\ Len(buf[w]) > MaxEntries /\ MaxEntries > 0
        /\ Len(archive) = issued - MaxEntries /\ Written(w) = issued
    BY <1>1, <1>5 DEF Control, BufRun, ArchiveRun, Written
  <2>2. RunTo(Kept(buf[w]), issued) /\ Len(Kept(buf[w])) = MaxEntries
    BY <1>3, <2>1, KeptIsRun
  <2>3. Len(archive) = issued - Len(Kept(buf[w]))
    BY <2>1, <2>2
  <2>4. /\ RunTo(archive \o Kept(buf[w]), issued)
        /\ Len(archive \o Kept(buf[w])) = Len(archive) + Len(Kept(buf[w]))
    BY <1>3, <1>4, <2>2, <2>3, RunJoin
  <2>5. VisibleTrail = archive \o Kept(buf[w])
    BY <1>2, <1>5 DEF VisibleTrail
  <2>6. QED
    BY <1>3, <2>1, <2>2, <2>4, <2>5, AuditConstants
<1>6. CASE pc[w] \notin {"truncate", "rewrite"}
  <2>1. RunTo(log, Written(w)) /\ Len(log) \in Nat /\ Len(archive) = Written(w) - Len(log)
    BY <1>1, <1>6 DEF LogRun, ArchiveRun, RunTo
  <2>2. RunTo(archive \o log, Written(w)) /\ Len(archive \o log) = Len(archive) + Len(log)
    BY <1>3, <1>4, <2>1, RunJoin
  <2>3. VisibleTrail = archive \o log
    BY <1>2, <1>6 DEF VisibleTrail
  <2>4. QED
    BY <1>3, <2>1, <2>2, <2>3
<1>7. QED
  BY <1>5, <1>6

(* At rest the trail is every event issued. *)
LEMMA RestIsHistory ==
  ASSUME Sequential, ArchiveEnabled, SequentialInv
  PROVE  HistoryKept
<1>1. PICK w : Writers = {w}
  BY DEF Sequential
<1>2. SUFFICES ASSUME pc[w] = "idle"
               PROVE  archive \o log = [i \in 1 .. issued |-> i]
  BY <1>1 DEF HistoryKept
<1>3. TheWriter = w
  BY <1>1 DEF TheWriter
<1>4. VisibleTrail = archive \o log /\ Written(w) = issued
  BY <1>2, <1>3 DEF VisibleTrail, Written
<1>5. /\ RunTo(archive \o log, issued) /\ Len(archive \o log) = issued
      /\ issued \in Nat
  BY <1>1, <1>4, TrailIsRun
<1>6. /\ archive \o log \in Seq(Nat)
      /\ \A i \in 1 .. issued : (archive \o log)[i] = i
  BY <1>5 DEF RunTo
<1> DEFINE whole == archive \o log
<1>7. whole \in [1 .. issued -> Nat] /\ \A i \in 1 .. issued : whole[i] = i
  BY <1>5, <1>6, LenProperties
<1> HIDE DEF whole
<1>8. whole = [i \in 1 .. issued |-> i]
  BY <1>7
<1>9. QED
  BY <1>8 DEF whole

(* Archive and live file together hold every event issued, once each and in *)
(* order, whenever no call is running: no append, retention pass or root    *)
(* computation drops, repeats or reorders a line.                           *)
THEOREM HistoryKeptHolds ==
  ASSUME Sequential, ArchiveEnabled
  PROVE  Spec => []HistoryKept
  BY RestIsHistory, SequentialInductive, PTL
-----------------------------------------------------------------------------
(* A run that ends within the bound holds events. *)
LEMMA RunOfEvents ==
  ASSUME NEW s, NEW n \in Nat, RunTo(s, n), n <= MaxEvents
  PROVE  s \in Seq(Event)
<1>1. /\ s \in Seq(Nat) /\ Len(s) \in Nat /\ Len(s) <= n
      /\ \A i \in 1 .. Len(s) : s[i] = (n - Len(s)) + i
  BY DEF RunTo
<1>2. \A i \in 1 .. Len(s) : s[i] \in Event
  BY <1>1, AuditConstants DEF Event
<1>3. QED
  BY <1>1, <1>2, SeqDef

(* The overflow that goes to the archive consists of events. *)
LEMMA OverflowOfEvents ==
  ASSUME NEW s, NEW n \in Nat, RunTo(s, n), n <= MaxEvents,
         Len(s) > MaxEntries, MaxEntries > 0
  PROVE  Overflow(s) \in Seq(Event)
<1>1. RunTo(Overflow(s), n - MaxEntries)
  BY KeptIsRun
<1>2. n - MaxEntries \in Nat /\ n - MaxEntries <= MaxEvents
  BY AuditConstants DEF RunTo
<1>3. QED
  BY <1>1, <1>2, RunOfEvents

(* Every step of the only writer keeps the event numbers within the bound. *)
LEMMA StepKeepsBounds ==
  ASSUME Sequential, SequentialTypeInv, [Next]_trailVars
  PROVE  SequentialTypeInv'
<1>1. PICK w : Writers = {w}
  BY DEF Sequential
<1> USE <1>1
<1>2. SequentialInv'
  BY StepKeepsInv DEF SequentialTypeInv
<1>3. Control(w) /\ LogRun(w) /\ LeavesRun(w) /\ BufRun(w) /\ Bounded(w)
  BY DEF SequentialTypeInv, SequentialInv
<1>0. log \in Seq(Event) /\ leaves \in Seq(Event) /\ (pc[w] = "merkle" => issued \in Event)
  <2>1. issued \in Nat /\ issued <= MaxEvents /\ Written(w) \in Nat /\ Written(w) <= MaxEvents
        /\ Hashed(w) \in Nat /\ Hashed(w) <= MaxEvents
    BY <1>3, AuditConstants DEF Control, Bounded, Written, Hashed
  <2>2. QED
    BY <1>3, <2>1, RunOfEvents, AuditConstants DEF Control, LogRun, LeavesRun, Event
<1> SUFFICES Bounded(w)'
  BY <1>2 DEF SequentialTypeInv
<1> USE DEF Goto, files, local
<1>4. CASE Append_Begin(w)
  <2>1. pc'[w] = "write" /\ issued' = issued + 1 /\ event'[w] = issued + 1
        /\ issued < MaxEvents /\ UNCHANGED <<archive, buf>>
    BY <1>3, <1>4 DEF Control, Append_Begin, Begin
  <2>2. QED
    BY <1>3, <2>1, AuditConstants DEF Control, Bounded
<1>5. CASE Append_Return(w)
  <2>1. pc'[w] = "idle" /\ pc[w] = "done"
        /\ UNCHANGED <<issued, event, archive, buf>>
    BY <1>3, <1>5 DEF Control, Append_Return
  <2>2. event[w] \in 1 .. issued
    BY <1>3, <2>1 DEF Control, Bounded
  <2>3. QED
    BY <1>3, <2>1, <2>2 DEF Bounded
<1>6. CASE Retain_Archive(w)
  <2>1. /\ pc[w] = "archive" /\ archive' = archive \o Overflow(buf[w])
        /\ pc'[w] = "truncate" /\ UNCHANGED <<issued, event, buf>>
    BY <1>3, <1>6 DEF Control, Retain_Archive
  <2>2. Overflow(buf[w]) \in Seq(Event)
    BY <1>3, <2>1, OverflowOfEvents DEF Control, BufRun, Bounded
  <2>3. archive' \in Seq(Event)
    BY <1>3, <2>1, <2>2, ConcatProperties DEF Bounded
  <2>4. QED
    BY <1>3, <2>1, <2>3 DEF Bounded
<1>7. CASE \/ Append_WriteLine(w) \/ Append_WriteNewline(w)
           \/ TruncateLeaves(w, "save_truncate", "save_write")
           \/ Root_Trust(w) \/ TruncateLeaves(w, "rebuild_truncate", "rebuild_write")
           \/ WriteLeaves(w, "rebuild_write", "root") \/ Root_Show(w)
  <2>1. /\ UNCHANGED <<issued, event, archive, buf>>
        /\ pc'[w] \in {"newline", "merkle", "save_write",
                       "root", "rebuild_write", "idle"}
    BY <1>3, <1>7 DEF Control, Append_WriteLine, Append_WriteNewline,
         TruncateLeaves, WriteLeaves, Root_Trust, Root_Show
  <2>2. QED
    BY <1>3, <2>1 DEF Bounded
<1>8. CASE \/ WriteLeaves(w, "save_write", AfterMerkle(w))
           \/ Retain_Truncate(w) \/ Retain_Rewrite(w)
  <2>1. /\ UNCHANGED <<issued, event, archive, buf>>
        /\ pc[w] \in {"save_write", "truncate", "rewrite"}
    BY <1>3, <1>8 DEF WriteLeaves, Retain_Truncate, Retain_Rewrite
  <2>2. event[w] > 0
    BY <1>3, <2>1 DEF Control, Bounded
  <2>3. QED
    BY <1>3, <2>1, <2>2 DEF Bounded
<1>9. CASE LoadLeaves(w)
  <2>1. /\ UNCHANGED <<issued, event, archive>>
        /\ pc[w] = "merkle" /\ pc'[w] = "save_truncate"
        /\ event[w] = issued /\ buf'[w] = Append(leaves, issued)
    BY <1>3, <1>9 DEF Control, LoadLeaves
  <2>2. buf'[w] \in Seq(Event)
    BY <1>0, <2>1, AppendProperties
  <2>3. QED
    BY <1>3, <2>1, <2>2 DEF Bounded
<1>10. CASE Root_LoadLeaves(w) \/ Root_Rebuild(w)
  <2>1. /\ UNCHANGED <<issued, event, archive>>
        /\ pc'[w] \in {"root_check", "rebuild_truncate"}
        /\ buf'[w] = leaves \/ (pc[w] = "root_check" /\ buf'[w] = Parsed(log))
    BY <1>3, <1>10 DEF Control, Root_LoadLeaves, Root_Rebuild
  <2>2. pc[w] = "root_check" => Parsed(log) = log
    BY <1>3, RunIsClean DEF Control, LogRun, Written
  <2>3. buf'[w] \in Seq(Event)
    BY <1>0, <2>1, <2>2
  <2>4. QED
    BY <1>3, <2>1, <2>3 DEF Bounded
<1>11. CASE Retain_Read(w)
  <2>1. /\ UNCHANGED <<issued, event, archive>>
        /\ pc[w] = "retain" /\ buf'[w] = NonBlank(log)
    BY <1>3, <1>11 DEF Control, Retain_Read
  <2>2. buf'[w] \in Seq(Event) /\ event[w] > 0
    BY <1>0, <1>3, <2>1, RunIsClean DEF Control, LogRun, Written, Bounded
  <2>3. QED
    BY <1>3, <2>1, <2>2 DEF Bounded
<1>12. CASE UNCHANGED trailVars
  BY <1>3, <1>12 DEF trailVars, Bounded
<1>13. QED
  BY <1>4, <1>5, <1>6, <1>7, <1>8, <1>12, <1>9, <1>10, <1>11
     DEF Sequential, Next, TrailStep, AppendStep, Append_SaveLeaves, RootStep, Root_SaveLeaves

(* The strengthened invariant is one of the specification. *)
LEMMA SequentialTypeInvHolds ==
  ASSUME Sequential
  PROVE  Spec => []SequentialTypeInv
<1>1. ASSUME Init PROVE SequentialTypeInv
  <2>1. SequentialInv
    BY <1>1, InitHasInv
  <2>2. ASSUME NEW w \in Writers PROVE Bounded(w)
    BY <1>1, AuditConstants, EmptySeq DEF Init, Bounded
  <2>3. QED
    BY <2>1, <2>2 DEF SequentialTypeInv
<1>2. SequentialTypeInv /\ [Next]_trailVars => SequentialTypeInv'
  BY StepKeepsBounds
<1>3. QED
  BY <1>1, <1>2, PTL DEF Spec

(* With one writer and no faults every variable keeps its type: the live    *)
(* file, the archive and the cached leaves hold events and nothing else.    *)
THEOREM TypeCorrect ==
  ASSUME Sequential
  PROVE  Spec => []TypeOK
<1>1. ASSUME SequentialTypeInv PROVE TypeOK
  <2>1. PICK w : Writers = {w}
    BY DEF Sequential
  <2> USE <2>1
  <2>2. Control(w) /\ LogRun(w) /\ LeavesRun(w) /\ BufRun(w) /\ Bounded(w)
    BY <1>1 DEF SequentialTypeInv, SequentialInv
  <2>3. issued \in Nat /\ issued <= MaxEvents /\ Written(w) \in Nat /\ Written(w) <= MaxEvents
        /\ Hashed(w) \in Nat /\ Hashed(w) <= MaxEvents
    BY <2>2, AuditConstants DEF Control, Bounded, Written, Hashed
  <2>4. log \in Seq(Event) /\ leaves \in Seq(Event) /\ archive \in Seq(Event)
    BY <2>2, <2>3, RunOfEvents DEF LogRun, LeavesRun, Bounded
  <2>5. Seq(Event) \subseteq Seq(Line)
    BY SeqDef DEF Line
  <2>6. /\ log \in Seq(Line) /\ archive \in Seq(Line) /\ leaves \in Seq(Event)
        /\ buf \in [Writers -> Seq(Line)]
    BY <2>2, <2>4, <2>5 DEF Control, Bounded
  <2>7. issued \in 0 .. MaxEvents /\ event \in [Writers -> 0 .. MaxEvents]
    BY <2>2, <2>3, AuditConstants DEF Control, Bounded, Event
  <2>8. unterminated \in BOOLEAN
    BY <2>2 DEF Control
  <2>9. QED
    BY <2>2, <2>6, <2>7, <2>8 DEF TypeOK, Control
<1>2. QED
  BY <1>1, SequentialTypeInvHolds, PTL
-----------------------------------------------------------------------------
(* A step leaves the number of written events alone, or writes the next.    *)
LEMMA WrittenStep ==
  ASSUME SequentialTypeInv, [Next]_trailVars, NEW w, Writers = {w}
  PROVE  \/ Written(w)' = Written(w)
         \/ Written(w)' = Written(w) + 1 /\ Written(w) + 1 \in Event
<1>1. Control(w) /\ Bounded(w)
  BY DEF SequentialTypeInv, SequentialInv
<1> USE DEF Goto, files, local
<1>2. CASE Append_Begin(w)
  <2>1. pc[w] = "idle" /\ pc'[w] = "write" /\ issued' = issued + 1 /\ issued \in Nat
    BY <1>1, <1>2 DEF Control, Append_Begin, Begin
  <2>2. QED
    BY <2>1 DEF Written
<1>3. CASE Append_WriteLine(w)
  <2>1. pc[w] = "write" /\ pc'[w] = "newline" /\ issued' = issued /\ issued \in 1 .. MaxEvents
    BY <1>1, <1>3, AuditConstants DEF Control, Bounded, Append_WriteLine
  <2>2. QED
    BY <2>1 DEF Written, Event
<1>4. CASE UNCHANGED trailVars
  BY <1>4 DEF trailVars, Written
<1>5. CASE ~Append_Begin(w) /\ ~Append_WriteLine(w) /\ Next
  <2>1. issued' = issued /\ pc[w] # "write" /\ pc'[w] # "write"
    BY <1>1, <1>5 DEF Control, Next, TrailStep, AppendStep, RootStep, AfterMerkle,
         Append_WriteNewline, LoadLeaves, Append_SaveLeaves, TruncateLeaves, WriteLeaves,
         Append_Return, Retain_Read, Retain_Archive, Retain_Truncate, Retain_Rewrite,
         Root_LoadLeaves, Root_Trust, Root_Rebuild, Root_SaveLeaves, Root_Show
  <2>2. QED
    BY <2>1 DEF Written
<1>6. QED
  BY <1>2, <1>3, <1>4, <1>5

(* A run that is one longer is the shorter one with the next event added. *)
LEMMA RunGrows ==
  ASSUME NEW s, NEW t, NEW n \in Nat, RunTo(s, n), Len(s) = n,
         RunTo(t, n + 1), Len(t) = n + 1
  PROVE  t = Append(s, n + 1)
<1> DEFINE longer == Append(s, n + 1)
<1>1. RunTo(longer, n + 1) /\ Len(longer) = n + 1
  BY RunAppend
<1> HIDE DEF longer
<1>2. n + 1 \in Nat /\ Len(t) = Len(longer)
  BY <1>1
<1>3. t = longer
  BY <1>1, <1>2, RunUnique
<1>4. QED
  BY <1>3 DEF longer

(* TrailIsRun as a state predicate. *)
TrailRuns ==
  \A w \in Writers :
    /\ RunTo(VisibleTrail, Written(w))
    /\ Len(VisibleTrail) = Written(w)
    /\ Written(w) \in Nat

(* One process that archives what it moves keeps all that it has written. *)
LEMMA TrailRunsHolds ==
  ASSUME Sequential, ArchiveEnabled
  PROVE  Spec => []TrailRuns
<1>1. ASSUME SequentialInv PROVE TrailRuns
  BY <1>1, TrailIsRun DEF TrailRuns, Sequential
<1>2. QED
  BY <1>1, SequentialInductive, PTL

(* A trail of as many events as are written is extended, or it stays. *)
LEMMA VisibleStep ==
  ASSUME NEW w, Writers = {w}, TrailRuns, TrailRuns',
         \/ Written(w)' = Written(w)
         \/ Written(w)' = Written(w) + 1 /\ Written(w) + 1 \in Event
  PROVE  [AppendOnly!Next]_VisibleTrail
<1>1. RunTo(VisibleTrail, Written(w)) /\ Len(VisibleTrail) = Written(w) /\ Written(w) \in Nat
  BY DEF TrailRuns
<1>2. /\ RunTo(VisibleTrail', Written(w)') /\ Len(VisibleTrail') = Written(w)'
      /\ Written(w)' \in Nat
  BY DEF TrailRuns
<1>3. CASE Written(w)' = Written(w)
  <2>1. VisibleTrail' = VisibleTrail
    BY <1>1, <1>2, <1>3, RunUnique
  <2>2. QED
    BY <2>1
<1>4. CASE Written(w)' = Written(w) + 1 /\ Written(w) + 1 \in Event
  <2>1. VisibleTrail' = Append(VisibleTrail, Written(w) + 1)
    BY <1>1, <1>2, <1>4, RunGrows
  <2>2. QED
    BY <1>4, <2>1 DEF AppendOnly!Next, AppendOnly!Record
<1>5. QED
  BY <1>3, <1>4

(* The empty trail is the empty log. *)
LEMMA VisibleInit ==
  ASSUME Sequential, Init, TrailRuns
  PROVE  AppendOnly!Init
<1>1. PICK w : Writers = {w}
  BY DEF Sequential
<1>2. RunTo(VisibleTrail, Written(w)) /\ Len(VisibleTrail) = Written(w)
  BY <1>1 DEF TrailRuns
<1>3. Written(w) = 0
  BY <1>1 DEF Init, Written
<1>4. QED
  BY <1>2, <1>3, EmptySeq DEF RunTo, AppendOnly!Init

(* The audit trail implements an append-only log: to a reader of archive    *)
(* and live file every step of append_event_with_retention,                 *)
(* enforce_audit_retention and current_merkle_root either adds the next     *)
(* event at the end or changes nothing.                                     *)
THEOREM ImplementsLog ==
  ASSUME Sequential, ArchiveEnabled
  PROVE  Spec => ImplementsAppendOnlyLog
<1>1. Init /\ TrailRuns => AppendOnly!Init
  BY VisibleInit
<1>2. ASSUME SequentialTypeInv, TrailRuns, TrailRuns', [Next]_trailVars
      PROVE  [AppendOnly!Next]_VisibleTrail
  <2>1. PICK w : Writers = {w}
    BY DEF Sequential
  <2>2. QED
    BY <1>2, <2>1, WrittenStep, VisibleStep
<1>3. QED
  BY <1>1, <1>2, SequentialTypeInvHolds, TrailRunsHolds, PTL
     DEF Spec, ImplementsAppendOnlyLog, AppendOnly!Spec
-----------------------------------------------------------------------------
(* The dashboard's periodic work, without faults *)

Faultless == ~Crashes /\ ~IoErrors /\ ~LostReplies

(* There is one writer. *)
LEMMA UiIsTheWriter == Sequential /\ Writers = {Ui} /\ TheWriter = Ui
  BY OneDashboard DEF Sequential, TheWriter

(* Without faults these steps are never taken. *)
LEMMA NoFaults ==
  ASSUME Faultless
  PROVE  ~Trail_Fault /\ ~Restart /\ ~Stream_ReadFails /\ ~Anchor_StoreFails /\ ~Anchor_ReplyLost
  BY DEF Faultless, Trail_Fault, FaultStep, Abandon, Append_WriteFails, Append_MerkleFails,
     ReadFails, LoadLeaves_Fails, Root_LoadFails, Root_ReadFails,
     Restart, Stream_ReadFails, Anchor_StoreFails, Anchor_ReplyLost

(* To the files a step of the dashboard is one of the trail, or one of the  *)
(* three that lead to an anchor event.                                     *)
LEMMA PollSteps ==
  ASSUME Faultless, [PollNext]_pollVars
  PROVE  [Next]_trailVars \/ Anchor_Due \/ Anchor_Rejected \/ Anchor_Submit
<1> USE UiIsTheWriter
<1>1. ASSUME TrailStep(Ui) PROVE Next
  BY <1>1 DEF Next
<1>2. CASE Anchor_Skip
  <2>1. Root_Show(Ui)
    BY <1>2 DEF Anchor_Skip, Root_Show
  <2>2. QED
    BY <1>1, <2>1 DEF TrailStep
<1>3. CASE Anchor_Store
  BY <1>1, <1>3 DEF Anchor_Store, TrailStep
<1>4. CASE Stream_Poll \/ UNCHANGED pollVars
  BY <1>4 DEF Stream_Poll, pollVars
<1>5. CASE Trail_Step \/ Trail_Rewrite
  BY <1>1, <1>5 DEF Trail_Step, Trail_Rewrite, TrailStep, AppendStep
<1>6. QED
  BY <1>2, <1>3, <1>4, <1>5, NoFaults DEF PollNext, AnchorStep

(* What those three do to the trail: nothing, or a new event begins.        *)
LEMMA AnchorMoves ==
  ASSUME SequentialTypeInv, Anchor_Due \/ Anchor_Rejected \/ Anchor_Submit
  PROVE  /\ pc[Ui] \in {"root", "submit"}
         /\ UNCHANGED <<log, unterminated, leaves, archive, buf, offset, streamed, seen, trimmed>>
         /\ pc' \in [Writers -> PC] /\ event' \in [Writers -> Nat] /\ retaining' \in [Writers -> BOOLEAN]
         /\ \/ pc'[Ui] \in {"idle", "submit"} /\ UNCHANGED <<issued, event>>
            \/ pc'[Ui] = "write" /\ issued' = issued + 1 /\ event'[Ui] = issued + 1 /\ issued < MaxEvents
<1> USE UiIsTheWriter DEF Goto, files, local, streamVars
<1>1. Control(Ui)
  BY DEF SequentialTypeInv, SequentialInv
<1>2. CASE Anchor_Due
  BY <1>1, <1>2 DEF Anchor_Due, Control, PC
<1>3. CASE Anchor_Rejected
  BY <1>1, <1>3 DEF Anchor_Rejected, Control, PC
<1>4. CASE Anchor_Submit
  BY <1>1, <1>4 DEF Anchor_Submit, Begin, Control, PC
<1>5. QED
  BY <1>2, <1>3, <1>4

(* So they keep the trail's invariant.                                      *)
LEMMA AnchorKeepsTrail ==
  ASSUME SequentialTypeInv, Anchor_Due \/ Anchor_Rejected \/ Anchor_Submit
  PROVE  SequentialTypeInv'
<1> USE UiIsTheWriter
<1>1. Control(Ui) /\ LogRun(Ui) /\ LeavesRun(Ui) /\ BufRun(Ui) /\ ArchiveRun(Ui) /\ Bounded(Ui)
  BY DEF SequentialTypeInv, SequentialInv
<1>2. /\ pc[Ui] \in {"root", "submit"}
      /\ UNCHANGED <<log, unterminated, leaves, archive, buf>>
      /\ pc' \in [Writers -> PC] /\ event' \in [Writers -> Nat] /\ retaining' \in [Writers -> BOOLEAN]
      /\ \/ pc'[Ui] \in {"idle", "submit"} /\ UNCHANGED <<issued, event>>
         \/ pc'[Ui] = "write" /\ issued' = issued + 1 /\ event'[Ui] = issued + 1 /\ issued < MaxEvents
  BY AnchorMoves
<1>3. issued \in Nat /\ issued' \in Nat
  BY <1>1, <1>2 DEF Control
<1>4. Control(Ui)'
  BY <1>1, <1>2, <1>3 DEF Control
<1>5. Written(Ui) = issued /\ Hashed(Ui) = issued /\ Written(Ui)' = issued /\ Hashed(Ui)' = issued
  <2>1. Written(Ui) = issued /\ Hashed(Ui) = issued
    BY <1>2 DEF Written, Hashed
  <2>2. CASE pc'[Ui] \in {"idle", "submit"} /\ issued' = issued
    BY <2>1, <2>2 DEF Written, Hashed
  <2>3. CASE pc'[Ui] = "write" /\ issued' = issued + 1
    <3>1. Written(Ui)' = issued' - 1 /\ Hashed(Ui)' = issued' - 1
      BY <2>3 DEF Written, Hashed
    <3>2. QED
      BY <1>3, <2>1, <2>3, <3>1
  <2>4. QED
    BY <1>2, <2>2, <2>3
<1>6. LogRun(Ui)' /\ LeavesRun(Ui)'
  <2>1. RunTo(log, issued) /\ RunTo(leaves, issued) /\ Len(log) <= Len(leaves) + (issued - issued)
    BY <1>1, <1>2, <1>5 DEF LogRun, LeavesRun
  <2>2. RunTo(log, Written(Ui))' /\ RunTo(leaves, Hashed(Ui))'
    BY <1>2, <1>5, <2>1
  <2>3. QED
    BY <1>2, <1>5, <2>1, <2>2 DEF LogRun, LeavesRun
<1>7. BufRun(Ui)'
  BY <1>2 DEF BufRun
<1>8. ArchiveRun(Ui)'
  BY <1>1, <1>2, <1>5 DEF ArchiveRun
<1>9. Bounded(Ui)'
  BY <1>1, <1>2, <1>3, AuditConstants DEF Bounded, Control
<1>10. QED
  BY <1>4, <1>6, <1>7, <1>8, <1>9 DEF SequentialTypeInv, SequentialInv

(* Every step of the dashboard keeps the trail's invariant, and none takes  *)
(* back a written event.                                                   *)
LEMMA PollKeepsTrail ==
  ASSUME SequentialTypeInv, Faultless, [PollNext]_pollVars
  PROVE  SequentialTypeInv' /\ Written(Ui) <= Written(Ui)' /\ issued <= issued'
<1>1. Control(Ui) /\ Written(Ui) \in Nat /\ issued \in Nat
  BY UiIsTheWriter DEF SequentialTypeInv, SequentialInv, Control, Written
<1>2. CASE [Next]_trailVars
  <2>1. SequentialTypeInv'
    BY <1>2, StepKeepsBounds, UiIsTheWriter
  <2>2. Written(Ui) <= Written(Ui)'
    BY <1>1, <1>2, WrittenStep, UiIsTheWriter
  <2>3. issued' \in {issued, issued + 1}
    BY <1>2, UiIsTheWriter
       DEF Next, TrailStep, AppendStep, RootStep, Append_Begin, Begin, trailVars, Append_WriteLine,
         Append_WriteNewline, LoadLeaves, Append_SaveLeaves, TruncateLeaves, WriteLeaves,
         Append_Return, Retain_Read, Retain_Archive, Retain_Truncate, Retain_Rewrite,
         Root_LoadLeaves, Root_Trust, Root_Rebuild, Root_SaveLeaves, Root_Show
  <2>4. QED
    BY <1>1, <2>1, <2>2, <2>3
<1>3. CASE Anchor_Due \/ Anchor_Rejected \/ Anchor_Submit
  <2>1. SequentialTypeInv'
    BY <1>3, AnchorKeepsTrail
  <2>2. /\ pc[Ui] \in {"root", "submit"}
        /\ \/ pc'[Ui] \in {"idle", "submit"} /\ issued' = issued
           \/ pc'[Ui] = "write" /\ issued' = issued + 1
    BY <1>3, AnchorMoves
  <2>3. Written(Ui) = issued /\ Written(Ui)' = issued
    BY <1>1, <2>2 DEF Written
  <2>4. QED
    BY <1>1, <2>1, <2>2, <2>3
<1>4. QED
  BY <1>2, <1>3, PollSteps

(* A root is a run of the live file, and its newest event the last of all.  *)
LEMMA LogIsRun ==
  ASSUME SequentialTypeInv, pc[Ui] \in {"idle", "root", "submit"}
  PROVE  /\ RunTo(log, issued) /\ log \in Seq(Event) /\ Len(log) \in Nat
         /\ issued \in Nat /\ Written(Ui) = issued
         /\ log # <<>> => Newest(log) = issued
<1>1. Control(Ui) /\ LogRun(Ui) /\ Bounded(Ui)
  BY UiIsTheWriter DEF SequentialTypeInv, SequentialInv
<1>2. Written(Ui) = issued /\ issued \in Nat /\ issued <= MaxEvents
  BY <1>1 DEF Written, Control, Bounded
<1>3. RunTo(log, issued)
  BY <1>1, <1>2 DEF LogRun
<1>4. log \in Seq(Event)
  BY <1>2, <1>3, RunOfEvents
<1>5. log # <<>> => Newest(log) = issued
  <2>1. Len(log) \in Nat /\ \A i \in 1 .. Len(log) : log[i] = (issued - Len(log)) + i
    BY <1>3 DEF RunTo
  <2>2. log # <<>> => Len(log) \in 1 .. Len(log)
    BY <1>4, <2>1, EmptySeq
  <2>3. QED
    BY <1>2, <2>1, <2>2 DEF Newest
<1>6. QED
  BY <1>2, <1>3, <1>4, <1>5 DEF RunTo

(* A step of the trail leaves the anchoring pass where it is. *)
LEMMA TrailLeavesSubmit ==
  ASSUME SequentialTypeInv, [Next]_trailVars, pc'[Ui] = "submit"
  PROVE  pc[Ui] = "submit" /\ log' = log /\ buf' = buf
<1> USE UiIsTheWriter DEF Goto, files, local
<1>1. Control(Ui)
  BY DEF SequentialTypeInv, SequentialInv
<1>2. CASE UNCHANGED trailVars
  BY <1>2 DEF trailVars
<1>3. CASE Next
  BY <1>1, <1>3
     DEF Control, Next, TrailStep, AppendStep, RootStep, Append_Begin, Begin, Append_WriteLine,
       Append_WriteNewline, LoadLeaves, Append_SaveLeaves, TruncateLeaves, WriteLeaves, AfterMerkle,
       Append_Return, Retain_Read, Retain_Archive, Retain_Truncate, Retain_Rewrite,
       Root_LoadLeaves, Root_Trust, Root_Rebuild, Root_SaveLeaves, Root_Show
<1>4. QED
  BY <1>2, <1>3

(* A root is broadcast together with its anchor event. *)
LEMMA SubmitKeepsAnchors ==
  ASSUME PollInv, SequentialTypeInv', Anchor_Submit
  PROVE  AnchorInv'
<1> USE UiIsTheWriter
<1>1. /\ pc[Ui] = "submit" /\ buf[Ui] = log /\ log # <<>>
      /\ chain \in Seq(Seq(Event)) /\ ChainRuns /\ SequentialTypeInv
      /\ anchors \subseteq 1 .. issued /\ Cardinality(anchors) = Len(chain)
  BY DEF PollInv, AnchorInv, Anchor_Submit
<1>2. RunTo(log, issued) /\ log \in Seq(Event) /\ issued \in Nat /\ Newest(log) = issued
  BY <1>1, LogIsRun
<1>3. /\ chain' = Append(chain, log) /\ issued' = issued + 1 /\ anchors' = anchors \cup {issued + 1}
  BY <1>1 DEF Anchor_Submit, Begin
<1>4. pc'[Ui] = "write"
  BY <1>1 DEF Anchor_Submit, Begin, Goto, SequentialTypeInv, SequentialInv, Control
<1>5. /\ chain' \in Seq(Seq(Event)) /\ Len(chain') = Len(chain) + 1 /\ Len(chain) \in Nat
      /\ DOMAIN chain' = 1 .. Len(chain) + 1 /\ DOMAIN chain = 1 .. Len(chain)
      /\ \A k \in 1 .. Len(chain) : chain'[k] = chain[k]
      /\ chain'[Len(chain) + 1] = log
  BY <1>1, <1>2, <1>3, AppendProperties, LenProperties
<1>6. ChainRuns'
  <2>1. ASSUME NEW k \in DOMAIN chain'
        PROVE  chain'[k] # <<>> /\ RunTo(chain'[k], Newest(chain'[k])) /\ Newest(chain'[k]) < issued'
    <3>1. CASE k \in 1 .. Len(chain)
      <4>1. chain[k] # <<>> /\ RunTo(chain[k], Newest(chain[k])) /\ Newest(chain[k]) < issued
        BY <1>1, <1>5, <3>1 DEF ChainRuns
      <4>2. chain[k] \in Seq(Event) /\ Newest(chain[k]) \in Nat
        <5>1. chain[k] \in Seq(Event)
          BY <1>1, <1>5, <3>1
        <5>2. Len(chain[k]) \in 1 .. Len(chain[k])
          BY <4>1, <5>1, EmptySeq
        <5>3. chain[k][Len(chain[k])] \in Event
          BY <5>1, <5>2
        <5>4. QED
          BY <5>1, <5>3 DEF Newest, Event
      <4>3. QED
        BY <1>2, <1>3, <1>5, <3>1, <4>1, <4>2
    <3>2. CASE k = Len(chain) + 1
      BY <1>1, <1>2, <1>3, <1>5, <3>2
    <3>3. QED
      BY <1>5, <3>1, <3>2
  <2>2. ASSUME NEW j \in DOMAIN chain', NEW k \in DOMAIN chain', j < k
        PROVE  Newest(chain'[j]) < Newest(chain'[k])
    <3>1. j \in 1 .. Len(chain) /\ chain'[j] = chain[j]
      BY <1>5, <2>2
    <3>2. CASE k \in 1 .. Len(chain)
      BY <1>1, <1>5, <2>2, <3>1, <3>2 DEF ChainRuns
    <3>3. CASE k = Len(chain) + 1
      <4>1. Newest(chain[j]) < issued
        BY <1>1, <1>5, <3>1 DEF ChainRuns
      <4>2. QED
        BY <1>2, <1>5, <3>1, <3>3, <4>1
    <3>4. QED
      BY <1>5, <3>2, <3>3
  <2>3. QED
    BY <2>1, <2>2 DEF ChainRuns
<1>7. anchors' \subseteq 1 .. issued' /\ Cardinality(anchors') = Len(chain')
  <2>1. IsFiniteSet(anchors)
    <3>1. IsFiniteSet(1 .. issued)
      BY <1>2, FS_Interval
    <3>2. QED
      BY <1>1, <3>1, FS_Subset
  <2>2. issued + 1 \notin anchors
    BY <1>1, <1>2
  <2>3. Cardinality(anchors \cup {issued + 1}) = Cardinality(anchors) + 1
    BY <2>1, <2>2, FS_AddElement
  <2>4. QED
    BY <1>1, <1>2, <1>3, <1>5, <2>3
<1>8. QED
  BY <1>4, <1>5, <1>6, <1>7 DEF AnchorInv

(* The other steps leave the chain alone. *)
LEMMA PollKeepsAnchors ==
  ASSUME PollInv, Faultless, [PollNext]_pollVars
  PROVE  AnchorInv'
<1> USE UiIsTheWriter
<1>1. /\ SequentialTypeInv' /\ issued <= issued'
      /\ SequentialTypeInv /\ AnchorInv
  BY PollKeepsTrail DEF PollInv
<1>2. CASE Anchor_Submit
  BY <1>1, <1>2, SubmitKeepsAnchors
<1>3. CASE ~Anchor_Submit
  <2>1. chain' = chain /\ anchors' = anchors
    <3>1. CASE AnchorStep
      <4>1. CASE Anchor_Skip \/ Anchor_Due \/ Anchor_Rejected
        BY <4>1 DEF Anchor_Skip, Anchor_Due, Anchor_Rejected, anchorVars
      <4>2. CASE Anchor_Store \/ Anchor_StoreFails
        BY <4>2 DEF Anchor_Store, Anchor_StoreFails
      <4>3. ~Anchor_ReplyLost
        BY DEF Anchor_ReplyLost, Faultless
      <4>4. QED
        BY <1>3, <3>1, <4>1, <4>2, <4>3 DEF AnchorStep
    <3>2. CASE Trail_Step \/ Trail_Rewrite \/ Trail_Fault \/ Restart
      BY <3>2 DEF Trail_Step, TrailUnchanged, Trail_Rewrite, Trail_Fault, Restart, anchorVars
    <3>3. CASE Stream_Poll \/ UNCHANGED pollVars
      BY <3>3 DEF Stream_Poll, pollVars, anchorVars
    <3>4. QED
      BY <3>1, <3>2, <3>3, NoFaults DEF PollNext
  <2>2. issued \in Nat /\ issued' \in Nat
    BY <1>1 DEF SequentialTypeInv, SequentialInv, Control
  <2>3. ChainRuns'
    <3>1. ASSUME NEW k \in DOMAIN chain PROVE Newest(chain[k]) < issued'
      <4>1. Newest(chain[k]) < issued /\ RunTo(chain[k], Newest(chain[k])) /\ chain[k] # <<>>
        BY <1>1 DEF AnchorInv, ChainRuns
      <4>2. chain[k] \in Seq(Event)
        BY <1>1 DEF AnchorInv
      <4>3. Len(chain[k]) \in 1 .. Len(chain[k])
        BY <4>1, <4>2, EmptySeq
      <4>4. Newest(chain[k]) \in Nat
        <5>1. chain[k][Len(chain[k])] \in Event
          BY <4>2, <4>3
        <5>2. QED
          BY <5>1, AuditConstants DEF Newest, Event
      <4>5. QED
        BY <1>1, <2>2, <4>1, <4>4
    <3>2. QED
      BY <1>1, <2>1, <3>1 DEF AnchorInv, ChainRuns
  <2>4. ASSUME pc'[Ui] = "submit"
        PROVE  buf'[Ui] = log' /\ log' # <<>>
    <3>1. CASE [Next]_trailVars
      BY <1>1, <2>4, <3>1, TrailLeavesSubmit DEF AnchorInv
    <3>2. CASE Anchor_Due
      <4>1. pc[Ui] = "root" /\ buf[Ui] # <<>> /\ log' = log /\ buf' = buf
        BY <3>2 DEF Anchor_Due, files, local
      <4>2. buf[Ui] = log
        BY <1>1, <4>1 DEF SequentialTypeInv, SequentialInv, BufRun
      <4>3. QED
        BY <4>1, <4>2
    <3>3. CASE Anchor_Rejected
      <4>1. Control(Ui)
        BY <1>1 DEF SequentialTypeInv, SequentialInv
      <4>2. pc'[Ui] = "idle"
        BY <3>3, <4>1 DEF Anchor_Rejected, Goto, Control
      <4>3. QED
        BY <2>4, <4>2
    <3>4. QED
      BY <1>3, <3>1, <3>2, <3>3, PollSteps
  <2>5. anchors' \subseteq 1 .. issued' /\ Cardinality(anchors') = Len(chain')
    BY <1>1, <2>1, <2>2 DEF AnchorInv
  <2>6. QED
    BY <1>1, <2>1, <2>3, <2>4, <2>5 DEF AnchorInv
<1>4. QED
  BY <1>2, <1>3

(* Until retention rewrites the file, it grows with the written events.     *)
LEMMA LogGrows ==
  ASSUME SequentialTypeInv, [Next]_trailVars, ~Retain_Rewrite(Ui), pc'[Ui] # "rewrite"
  PROVE  pc[Ui] # "rewrite" /\ Len(log') + Written(Ui) = Len(log) + Written(Ui)'
<1> USE UiIsTheWriter DEF Goto, files, local
<1>1. Control(Ui) /\ LogRun(Ui)
  BY DEF SequentialTypeInv, SequentialInv
<1>2. Written(Ui) \in Nat /\ issued \in Nat /\ Len(log) \in Nat
  BY <1>1 DEF Control, LogRun, RunTo, Written
<1>3. CASE UNCHANGED trailVars
  BY <1>2, <1>3 DEF trailVars, Written
<1>4. CASE Append_Begin(Ui)
  <2>1. pc[Ui] = "idle" /\ pc'[Ui] = "write" /\ issued' = issued + 1 /\ log' = log
    BY <1>1, <1>4 DEF Control, Append_Begin, Begin
  <2>2. QED
    BY <1>2, <2>1 DEF Written
<1>5. CASE Append_WriteLine(Ui)
  <2>1. pc[Ui] = "write" /\ pc'[Ui] = "newline" /\ issued' = issued /\ ~unterminated
    BY <1>1, <1>5 DEF Control, Append_WriteLine
  <2>2. log' = Append(log, event[Ui]) /\ log \in Seq(Nat) /\ event[Ui] \in Nat
    BY <1>1, <1>5, <2>1 DEF Control, LogRun, RunTo, Append_WriteLine, Landed
  <2>3. Len(log') = Len(log) + 1
    BY <2>2, AppendProperties
  <2>4. QED
    BY <1>2, <2>1, <2>3 DEF Written
<1>6. CASE Append_WriteNewline(Ui)
  <2>1. pc[Ui] = "newline" /\ pc'[Ui] = "merkle" /\ issued' = issued /\ log' = log
    BY <1>1, <1>6 DEF Control, Append_WriteNewline
  <2>2. QED
    BY <1>2, <2>1 DEF Written
<1>7. CASE Retain_Truncate(Ui)
  BY <1>1, <1>7 DEF Control, Retain_Truncate
<1>8. CASE \/ LoadLeaves(Ui) \/ Append_SaveLeaves(Ui) \/ Append_Return(Ui)
           \/ Retain_Read(Ui) \/ Retain_Archive(Ui) \/ RootStep(Ui) \/ Root_Show(Ui)
  <2>1. /\ log' = log /\ issued' = issued
        /\ pc[Ui] \notin {"write", "rewrite"} /\ pc'[Ui] \notin {"write", "rewrite"}
    BY <1>1, <1>8
       DEF Control, LoadLeaves, Append_SaveLeaves, TruncateLeaves, WriteLeaves, AfterMerkle,
         Append_Return, Retain_Read, Retain_Archive, RootStep, Root_LoadLeaves, Root_Trust,
         Root_Rebuild, Root_SaveLeaves, Root_Show
  <2>2. QED
    BY <1>2, <2>1 DEF Written
<1>9. QED
  BY <1>3, <1>4, <1>5, <1>6, <1>7, <1>8 DEF Next, TrailStep, AppendStep

(* The lines behind an offset are events, whatever the offset. *)
LEMMA SkippedAreEvents ==
  ASSUME NEW s, NEW n \in Nat, RunTo(s, n), n <= MaxEvents, NEW k \in Nat
  PROVE  /\ Parsed(Skip(s, k)) \in Seq(Event)
         /\ k <= Len(s) => /\ RunTo(Parsed(Skip(s, k)), n)
                           /\ Len(Parsed(Skip(s, k))) = Len(s) - k
<1>1. Len(s) \in Nat
  BY DEF RunTo
<1>2. CASE k <= Len(s)
  <2>1. RunTo(Skip(s, k), (n - Len(s)) + Len(s)) /\ Len(Skip(s, k)) = (Len(s) - (k + 1)) + 1
    <3>1. k + 1 \in 1 .. Len(s) + 1 /\ Len(s) \in (k + 1) - 1 .. Len(s)
      BY <1>1, <1>2
    <3>2. QED
      BY <3>1, RunPart DEF Skip
  <2>2. (n - Len(s)) + Len(s) = n /\ (Len(s) - (k + 1)) + 1 = Len(s) - k
    BY <1>1
  <2>3. RunTo(Skip(s, k), n) /\ Len(Skip(s, k)) = Len(s) - k
    BY <2>1, <2>2
  <2>4. Parsed(Skip(s, k)) = Skip(s, k)
    BY <2>3, RunIsClean
  <2>5. QED
    BY <2>3, <2>4, RunOfEvents
<1>3. CASE k > Len(s)
  <2>1. Skip(s, k) = <<>>
    BY <1>1, <1>3, SubSeqEmpty DEF Skip
  <2>2. RunTo(<<>>, n)
    BY EmptyRun
  <2>3. QED
    BY <1>1, <1>3, <2>1, <2>2, RunIsClean, RunOfEvents
<1>4. QED
  BY <1>1, <1>2, <1>3

(* The offset of the stream stays right until retention moves the lines.    *)
LEMMA PollKeepsStream ==
  ASSUME PollInv, Faultless, [PollNext]_pollVars
  PROVE  StreamInv'
<1> USE UiIsTheWriter
<1>1. /\ SequentialTypeInv /\ SequentialTypeInv' /\ StreamInv
      /\ Written(Ui) <= Written(Ui)' /\ seen \in Nat /\ seen <= Written(Ui)
  BY PollKeepsTrail DEF PollInv, StreamInv
<1>2. Control(Ui) /\ Written(Ui) \in Nat /\ Written(Ui)' \in Nat /\ Len(log) \in Nat /\ Len(log') \in Nat
  BY <1>1 DEF SequentialTypeInv, SequentialInv, Control, LogRun, RunTo, Written
<1>3. CASE Stream_Poll
  <2>1. /\ pc[Ui] = "idle" /\ streamed' = streamed \o Parsed(Skip(log, offset))
        /\ offset' = Len(log) /\ seen' = issued /\ log' = log /\ issued' = issued /\ pc' = pc
    BY <1>3 DEF Stream_Poll, trailVars, files
  <2>2. RunTo(log, issued) /\ issued \in Nat /\ Written(Ui) = issued /\ issued <= MaxEvents
    BY <1>1, <2>1, LogIsRun DEF SequentialTypeInv, Bounded
  <2>3. streamed' \in Seq(Event)
    BY <1>1, <2>1, <2>2, SkippedAreEvents, ConcatProperties DEF StreamInv
  <2>4. Written(Ui)' = issued
    BY <2>1, <2>2 DEF Written
  <2>5. QED
    BY <1>2, <2>1, <2>2, <2>3, <2>4 DEF StreamInv
<1>4. CASE ~Stream_Poll
  <2>1. UNCHANGED <<offset, streamed, seen>> /\ (trimmed' = trimmed \/ (Trail_Rewrite /\ trimmed'))
    <3>1. CASE AnchorStep
      <4>1. CASE Anchor_Skip \/ Anchor_Due \/ Anchor_Rejected \/ Anchor_Submit
        BY <4>1 DEF Anchor_Skip, Anchor_Due, Anchor_Rejected, Anchor_Submit, streamVars
      <4>2. CASE Anchor_Store \/ Anchor_StoreFails
        BY <4>2 DEF Anchor_Store, Anchor_StoreFails, streamVars
      <4>3. ~Anchor_ReplyLost
        BY DEF Anchor_ReplyLost, Faultless
      <4>4. QED
        BY <3>1, <4>1, <4>2, <4>3 DEF AnchorStep
    <3>2. CASE Trail_Step \/ Trail_Rewrite
      BY <3>2 DEF Trail_Step, TrailUnchanged, Trail_Rewrite, streamVars
    <3>3. ~Trail_Fault /\ ~Restart /\ ~Stream_ReadFails
      BY NoFaults
    <3>4. CASE UNCHANGED pollVars
      BY <3>4 DEF pollVars, streamVars
    <3>5. QED
      BY <1>4, <3>1, <3>2, <3>3, <3>4 DEF PollNext
  <2>2. seen' <= Written(Ui)'
    BY <1>1, <1>2, <2>1
  <2>3. ASSUME ~trimmed', pc'[Ui] # "rewrite"
        PROVE  offset' + Written(Ui)' = Len(log') + seen'
    <3>1. ~trimmed /\ ~Trail_Rewrite
      <4>1. ~Trail_Rewrite
        BY <2>3 DEF Trail_Rewrite
      <4>2. QED
        BY <2>1, <2>3, <4>1
    <3>2. CASE [Next]_trailVars
      <4>1. CASE Retain_Rewrite(Ui)
        <5>1. pc[Ui] = "rewrite" /\ pc'[Ui] = "done"
          BY <1>2, <4>1 DEF Retain_Rewrite, Goto, Control
        <5>2. ~(\/ Append_Begin(Ui) \/ RootStep(Ui) \/ Root_Show(Ui) \/ Append_Return(Ui))
          BY <5>1
             DEF Append_Begin, RootStep, Root_Show, Append_Return, Root_LoadLeaves, Root_Trust,
               Root_Rebuild, Root_SaveLeaves, TruncateLeaves, WriteLeaves
        <5>3. ~AnchorStep
          BY <5>1, <5>2
             DEF AnchorStep, Anchor_Skip, Anchor_Due, Anchor_Rejected, Anchor_Submit,
               Anchor_ReplyLost, Anchor_Store, Anchor_StoreFails
        <5>4. ~Trail_Step
          BY <4>1, <5>2 DEF Trail_Step
        <5>5. ~Trail_Fault /\ ~Restart /\ ~Stream_ReadFails
          BY NoFaults
        <5>6. ~UNCHANGED pollVars
          BY <5>1 DEF pollVars, trailVars
        <5>7. QED
          BY <1>4, <3>1, <5>3, <5>4, <5>5, <5>6 DEF PollNext
      <4>2. CASE ~Retain_Rewrite(Ui)
        <5>1. pc[Ui] # "rewrite" /\ Len(log') + Written(Ui) = Len(log) + Written(Ui)'
          BY <1>1, <2>3, <3>2, <4>2, LogGrows
        <5>2. offset + Written(Ui) = Len(log) + seen
          BY <1>1, <3>1, <5>1 DEF StreamInv
        <5>3. offset \in Nat
          BY <1>1 DEF StreamInv
        <5>4. QED
          BY <1>1, <1>2, <2>1, <5>1, <5>2, <5>3
      <4>3. QED
        BY <4>1, <4>2
    <3>3. CASE Anchor_Due \/ Anchor_Rejected \/ Anchor_Submit
      <4>1. /\ pc[Ui] \in {"root", "submit"} /\ log' = log
            /\ \/ pc'[Ui] \in {"idle", "submit"} /\ issued' = issued
               \/ pc'[Ui] = "write" /\ issued' = issued + 1
        BY <1>1, <3>3, AnchorMoves
      <4>2. issued \in Nat /\ Written(Ui) = issued
        BY <1>1, <1>2, <4>1 DEF Control, Written
      <4>3. Written(Ui)' = issued
        BY <4>1, <4>2 DEF Written
      <4>4. offset + Written(Ui) = Len(log) + seen
        BY <1>1, <3>1, <4>1 DEF StreamInv
      <4>5. QED
        BY <2>1, <4>1, <4>2, <4>3, <4>4
    <3>4. QED
      BY <3>2, <3>3, PollSteps
  <2>4. QED
    BY <1>1, <2>1, <2>2, <2>3 DEF StreamInv
<1>5. QED
  BY <1>3, <1>4

(* In the first state nothing is anchored or streamed. *)
LEMMA PollInitInv ==
  ASSUME PollInit
  PROVE  PollInv
<1>1. Init /\ chain = <<>> /\ anchors = {} /\ offset = 0 /\ streamed = <<>> /\ seen = 0
  BY DEF PollInit
<1>2. pc[Ui] = "idle" /\ issued = 0 /\ log = <<>>
  BY <1>1, UiIsTheWriter DEF Init
<1>3. SequentialTypeInv
  <2>1. SequentialInv
    BY <1>1, InitHasInv
  <2>2. ASSUME NEW w \in Writers PROVE Bounded(w)
    BY <1>1, AuditConstants, EmptySeq DEF Init, Bounded
  <2>3. QED
    BY <2>1, <2>2 DEF SequentialTypeInv
<1>4. DOMAIN chain = {} /\ Len(chain) = 0 /\ chain \in Seq(Seq(Event)) /\ streamed \in Seq(Event)
      /\ Len(log) = 0
  BY <1>1, <1>2, EmptySeq, LenProperties
<1>5. AnchorInv
  <2>1. ChainRuns
    BY <1>4 DEF ChainRuns
  <2>2. Cardinality(anchors) = Len(chain)
    BY <1>1, <1>4, FS_EmptySet
  <2>3. QED
    BY <1>1, <1>2, <1>4, <2>1, <2>2 DEF AnchorInv
<1>6. StreamInv
  <2>1. Written(Ui) = 0
    BY <1>2 DEF Written
  <2>2. QED
    BY <1>1, <1>4, <2>1 DEF StreamInv
<1>7. QED
  BY <1>3, <1>5, <1>6 DEF PollInv

(* What every step of the dashboard keeps, without faults: the trail's      *)
(* files, the roots on the chain and the stream's offset fit together      *)
(* (anchor_audit_if_due, read_from_offset, enforce_audit_retention).       *)
THEOREM PollInvariantHolds ==
  ASSUME Faultless
  PROVE  PollSpec => []PollInv
<1>1. PollInit => PollInv
  BY PollInitInv
<1>2. PollInv /\ [PollNext]_pollVars => PollInv'
  <2> SUFFICES ASSUME PollInv, [PollNext]_pollVars PROVE PollInv'
    OBVIOUS
  <2>1. SequentialTypeInv'
    BY PollKeepsTrail DEF PollInv
  <2>2. QED
    BY <2>1, PollKeepsAnchors, PollKeepsStream DEF PollInv
<1>3. QED
  BY <1>1, <1>2, PTL DEF PollSpec

(* A run within a longer one is a segment of it. *)
LEMMA RunIsSegment ==
  ASSUME NEW s, NEW t, NEW m \in Nat, NEW n \in Nat,
         RunTo(s, m), RunTo(t, n), Len(t) = n, m <= n
  PROVE  IsSegment(s, t)
<1> DEFINE part == SubSeq(t, (m - Len(s)) + 1, (m - Len(s)) + Len(s))
<1>1. Len(s) \in Nat /\ Len(s) <= m
  BY DEF RunTo
<1>2. (m - Len(s)) + 1 \in 1 .. Len(t) + 1 /\ (m - Len(s)) + Len(s) \in ((m - Len(s)) + 1) - 1 .. Len(t)
  BY <1>1
<1>3. RunTo(part, (n - Len(t)) + ((m - Len(s)) + Len(s)))
      /\ Len(part) = (((m - Len(s)) + Len(s)) - ((m - Len(s)) + 1)) + 1
  BY <1>2, RunPart
<1>4. (n - Len(t)) + ((m - Len(s)) + Len(s)) = m
      /\ (((m - Len(s)) + Len(s)) - ((m - Len(s)) + 1)) + 1 = Len(s)
  BY <1>1
<1> HIDE DEF part
<1>5. part = s
  BY <1>3, <1>4, RunUnique
<1>6. s = SubSeq(t, (m - Len(s)) + 1, (m - Len(s)) + Len(s))
  BY <1>5 DEF part
<1>7. m - Len(s) \in 0 .. Len(t) - Len(s)
  BY <1>1
<1>8. QED
  BY <1>6, <1>7 DEF IsSegment

(* Every root on the chain can be recomputed from archive and live file,    *)
(* although it came from a cache and retention has moved lines since       *)
(* (current_merkle_root, anchor_audit_if_due), for any number of anchors.  *)
THEOREM AnchoredVerifiableHolds ==
  ASSUME Faultless, ArchiveEnabled
  PROVE  PollSpec => []AnchoredVerifiable
<1>1. PollInv => AnchoredVerifiable
  <2> SUFFICES ASSUME PollInv, NEW k \in DOMAIN chain
               PROVE  IsSegment(chain[k], VisibleTrail)
    BY DEF AnchoredVerifiable
  <2>1. /\ RunTo(VisibleTrail, Written(Ui)) /\ Len(VisibleTrail) = Written(Ui)
        /\ Written(Ui) \in Nat
    BY TrailIsRun, UiIsTheWriter DEF PollInv, SequentialTypeInv
  <2>2. RunTo(chain[k], Newest(chain[k])) /\ Newest(chain[k]) < issued /\ chain[k] # <<>>
    BY DEF PollInv, AnchorInv, ChainRuns
  <2>3. chain[k] \in Seq(Event)
    BY DEF PollInv, AnchorInv
  <2>4. Len(chain[k]) \in 1 .. Len(chain[k])
    BY <2>2, <2>3, EmptySeq
  <2>5. chain[k][Len(chain[k])] \in Event
    BY <2>3, <2>4
  <2>6. Newest(chain[k]) \in Nat
    BY <2>5, AuditConstants DEF Newest, Event
  <2>7. issued \in Nat /\ (Written(Ui) = issued \/ Written(Ui) = issued - 1)
    BY UiIsTheWriter DEF PollInv, SequentialTypeInv, SequentialInv, Control, Written
  <2>8. Newest(chain[k]) <= Written(Ui)
    BY <2>2, <2>6, <2>7
  <2>9. QED
    BY <2>1, <2>2, <2>6, <2>8, RunIsSegment
<1>2. QED
  BY <1>1, PollInvariantHolds, PTL

(* Every root covers an event that no root before it covers: no root is     *)
(* anchored twice, nor an older window after a newer one                   *)
(* (anchor_audit_if_due).                                                  *)
THEOREM AnchorsAdvanceHolds ==
  ASSUME Faultless
  PROVE  PollSpec => []AnchorsAdvance
<1>1. PollInv => AnchorsAdvance
  <2> SUFFICES ASSUME PollInv, NEW j \in DOMAIN chain, NEW k \in DOMAIN chain, j < k
               PROVE  \E e \in Entries(chain[k]) : \A f \in Entries(chain[j]) : f < e
    BY DEF AnchorsAdvance
  <2>1. /\ RunTo(chain[j], Newest(chain[j])) /\ chain[k] # <<>> /\ chain[j] # <<>>
        /\ Newest(chain[j]) < Newest(chain[k])
        /\ chain[j] \in Seq(Event) /\ chain[k] \in Seq(Event)
    BY DEF PollInv, AnchorInv, ChainRuns
  <2>2. Len(chain[k]) \in DOMAIN chain[k] /\ Len(chain[j]) \in DOMAIN chain[j]
    BY <2>1, EmptySeq, LenProperties
  <2>3. Newest(chain[k]) \in Entries(chain[k]) /\ Newest(chain[k]) \in Event /\ Newest(chain[j]) \in Event
    BY <2>1, <2>2 DEF Entries, Newest
  <2>4. Newest(chain[k]) \in Nat /\ Newest(chain[j]) \in Nat
    BY <2>3, AuditConstants DEF Event
  <2>5. ASSUME NEW i \in DOMAIN chain[j]
        PROVE  chain[j][i] < Newest(chain[k])
    <3>1. i \in 1 .. Len(chain[j]) /\ Len(chain[j]) \in Nat
      BY <2>1, LenProperties
    <3>2. chain[j][i] = (Newest(chain[j]) - Len(chain[j])) + i
      BY <2>1, <3>1 DEF RunTo
    <3>3. QED
      BY <2>1, <2>4, <3>1, <3>2
  <2>6. QED
    BY <2>3, <2>5 DEF Entries
<1>2. QED
  BY <1>1, PollInvariantHolds, PTL

(* Whenever no call is running there are as many anchor events in the trail *)
(* as transactions on the chain (anchor_audit_if_due), wherever retention  *)
(* has put them.                                                           *)
THEOREM AnchorsRecordedHolds ==
  ASSUME Faultless, ArchiveEnabled
  PROVE  PollSpec => []AnchorsRecorded
<1>1. PollInv => AnchorsRecorded
  <2> SUFFICES ASSUME PollInv, pc[Ui] = "idle"
               PROVE  Len(chain) = Cardinality({i \in DOMAIN VisibleTrail : VisibleTrail[i] \in anchors})
    BY DEF AnchorsRecorded
  <2>1. /\ RunTo(VisibleTrail, Written(Ui)) /\ Len(VisibleTrail) = Written(Ui)
        /\ Written(Ui) \in Nat
    BY TrailIsRun, UiIsTheWriter DEF PollInv, SequentialTypeInv
  <2>2. Written(Ui) = issued
    BY DEF Written
  <2>3. DOMAIN VisibleTrail = 1 .. issued /\ \A i \in 1 .. issued : VisibleTrail[i] = i
    BY <2>1, <2>2, LenProperties DEF RunTo
  <2>4. anchors \subseteq 1 .. issued /\ Cardinality(anchors) = Len(chain)
    BY DEF PollInv, AnchorInv
  <2>5. {i \in DOMAIN VisibleTrail : VisibleTrail[i] \in anchors} = anchors
    BY <2>3, <2>4
  <2>6. QED
    BY <2>4, <2>5
<1>2. QED
  BY <1>1, PollInvariantHolds, PTL

(* A poll of the stream emits every event since the last one, unless        *)
(* retention has rewritten the file in between (read_from_offset).         *)
THEOREM StreamGapsOnlyByRetentionHolds ==
  ASSUME Faultless
  PROVE  PollSpec => StreamGapsOnlyByRetention
<1>1. ASSUME PollInv, Stream_Poll, ~trimmed
      PROVE  Entries(streamed') = Entries(streamed) \cup (seen + 1 .. issued)
  <2> DEFINE news == Parsed(Skip(log, offset))
  <2>1. pc[Ui] = "idle" /\ streamed' = streamed \o news
    BY <1>1 DEF Stream_Poll
  <2>2. /\ RunTo(log, issued) /\ issued \in Nat /\ Written(Ui) = issued /\ issued <= MaxEvents
        /\ Len(log) \in Nat
    BY <1>1, <2>1, LogIsRun, UiIsTheWriter DEF PollInv, SequentialTypeInv, Bounded
  <2>3. /\ offset \in Nat /\ seen \in Nat /\ seen <= issued /\ offset + issued = Len(log) + seen
        /\ streamed \in Seq(Event)
    BY <1>1, <2>1, <2>2 DEF PollInv, StreamInv
  <2>4. offset <= Len(log) /\ Len(log) - offset = issued - seen
    BY <2>2, <2>3
  <2>5. RunTo(news, issued) /\ Len(news) = issued - seen /\ news \in Seq(Event)
    BY <2>2, <2>3, <2>4, SkippedAreEvents
  <2> HIDE DEF news
  <2>6. \A e : e \in Entries(news) <=> e \in seen + 1 .. issued
    <3>1. DOMAIN news = 1 .. issued - seen /\ \A i \in 1 .. issued - seen : news[i] = seen + i
      BY <2>2, <2>3, <2>5, LenProperties DEF RunTo
    <3>2. ASSUME NEW e \in seen + 1 .. issued PROVE e \in Entries(news)
      <4>1. e - seen \in DOMAIN news /\ news[e - seen] = e
        BY <2>2, <2>3, <3>1
      <4>2. QED
        BY <4>1 DEF Entries
    <3>3. ASSUME NEW i \in DOMAIN news PROVE news[i] \in seen + 1 .. issued
      BY <2>2, <2>3, <3>1
    <3>4. QED
      BY <3>2, <3>3 DEF Entries
  <2>7. /\ Len(streamed \o news) = Len(streamed) + Len(news)
        /\ Len(streamed) \in Nat /\ Len(news) \in Nat
        /\ DOMAIN (streamed \o news) = 1 .. Len(streamed) + Len(news)
        /\ DOMAIN streamed = 1 .. Len(streamed) /\ DOMAIN news = 1 .. Len(news)
        /\ \A i \in 1 .. Len(streamed) : (streamed \o news)[i] = streamed[i]
        /\ \A i \in 1 .. Len(news) : (streamed \o news)[Len(streamed) + i] = news[i]
    <3>1. /\ Len(streamed) \in Nat /\ Len(news) \in Nat
          /\ DOMAIN streamed = 1 .. Len(streamed) /\ DOMAIN news = 1 .. Len(news)
      BY <2>3, <2>5, LenProperties
    <3>2. /\ streamed \o news \in Seq(Event)
          /\ Len(streamed \o news) = Len(streamed) + Len(news)
          /\ \A i \in 1 .. Len(streamed) + Len(news) : (streamed \o news)[i] =
               IF i <= Len(streamed) THEN streamed[i] ELSE news[i - Len(streamed)]
      BY <2>3, <2>5, ConcatProperties
    <3>3. DOMAIN (streamed \o news) = 1 .. Len(streamed) + Len(news)
      BY <3>2, LenProperties
    <3>4. ASSUME NEW i \in 1 .. Len(streamed) PROVE (streamed \o news)[i] = streamed[i]
      <4>1. i \in 1 .. Len(streamed) + Len(news) /\ i <= Len(streamed)
        BY <3>1
      <4>2. QED
        BY <3>2, <4>1
    <3>5. ASSUME NEW i \in 1 .. Len(news) PROVE (streamed \o news)[Len(streamed) + i] = news[i]
      <4>1. /\ Len(streamed) + i \in 1 .. Len(streamed) + Len(news) /\ ~(Len(streamed) + i <= Len(streamed))
            /\ (Len(streamed) + i) - Len(streamed) = i
        BY <3>1
      <4>2. QED
        BY <3>2, <4>1
    <3>6. QED
      BY <3>1, <3>2, <3>3, <3>4, <3>5
  <2>8. \A e : e \in Entries(streamed \o news) <=> e \in Entries(streamed) \/ e \in Entries(news)
    <3>1. ASSUME NEW i \in 1 .. Len(streamed) + Len(news)
          PROVE  \/ i \in 1 .. Len(streamed)
                 \/ i - Len(streamed) \in 1 .. Len(news) /\ Len(streamed) + (i - Len(streamed)) = i
      BY <2>7
    <3>2. ASSUME NEW i \in 1 .. Len(news) PROVE Len(streamed) + i \in 1 .. Len(streamed) + Len(news)
      BY <2>7
    <3>3. ASSUME NEW i \in 1 .. Len(streamed) PROVE i \in 1 .. Len(streamed) + Len(news)
      BY <2>7
    <3>4. QED
      BY <2>7, <3>1, <3>2, <3>3 DEF Entries
  <2>9. QED
    BY <2>1, <2>6, <2>8
<1>2. PollInv => [Stream_Poll /\ ~trimmed =>
                    Entries(streamed') = Entries(streamed) \cup (seen + 1 .. issued)]_pollVars
  BY <1>1
<1>3. QED
  BY <1>2, PollInvariantHolds, PTL DEF StreamGapsOnlyByRetention

(* With anchoring and streaming going on, too, the files keep their types   *)
(* and runs, the trail its history, and a trusted root is the file's        *)
(* (append_event_with_retention, enforce_audit_retention,                  *)
(* current_merkle_root, anchor_audit_if_due).                              *)
THEOREM PollKeepsTrailInvariant ==
  ASSUME Faultless, ArchiveEnabled
  PROVE  PollSpec => [](SequentialTypeInv /\ HistoryKept /\ TrustedRoot)
<1>1. PollInv => SequentialTypeInv /\ HistoryKept /\ TrustedRoot
  BY RestIsHistory, RootIsTrusted, UiIsTheWriter DEF PollInv, SequentialTypeInv
<1>2. QED
  BY <1>1, PollInvariantHolds, PTL

(* And the dashboard's whole work on the trail implements the append-only   *)
(* log: an anchoring pass adds its one event and nothing else              *)
(* (anchor_audit_if_due, read_from_offset).                                *)
THEOREM PollImplementsLog ==
  ASSUME Faultless, ArchiveEnabled
  PROVE  PollSpec => ImplementsAppendOnlyLog
<1>1. PollInv => TrailRuns
  BY TrailIsRun, UiIsTheWriter DEF PollInv, SequentialTypeInv, TrailRuns
<1>2. PollInit /\ TrailRuns => AppendOnly!Init
  BY VisibleInit, UiIsTheWriter DEF PollInit
<1>3. ASSUME PollInv, TrailRuns, TrailRuns', [PollNext]_pollVars
      PROVE  [AppendOnly!Next]_VisibleTrail
  <2>1. SequentialTypeInv
    BY <1>3 DEF PollInv
  <2>2. CASE [Next]_trailVars
    BY <1>3, <2>1, <2>2, WrittenStep, VisibleStep, UiIsTheWriter
  <2>3. CASE Anchor_Due \/ Anchor_Rejected \/ Anchor_Submit
    <3>1. /\ pc[Ui] \in {"root", "submit"}
          /\ \/ pc'[Ui] \in {"idle", "submit"} /\ issued' = issued
             \/ pc'[Ui] = "write" /\ issued' = issued + 1
      BY <2>1, <2>3, AnchorMoves
    <3>2. issued \in Nat
      BY <2>1, UiIsTheWriter DEF SequentialTypeInv, SequentialInv, Control
    <3>3. Written(Ui)' = Written(Ui)
      BY <3>1, <3>2 DEF Written
    <3>4. QED
      BY <1>3, <3>3, VisibleStep, UiIsTheWriter
  <2>4. QED
    BY <1>3, <2>2, <2>3, PollSteps
<1>4. QED
  BY <1>1, <1>2, <1>3, PollInvariantHolds, PTL DEF PollSpec, ImplementsAppendOnlyLog, AppendOnly!Spec

-----------------------------------------------------------------------------
(* Lines and their events *)

(* The events among some lines, and where they are. *)
LEMMA EventsAre ==
  ASSUME NEW s \in Seq(Line)
  PROVE  /\ Len(s) \in Nat /\ DOMAIN s = 1 .. Len(s)
         /\ \A i \in 1 .. Len(s) : s[i] \in Line /\ (IsEvent(s[i]) <=> s[i] \in Event)
         /\ \A e : e \in EventsOf(s) <=> e \in Event /\ \E i \in 1 .. Len(s) : s[i] = e
         /\ EventsOf(s) \subseteq Nat
<1>1. Len(s) \in Nat /\ DOMAIN s = 1 .. Len(s)
  BY LenProperties
<1>2. \A i \in 1 .. Len(s) : s[i] \in Line
  BY ElementOfSeq
<1>3. JUNK \notin Event /\ BLANK \notin Event /\ Event \subseteq Nat
  BY AuditConstants DEF Event
<1>4. \A i \in 1 .. Len(s) : IsEvent(s[i]) <=> s[i] \in Event
  BY <1>2, <1>3 DEF IsEvent, Line
<1>5. ASSUME NEW e
      PROVE  e \in EventsOf(s) <=> e \in Event /\ \E i \in 1 .. Len(s) : s[i] = e
  BY <1>1, <1>2, <1>3 DEF EventsOf, Entries, Line
<1>6. QED
  BY <1>1, <1>2, <1>3, <1>4, <1>5

(* No lines, no events. *)
LEMMA NoLines ==
  ASSUME NEW old, NEW emitted, NEW n
  PROVE  /\ EventsOf(<<>>) = {} /\ Ordered(<<>>) /\ OlderOrAmong(old, <<>>)
         /\ StreamAhead(emitted, n, <<>>) /\ <<>> \in Seq(Line) /\ Len(<<>>) = 0
<1> DEFINE s == <<>>
<1>1. s \in Seq(Line) /\ Len(s) = 0 /\ DOMAIN s = {}
  BY EmptySeq
<1> HIDE DEF s
<1>2. EventsOf(s) = {}
  BY <1>1 DEF EventsOf, Entries
<1>3. Ordered(s) /\ OlderOrAmong(old, s) /\ StreamAhead(emitted, n, s)
  BY <1>1, <1>2 DEF Ordered, OlderOrAmong, StreamAhead
<1>4. QED
  BY <1>1, <1>2, <1>3 DEF s

(* A line that comes last. *)
LEMMA LineLast ==
  ASSUME NEW s \in Seq(Line), NEW line \in Line, NEW old \in Seq(Line),
         NEW emitted, NEW n \in Nat,
         Ordered(s), OlderOrAmong(old, s), StreamAhead(emitted, n, s),
         line \in Event => /\ \A e \in EventsOf(s) \cup EventsOf(old) : e < line
                           /\ \A e \in Entries(emitted) : e < line
  PROVE  /\ Append(s, line) \in Seq(Line) /\ Len(Append(s, line)) = Len(s) + 1
         /\ Append(s, line)[Len(s) + 1] = line
         /\ EventsOf(Append(s, line)) = EventsOf(s) \cup ({line} \cap Event)
         /\ Ordered(Append(s, line)) /\ OlderOrAmong(old, Append(s, line))
         /\ StreamAhead(emitted, n, Append(s, line))
<1> DEFINE t == Append(s, line)
<1>1. /\ t \in Seq(Line) /\ Len(t) = Len(s) + 1 /\ t[Len(s) + 1] = line
      /\ \A i \in 1 .. Len(s) : t[i] = s[i]
  BY AppendProperties
<1> HIDE DEF t
<1>2. Len(s) \in Nat /\ 1 .. Len(t) = 1 .. Len(s) \cup {Len(s) + 1}
  BY <1>1, EventsAre
<1>3. EventsOf(t) = EventsOf(s) \cup ({line} \cap Event)
  <2>1. ASSUME NEW e
        PROVE  e \in EventsOf(t) <=> e \in EventsOf(s) \/ (e = line /\ e \in Event)
    <3>1. e \in EventsOf(t) <=> e \in Event /\ \E i \in 1 .. Len(t) : t[i] = e
      BY <1>1, EventsAre
    <3>2. e \in EventsOf(s) <=> e \in Event /\ \E i \in 1 .. Len(s) : s[i] = e
      BY EventsAre
    <3>3. (\E i \in 1 .. Len(t) : t[i] = e) <=> (\E i \in 1 .. Len(s) : s[i] = e) \/ e = line
      BY <1>1, <1>2
    <3>4. QED
      BY <3>1, <3>2, <3>3
  <2>2. QED
    BY <2>1
<1>4. Ordered(t)
  <2>1. SUFFICES ASSUME NEW i \in 1 .. Len(t), NEW j \in 1 .. Len(t), i < j,
                        t[i] \in Event, t[j] \in Event
                 PROVE  t[i] < t[j]
    BY <1>1, EventsAre DEF Ordered
  <2>2. i \in 1 .. Len(s) /\ t[i] = s[i] /\ s[i] \in EventsOf(s)
    BY <1>1, <1>2, <2>1, EventsAre
  <2>3. CASE j = Len(s) + 1
    BY <1>1, <2>1, <2>2, <2>3
  <2>4. CASE j # Len(s) + 1
    <3>1. j \in 1 .. Len(s) /\ t[j] = s[j]
      BY <1>1, <1>2, <2>4
    <3>2. QED
      BY <2>1, <2>2, <3>1, EventsAre DEF Ordered
  <2>5. QED
    BY <2>3, <2>4
<1>5. OlderOrAmong(old, t)
  BY <1>3 DEF OlderOrAmong
<1>6. StreamAhead(emitted, n, t)
  <2>1. SUFFICES ASSUME NEW i \in 1 .. Len(t), i > n, t[i] \in Event, NEW e \in Entries(emitted)
                 PROVE  e < t[i]
    BY <1>1, EventsAre DEF StreamAhead
  <2>2. CASE i = Len(s) + 1
    BY <1>1, <2>1, <2>2
  <2>3. CASE i # Len(s) + 1
    <3>1. i \in 1 .. Len(s) /\ t[i] = s[i]
      BY <1>1, <1>2, <2>3
    <3>2. QED
      BY <2>1, <3>1, EventsAre DEF StreamAhead
  <2>4. QED
    BY <2>2, <2>3
<1>7. QED
  BY <1>1, <1>3, <1>4, <1>5, <1>6 DEF t

(* A line that spoils the last one, which the archive does not have. *)
LEMMA LineSpoilt ==
  ASSUME NEW s \in Seq(Line), NEW old \in Seq(Line), NEW emitted, NEW n \in Nat, s # <<>>,
         Ordered(s), OlderOrAmong(old, s), StreamAhead(emitted, n, s),
         IsEvent(s[Len(s)]) => \A a \in EventsOf(old) : a < s[Len(s)]
  PROVE  LET t == [s EXCEPT ![Len(s)] = JUNK]
         IN  /\ t \in Seq(Line) /\ Len(t) = Len(s) /\ t[Len(s)] = JUNK
             /\ EventsOf(t) \subseteq EventsOf(s)
             /\ Ordered(t) /\ OlderOrAmong(old, t) /\ StreamAhead(emitted, n, t)
<1> DEFINE t == [s EXCEPT ![Len(s)] = JUNK]
<1>1. Len(s) \in Nat /\ Len(s) \in 1 .. Len(s) /\ JUNK \in Line
  BY EmptySeq, EventsAre DEF Line
<1>2. t \in Seq(Line) /\ Len(t) = Len(s)
  BY <1>1, ExceptSeq
<1>3. t[Len(s)] = JUNK /\ \A i \in 1 .. Len(s) : i # Len(s) => t[i] = s[i]
  BY <1>1, EventsAre
<1> HIDE DEF t
<1>4. JUNK \notin Event /\ Event \subseteq Nat
  BY AuditConstants DEF Event
<1>5. \A i \in 1 .. Len(t) : t[i] \in Event => i # Len(s) /\ t[i] = s[i]
  BY <1>2, <1>3, <1>4
<1>6. EventsOf(t) \subseteq EventsOf(s)
  BY <1>2, <1>5, EventsAre
<1>7. Ordered(t)
  <2>1. SUFFICES ASSUME NEW i \in 1 .. Len(t), NEW j \in 1 .. Len(t), i < j,
                        t[i] \in Event, t[j] \in Event
                 PROVE  t[i] < t[j]
    BY <1>2, EventsAre DEF Ordered
  <2>2. QED
    BY <1>2, <1>5, <2>1, EventsAre DEF Ordered
<1>8. OlderOrAmong(old, t)
  <2>1. SUFFICES ASSUME NEW a \in EventsOf(old), NEW e \in EventsOf(t), ~(a < e)
                 PROVE  a \in EventsOf(t)
    BY DEF OlderOrAmong
  <2>2. a \in EventsOf(s) /\ a \in Event
    BY <1>6, <2>1, EventsAre DEF OlderOrAmong
  <2>3. PICK i \in 1 .. Len(s) : s[i] = a
    BY <2>2, EventsAre
  <2>4. i # Len(s)
    <3>1. SUFFICES ASSUME i = Len(s) PROVE FALSE
      OBVIOUS
    <3>2. IsEvent(s[Len(s)])
      BY <1>1, <2>2, <2>3, <3>1, EventsAre
    <3>3. a < a /\ a \in Nat
      BY <1>4, <2>2, <2>3, <3>1, <3>2
    <3>4. QED
      BY <3>3
  <2>5. t[i] = a /\ i \in 1 .. Len(t)
    BY <1>2, <1>3, <2>3, <2>4
  <2>6. QED
    BY <1>2, <2>2, <2>5, EventsAre
<1>9. StreamAhead(emitted, n, t)
  <2>1. SUFFICES ASSUME NEW i \in 1 .. Len(t), i > n, t[i] \in Event, NEW e \in Entries(emitted)
                 PROVE  e < t[i]
    BY <1>2, EventsAre DEF StreamAhead
  <2>2. QED
    BY <1>2, <1>5, <2>1, EventsAre DEF StreamAhead
<1>10. QED
  BY <1>2, <1>3, <1>6, <1>7, <1>8, <1>9 DEF t

(* What the readers make of some lines: the same events, in order. *)
LEMMA ReadIs ==
  ASSUME NEW s \in Seq(Line), NEW r \in {NonBlank(s), Parsed(s)}
  PROVE  /\ r \in Seq(Line) /\ EventsOf(r) = EventsOf(s)
         /\ Ordered(s) => Ordered(r)
         /\ \A old : OlderOrAmong(old, s) => OlderOrAmong(old, r)
         /\ \A emitted : \A n \in Nat : StreamAhead(emitted, n, s) => StreamAhead(emitted, n, r)
<1>1. PICK dropped \in {{BLANK}, {JUNK, BLANK}} : r = Without(s, dropped)
  BY DEF NonBlank, Parsed
<1>2. r \in Seq(Line) /\ RestOf(r, s, Len(s), dropped)
  BY <1>1, WithoutIs
<1>3. \A e \in Event : e \notin dropped
  BY <1>1, AuditConstants DEF Event
<1>4. Len(s) \in Nat /\ Len(r) \in Nat
  BY <1>2, EventsAre
<1>5. EventsOf(r) = EventsOf(s)
  <2>1. ASSUME NEW e \in EventsOf(r) PROVE e \in EventsOf(s)
    <3>1. PICK i \in 1 .. Len(r) : r[i] = e
      BY <1>2, <2>1, EventsAre
    <3>2. PICK m \in i .. Len(s) : r[i] = s[m]
      BY <1>2 DEF RestOf
    <3>3. m \in 1 .. Len(s)
      BY <1>4
    <3>4. QED
      BY <1>2, <2>1, <3>1, <3>2, <3>3, EventsAre
  <2>2. ASSUME NEW e \in EventsOf(s) PROVE e \in EventsOf(r)
    <3>1. PICK m \in 1 .. Len(s) : s[m] = e
      BY <2>2, EventsAre
    <3>2. e \in Event
      BY <2>2, EventsAre
    <3>3. \E i \in 1 .. Len(r) : r[i] = e
      BY <1>2, <1>3, <3>1, <3>2 DEF RestOf
    <3>4. QED
      BY <1>2, <3>2, <3>3, EventsAre
  <2>3. QED
    BY <2>1, <2>2
<1>6. ASSUME Ordered(s) PROVE Ordered(r)
  <2>1. SUFFICES ASSUME NEW i \in 1 .. Len(r), NEW j \in 1 .. Len(r), i < j,
                        IsEvent(r[i]), IsEvent(r[j])
                 PROVE  r[i] < r[j]
    BY <1>2, EventsAre DEF Ordered
  <2>2. PICK m \in 1 .. Len(s), n \in 1 .. Len(s) : m < n /\ r[i] = s[m] /\ r[j] = s[n]
    BY <1>2, <2>1 DEF RestOf
  <2>3. QED
    BY <1>6, <2>1, <2>2, EventsAre DEF Ordered
<1>7. ASSUME NEW old, OlderOrAmong(old, s) PROVE OlderOrAmong(old, r)
  BY <1>5, <1>7 DEF OlderOrAmong
<1>8. ASSUME NEW emitted, NEW n \in Nat, StreamAhead(emitted, n, s)
      PROVE  StreamAhead(emitted, n, r)
  <2>1. SUFFICES ASSUME NEW i \in 1 .. Len(r), i > n, IsEvent(r[i]), NEW e \in Entries(emitted)
                 PROVE  e < r[i]
    BY <1>2, EventsAre DEF StreamAhead
  <2>2. PICK m \in i .. Len(s) : r[i] = s[m]
    BY <1>2 DEF RestOf
  <2>3. m \in 1 .. Len(s) /\ m > n
    BY <1>4, <2>1
  <2>4. QED
    BY <1>8, <2>1, <2>2, <2>3, EventsAre DEF StreamAhead
<1>9. QED
  BY <1>2, <1>5, <1>6, <1>7, <1>8

(* The parsed lines are all events. *)
LEMMA ParsedAreEvents ==
  ASSUME NEW s \in Seq(Line)
  PROVE  Parsed(s) \in Seq(Event)
<1>1. Parsed(s) \in Seq(Line) /\ RestOf(Parsed(s), s, Len(s), {JUNK, BLANK})
  BY WithoutIs DEF Parsed
<1>2. ASSUME NEW i \in 1 .. Len(Parsed(s)) PROVE Parsed(s)[i] \in Event
  <2>1. Parsed(s)[i] \in Line
    BY <1>1, EventsAre
  <2>2. QED
    BY <1>1, <2>1 DEF RestOf, Line
<1>3. QED
  <2> DEFINE r == Parsed(s)
  <2> HIDE DEF r
  <2>1. ASSUME r \in Seq(Line), \A i \in 1 .. Len(r) : r[i] \in Event PROVE r \in Seq(Event)
    BY <2>1, SeqDef
  <2>2. QED
    BY <1>1, <1>2, <2>1 DEF r

(* The end of some lines. *)
LEMMA TailIs ==
  ASSUME NEW s \in Seq(Line), NEW d \in 0 .. Len(s)
  PROVE  LET t == SubSeq(s, d + 1, Len(s))
         IN  /\ t \in Seq(Line) /\ Len(t) = Len(s) - d
             /\ \A i \in 1 .. Len(t) : t[i] = s[d + i] /\ d + i \in 1 .. Len(s)
             /\ EventsOf(t) \subseteq EventsOf(s)
             /\ Ordered(s) => Ordered(t)
             /\ \A emitted : \A n \in Nat :
                  StreamAhead(emitted, n, s) =>
                    StreamAhead(emitted, n, t) /\ (n = d => StreamAhead(emitted, 0, t))
<1> DEFINE t == SubSeq(s, d + 1, Len(s))
<1>1. Len(s) \in Nat /\ d \in Nat
  BY EventsAre
<1>2. \A i \in d + 1 .. Len(s) : s[i] \in Line
  BY <1>1, EventsAre
<1>3. /\ t \in Seq(Line)
      /\ Len(t) = IF d + 1 <= Len(s) THEN Len(s) - (d + 1) + 1 ELSE 0
      /\ \A i \in 1 .. Len(s) - (d + 1) + 1 : t[i] = s[d + 1 + i - 1]
  BY <1>1, <1>2, SubSeqProperties
<1>4. Len(t) = Len(s) - d
  BY <1>1, <1>3
<1>5. \A i \in 1 .. Len(t) : t[i] = s[d + i] /\ d + i \in 1 .. Len(s)
  <2> HIDE DEF t
  <2>1. ASSUME NEW i \in 1 .. Len(t) PROVE d + 1 + i - 1 = d + i /\ i \in 1 .. Len(s) - (d + 1) + 1
    BY <1>1, <1>4
  <2>2. QED
    BY <1>1, <1>3, <1>4, <2>1
<1> HIDE DEF t
<1>6. EventsOf(t) \subseteq EventsOf(s)
  <2>1. SUFFICES ASSUME NEW e \in EventsOf(t) PROVE e \in EventsOf(s)
    OBVIOUS
  <2>2. PICK i \in 1 .. Len(t) : t[i] = e
    BY <1>3, <2>1, EventsAre
  <2>3. e \in Event /\ d + i \in 1 .. Len(s) /\ s[d + i] = e
    BY <1>3, <1>5, <2>1, <2>2, EventsAre
  <2>4. QED
    BY <2>3, EventsAre
<1>7. ASSUME Ordered(s) PROVE Ordered(t)
  <2>1. SUFFICES ASSUME NEW i \in 1 .. Len(t), NEW j \in 1 .. Len(t), i < j,
                        IsEvent(t[i]), IsEvent(t[j])
                 PROVE  t[i] < t[j]
    BY <1>3, EventsAre DEF Ordered
  <2>2. d + i < d + j
    BY <1>1, <2>1
  <2>3. QED
    BY <1>5, <1>7, <2>1, <2>2, EventsAre DEF Ordered
<1>8. ASSUME NEW emitted, NEW n \in Nat, StreamAhead(emitted, n, s)
      PROVE  StreamAhead(emitted, n, t) /\ (n = d => StreamAhead(emitted, 0, t))
  <2>1. ASSUME NEW i \in 1 .. Len(t), i > n \/ n = d, IsEvent(t[i]), NEW e \in Entries(emitted)
        PROVE  e < t[i]
    <3>1. d + i > n /\ d + i \in 1 .. Len(s) /\ t[i] = s[d + i]
      BY <1>1, <1>5, <2>1
    <3>2. QED
      BY <1>8, <2>1, <3>1, EventsAre DEF StreamAhead
  <2>2. QED
    BY <1>3, <2>1, EventsAre DEF StreamAhead
<1>9. QED
  BY <1>3, <1>4, <1>5, <1>6, <1>7, <1>8 DEF t

(* What some lines and others after them hold. *)
LEMMA JoinedEvents ==
  ASSUME NEW s \in Seq(Line), NEW t \in Seq(Line)
  PROVE  s \o t \in Seq(Line) /\ EventsOf(s \o t) = EventsOf(s) \cup EventsOf(t)
<1> DEFINE q == s \o t
<1>1. /\ q \in Seq(Line) /\ Len(q) = Len(s) + Len(t)
      /\ \A i \in 1 .. Len(s) + Len(t) : q[i] = IF i <= Len(s) THEN s[i] ELSE t[i - Len(s)]
  BY ConcatProperties
<1> HIDE DEF q
<1>2. Len(s) \in Nat /\ Len(t) \in Nat
  BY EventsAre
<1>3. ASSUME NEW e \in EventsOf(q) PROVE e \in EventsOf(s) \cup EventsOf(t)
  <2>1. PICK i \in 1 .. Len(q) : q[i] = e
    BY <1>1, <1>3, EventsAre
  <2>2. e \in Event
    BY <1>1, <1>3, EventsAre
  <2>3. CASE i <= Len(s)
    BY <1>1, <1>2, <2>1, <2>2, <2>3, EventsAre
  <2>4. CASE ~(i <= Len(s))
    <3>1. i - Len(s) \in 1 .. Len(t) /\ t[i - Len(s)] = e
      BY <1>1, <1>2, <2>1, <2>4
    <3>2. QED
      BY <2>2, <3>1, EventsAre
  <2>5. QED
    BY <2>3, <2>4
<1>4. ASSUME NEW e \in EventsOf(s) PROVE e \in EventsOf(q)
  <2>1. PICK i \in 1 .. Len(s) : s[i] = e
    BY <1>4, EventsAre
  <2>2. e \in Event /\ i \in 1 .. Len(q) /\ q[i] = e
    BY <1>1, <1>2, <1>4, <2>1, EventsAre
  <2>3. QED
    BY <1>1, <2>2, EventsAre
<1>5. ASSUME NEW e \in EventsOf(t) PROVE e \in EventsOf(q)
  <2>1. PICK i \in 1 .. Len(t) : t[i] = e
    BY <1>5, EventsAre
  <2>2. Len(s) + i \in 1 .. Len(q) /\ ~(Len(s) + i <= Len(s)) /\ (Len(s) + i) - Len(s) = i
    BY <1>1, <1>2
  <2>3. e \in Event /\ q[Len(s) + i] = e
    BY <1>1, <1>5, <2>1, <2>2, EventsAre
  <2>4. QED
    BY <1>1, <2>2, <2>3, EventsAre
<1>6. EventsOf(q) = EventsOf(s) \cup EventsOf(t)
  BY <1>3, <1>4, <1>5
<1>7. QED
  BY <1>1, <1>6 DEF q

(* What a retention pass archives of some lines, and what it keeps of them: *)
(* every event of the one is older than every event of the other.           *)
LEMMA RetentionSplits ==
  ASSUME NEW s \in Seq(Line), Len(s) > MaxEntries, Ordered(s)
  PROVE  /\ Kept(s) \in Seq(Line) /\ Overflow(s) \in Seq(Line)
         /\ Ordered(Kept(s))
         /\ EventsOf(Kept(s)) \subseteq EventsOf(s)
         /\ EventsOf(Overflow(s)) \subseteq EventsOf(s)
         /\ EventsOf(s) = EventsOf(Overflow(s)) \cup EventsOf(Kept(s))
         /\ \A a \in EventsOf(Overflow(s)), e \in EventsOf(Kept(s)) : a < e
         /\ \A emitted : \A n \in Nat :
              StreamAhead(emitted, n, s) => StreamAhead(emitted, n, Kept(s))
<1> DEFINE d == Len(s) - MaxEntries
<1>1. MaxEntries \in Nat /\ Len(s) \in Nat /\ d \in 0 .. Len(s)
  BY EventsAre, AuditConstants
<1>2. Kept(s) = SubSeq(s, d + 1, Len(s)) /\ Overflow(s) = SubSeq(s, 1, d)
  BY DEF Kept, Overflow
<1> HIDE DEF d
<1>3. /\ Kept(s) \in Seq(Line) /\ Len(Kept(s)) = Len(s) - d
      /\ \A i \in 1 .. Len(Kept(s)) : Kept(s)[i] = s[d + i] /\ d + i \in 1 .. Len(s)
      /\ EventsOf(Kept(s)) \subseteq EventsOf(s) /\ Ordered(Kept(s))
      /\ \A emitted : \A n \in Nat :
           StreamAhead(emitted, n, s) => StreamAhead(emitted, n, Kept(s))
  BY <1>1, <1>2, TailIs
<1>4. /\ Overflow(s) \in Seq(Line) /\ Len(Overflow(s)) = d
      /\ \A i \in 1 .. d : Overflow(s)[i] = s[i] /\ i \in 1 .. Len(s)
  <2>1. \A i \in 1 .. d : s[i] \in Line
    BY <1>1, EventsAre
  <2> DEFINE t == SubSeq(s, 1, d)
  <2>2. /\ t \in Seq(Line) /\ Len(t) = IF 1 <= d THEN (d - 1) + 1 ELSE 0
        /\ \A i \in 1 .. (d - 1) + 1 : t[i] = s[(1 + i) - 1]
    BY <1>1, <2>1, SubSeqProperties
  <2> HIDE DEF t
  <2>3. Len(t) = d
    BY <1>1, <2>2
  <2>4. \A i \in 1 .. d : i \in 1 .. (d - 1) + 1 /\ (1 + i) - 1 = i /\ i \in 1 .. Len(s)
    BY <1>1
  <2>5. \A i \in 1 .. d : t[i] = s[i]
    BY <2>2, <2>4
  <2>6. QED
    BY <1>2, <2>2, <2>3, <2>4, <2>5 DEF t
<1>5. EventsOf(Overflow(s)) \subseteq EventsOf(s)
  <2>1. SUFFICES ASSUME NEW a \in EventsOf(Overflow(s)) PROVE a \in EventsOf(s)
    OBVIOUS
  <2>2. PICK i \in 1 .. d : Overflow(s)[i] = a
    BY <1>4, <2>1, EventsAre
  <2>3. QED
    BY <1>4, <2>1, <2>2, EventsAre
<1>6. EventsOf(s) = EventsOf(Overflow(s)) \cup EventsOf(Kept(s))
  <2>1. SUFFICES ASSUME NEW e \in EventsOf(s), e \notin EventsOf(Kept(s))
                 PROVE  e \in EventsOf(Overflow(s))
    BY <1>3, <1>5
  <2>2. PICK i \in 1 .. Len(s) : s[i] = e
    BY EventsAre
  <2>3. e \in Event
    BY EventsAre
  <2>4. i \in 1 .. d
    <3>1. SUFFICES ASSUME i > d PROVE FALSE
      BY <1>1
    <3>2. i - d \in 1 .. Len(Kept(s)) /\ d + (i - d) = i
      BY <1>1, <1>3, <3>1
    <3>3. Kept(s)[i - d] = e
      BY <1>3, <2>2, <3>2
    <3>4. QED
      BY <1>3, <2>1, <2>3, <3>2, <3>3, EventsAre
  <2>5. QED
    BY <1>4, <2>2, <2>3, <2>4, EventsAre
<1>7. ASSUME NEW a \in EventsOf(Overflow(s)), NEW e \in EventsOf(Kept(s)) PROVE a < e
  <2>1. PICK i \in 1 .. d : Overflow(s)[i] = a
    BY <1>4, <1>7, EventsAre
  <2>2. PICK j \in 1 .. Len(Kept(s)) : Kept(s)[j] = e
    BY <1>3, <1>7, EventsAre
  <2>3. s[i] = a /\ s[d + j] = e /\ i \in 1 .. Len(s) /\ d + j \in 1 .. Len(s)
    BY <1>3, <1>4, <2>1, <2>2
  <2>4. i < d + j
    BY <1>1
  <2>5. a \in Event /\ e \in Event
    BY <1>3, <1>4, <1>7, EventsAre
  <2>6. QED
    BY <2>3, <2>4, <2>5, EventsAre DEF Ordered
<1>8. QED
  BY <1>3, <1>4, <1>5, <1>6, <1>7

(* Emitting events that are newer than all emitted keeps the order. *)
LEMMA EmittedInOrder ==
  ASSUME NEW s \in Seq(Event), NEW t \in Seq(Event),
         \A i, j \in DOMAIN s : i < j => s[i] < s[j],
         Ordered(t), StreamAhead(s, 0, t)
  PROVE  /\ s \o t \in Seq(Event) /\ Entries(s \o t) = Entries(s) \cup EventsOf(t)
         /\ \A i, j \in DOMAIN (s \o t) : i < j => (s \o t)[i] < (s \o t)[j]
<1> DEFINE q == s \o t
<1>1. /\ q \in Seq(Event) /\ Len(q) = Len(s) + Len(t)
      /\ \A i \in 1 .. Len(s) + Len(t) : q[i] = IF i <= Len(s) THEN s[i] ELSE t[i - Len(s)]
  BY ConcatProperties
<1> HIDE DEF q
<1>2. s \in Seq(Line) /\ t \in Seq(Line) /\ q \in Seq(Line)
  BY <1>1, SeqMonotonic DEF Line
<1>3. /\ Len(s) \in Nat /\ DOMAIN s = 1 .. Len(s) /\ Len(t) \in Nat /\ DOMAIN t = 1 .. Len(t)
      /\ DOMAIN q = 1 .. Len(q)
  BY <1>2, EventsAre
<1>4. /\ \A i \in 1 .. Len(s) : s[i] \in Event
      /\ \A i \in 1 .. Len(t) : t[i] \in Event /\ IsEvent(t[i])
  BY <1>2, ElementOfSeq, EventsAre
<1>5. Entries(q) = Entries(s) \cup EventsOf(t)
  <2>1. EventsOf(q) = EventsOf(s) \cup EventsOf(t)
    BY <1>2, JoinedEvents DEF q
  <2>2. \A u \in Seq(Event) : EventsOf(u) = Entries(u)
    <3>1. SUFFICES ASSUME NEW u \in Seq(Event) PROVE EventsOf(u) = Entries(u)
      OBVIOUS
    <3>2. DOMAIN u = 1 .. Len(u) /\ \A i \in 1 .. Len(u) : u[i] \in Event
      BY LenProperties, ElementOfSeq
    <3>3. QED
      BY <3>2, AuditConstants DEF EventsOf, Entries, Event
  <2>3. QED
    BY <1>1, <2>1, <2>2
<1>6. ASSUME NEW i \in 1 .. Len(q), NEW j \in 1 .. Len(q), i < j PROVE q[i] < q[j]
  <2>1. CASE j <= Len(s)
    <3>1. i \in 1 .. Len(s) /\ j \in 1 .. Len(s) /\ q[i] = s[i] /\ q[j] = s[j]
      BY <1>1, <1>3, <1>6, <2>1
    <3>2. QED
      BY <1>3, <1>6, <3>1
  <2>2. CASE ~(j <= Len(s)) /\ i <= Len(s)
    <3>1. /\ i \in 1 .. Len(s) /\ q[i] = s[i]
          /\ j - Len(s) \in 1 .. Len(t) /\ j - Len(s) > 0 /\ q[j] = t[j - Len(s)]
      BY <1>1, <1>3, <2>2
    <3>2. s[i] \in Entries(s)
      BY <1>3, <3>1 DEF Entries
    <3>3. QED
      BY <1>3, <1>4, <3>1, <3>2 DEF StreamAhead
  <2>3. CASE ~(i <= Len(s))
    <3>1. /\ i - Len(s) \in 1 .. Len(t) /\ q[i] = t[i - Len(s)]
          /\ j - Len(s) \in 1 .. Len(t) /\ q[j] = t[j - Len(s)] /\ i - Len(s) < j - Len(s)
      BY <1>1, <1>3, <1>6, <2>3
    <3>2. QED
      BY <1>3, <1>4, <3>1 DEF Ordered
  <2>4. QED
    BY <2>1, <2>2, <2>3
<1>7. QED
  BY <1>1, <1>3, <1>5, <1>6 DEF q

-----------------------------------------------------------------------------
(* The dashboard's steps with faults *)

(* Each step of PollNext, with its parameters spelt out: those that leave   *)
(* the files alone, and those that do not.                                 *)
QuietStep ==
  \/ Append_Begin(Ui) \/ LoadLeaves(Ui) \/ Append_SaveLeaves(Ui)
  \/ Append_Return(Ui) \/ Retain_Read(Ui) \/ RootStep(Ui) \/ Root_Show(Ui)
  \/ Abandon(Ui) \/ Append_MerkleFails(Ui) \/ ReadFails(Ui)
  \/ Anchor_Skip \/ Anchor_Due \/ Anchor_Rejected \/ Anchor_Submit \/ Anchor_ReplyLost

LoudStep ==
  \/ Append_WriteLine(Ui) \/ Append_WriteFails(Ui) \/ Append_WriteNewline(Ui)
  \/ Retain_Archive(Ui) \/ Retain_Truncate(Ui) \/ Retain_Rewrite(Ui)

(* A step touches the stream, or it is one of those. *)
LEMMA FaultySteps ==
  ASSUME [PollNext]_pollVars
  PROVE  \/ Stream_Poll \/ Stream_ReadFails \/ Restart \/ UNCHANGED pollVars
         \/ UNCHANGED <<offset, streamed>> /\ (QuietStep \/ LoudStep)
<1> USE DEF QuietStep, LoudStep, streamVars
<1>1. CASE AnchorStep
  BY <1>1 DEF AnchorStep, Anchor_Skip, Anchor_Due, Anchor_Rejected, Anchor_Submit, Anchor_ReplyLost,
       Anchor_Store, Anchor_StoreFails
<1>2. CASE Trail_Step
  BY <1>2 DEF Trail_Step, TrailUnchanged, AppendStep
<1>3. CASE Trail_Rewrite
  BY <1>3 DEF Trail_Rewrite
<1>4. CASE Trail_Fault
  BY <1>4 DEF Trail_Fault, FaultStep
<1>5. QED
  BY <1>1, <1>2, <1>3, <1>4 DEF PollNext

(* What a quiet step does to what the invariant speaks of. *)
LEMMA QuietIs ==
  ASSUME PollTypeOK, HandsInv, QuietStep
  PROVE  /\ UNCHANGED <<log, unterminated, archive>>
         /\ \/ /\ pc'[Ui] = "write" /\ pc[Ui] # "write" /\ UNCHANGED buf
               /\ issued < MaxEvents /\ issued' = issued + 1 /\ event'[Ui] = issued + 1
            \/ /\ UNCHANGED <<issued, event>> /\ pc[Ui] \in {"merkle", "idle", "root_check"}
               /\ pc'[Ui] \in {"save_truncate", "root_check", "rebuild_truncate"}
               /\ pc'[Ui] = "save_truncate" <=> pc[Ui] = "merkle"
               /\ \/ buf'[Ui] \in {leaves, Parsed(log), <<>>}
                  \/ event[Ui] \in Event /\ buf'[Ui] \in {Append(leaves, event[Ui]), <<event[Ui]>>}
            \/ /\ UNCHANGED <<issued, event, buf>>
               /\ \/ pc'[Ui] = "idle"
                  \/ pc[Ui] = "save_truncate" /\ pc'[Ui] = "save_write"
                  \/ pc[Ui] \in {"merkle", "save_truncate", "save_write"} /\ pc'[Ui] \in {"retain", "done"}
                  \/ /\ pc[Ui] \in {"root_check", "rebuild_truncate", "rebuild_write", "root"}
                     /\ pc'[Ui] \in {"rebuild_write", "root", "submit"}
            \/ /\ UNCHANGED <<issued, event>> /\ pc[Ui] = "retain" /\ buf'[Ui] = NonBlank(log)
               /\ \/ pc'[Ui] = "done"
                  \/ pc'[Ui] \in {"archive", "truncate"} /\ Len(NonBlank(log)) > MaxEntries
<1> USE OneDashboard DEF Goto, files, local
<1>0. pc \in [Writers -> PC] /\ event \in [Writers -> 0 .. MaxEvents] /\ buf \in [Writers -> Seq(Line)]
      /\ issued \in Nat
  BY DEF PollTypeOK, TypeOK
<1>1. CASE Append_Begin(Ui)
  BY <1>0, <1>1 DEF Append_Begin, Begin
<1>2. CASE LoadLeaves(Ui)
  <2>1. event[Ui] \in Event
    BY <1>2 DEF LoadLeaves, HandsInv, Appending
  <2>2. QED
    BY <1>0, <1>2, <2>1 DEF LoadLeaves
<1>3. CASE Append_SaveLeaves(Ui)
  BY <1>0, <1>3 DEF Append_SaveLeaves, TruncateLeaves, WriteLeaves, AfterMerkle
<1>4. CASE Append_Return(Ui) \/ Root_Show(Ui) \/ Abandon(Ui)
  BY <1>0, <1>4 DEF Append_Return, Root_Show, Abandon
<1>5. CASE Retain_Read(Ui)
  <2>1. Len(NonBlank(log)) \in Nat /\ MaxEntries \in Nat
    <3>1. NonBlank(log) \in Seq(Line)
      BY ReadIs DEF PollTypeOK, TypeOK
    <3>2. QED
      BY <3>1, LenProperties, AuditConstants
  <2>2. QED
    BY <1>0, <1>5, <2>1 DEF Retain_Read
<1>6. CASE RootStep(Ui)
  <2>1. CASE Root_LoadLeaves(Ui)
    BY <1>0, <2>1 DEF Root_LoadLeaves, HandsInv, Appending
  <2>2. CASE Root_Rebuild(Ui)
    BY <1>0, <2>2 DEF Root_Rebuild, HandsInv, Appending
  <2>3. CASE Root_Trust(Ui) \/ Root_SaveLeaves(Ui)
    BY <1>0, <2>3 DEF Root_Trust, Root_SaveLeaves, TruncateLeaves, WriteLeaves
  <2>4. QED
    BY <1>6, <2>1, <2>2, <2>3 DEF RootStep
<1>7. CASE Append_MerkleFails(Ui)
  BY <1>0, <1>7 DEF Append_MerkleFails, AfterMerkle
<1>8. CASE Anchor_Skip \/ Anchor_Due \/ Anchor_Rejected \/ Anchor_ReplyLost
  BY <1>0, <1>8 DEF Anchor_Skip, Anchor_Due, Anchor_Rejected, Anchor_ReplyLost
<1>9. CASE Anchor_Submit
  BY <1>0, <1>9 DEF Anchor_Submit, Begin
<1>10. CASE ReadFails(Ui)
  <2>1. CASE LoadLeaves_Fails(Ui)
    <3>1. event[Ui] \in Event
      BY <2>1 DEF LoadLeaves_Fails, HandsInv, Appending
    <3>2. QED
      BY <1>0, <2>1, <3>1 DEF LoadLeaves_Fails
  <2>2. CASE Root_LoadFails(Ui)
    BY <1>0, <2>2 DEF Root_LoadFails
  <2>3. CASE Root_ReadFails(Ui)
    BY <1>0, <2>3 DEF Root_ReadFails
  <2>4. QED
    BY <1>10, <2>1, <2>2, <2>3 DEF ReadFails
<1>11. QED
  BY <1>1, <1>2, <1>3, <1>4, <1>5, <1>6, <1>7, <1>8, <1>9, <1>10 DEF QuietStep

(* The written events, as numbers. *)
LEMMA WrittenIs ==
  ASSUME PollTypeOK
  PROVE  /\ issued \in Nat /\ Written(Ui) \in Int /\ Written(Ui) <= issued
         /\ pc[Ui] # "write" => Written(Ui) = issued
         /\ pc[Ui] = "write" => Written(Ui) = issued - 1
  BY DEF PollTypeOK, TypeOK, Written

(* The files stay in order when only the count of written events grows. *)
LEMMA FilesStay ==
  ASSUME PollTypeOK, FilesInv, UNCHANGED <<log, unterminated, archive, offset, streamed>>,
         Written(Ui)' \in Int, Written(Ui) <= Written(Ui)'
  PROVE  FilesInv'
<1>1. /\ EventsOf(log) \subseteq Nat /\ EventsOf(archive) \subseteq Nat
      /\ Entries(streamed) \subseteq Nat /\ Written(Ui) \in Int
  <2>1. Entries(streamed) \subseteq Nat
    <3>1. \A i \in DOMAIN streamed : streamed[i] \in Event
      BY ElementOfSeq, LenProperties DEF PollTypeOK
    <3>2. QED
      BY <3>1 DEF Entries, Event
  <2>2. QED
    BY <2>1, EventsAre, WrittenIs DEF PollTypeOK, TypeOK
<1>2. \A e \in EventsOf(log') \cup EventsOf(archive') \cup Entries(streamed') : e <= Written(Ui)'
  <2>1. SUFFICES ASSUME NEW e \in EventsOf(log) \cup EventsOf(archive) \cup Entries(streamed)
                 PROVE  e <= Written(Ui)'
    OBVIOUS
  <2>2. e <= Written(Ui) /\ e \in Int
    BY <1>1 DEF FilesInv
  <2>3. QED
    BY <1>1, <2>2
<1>3. QED
  BY <1>2 DEF FilesInv, StreamedInOrder

(* A quiet step keeps the order. *)
LEMMA QuietKeepsFiles ==
  ASSUME PollTypeOK, FilesInv, HandsInv, QuietStep, UNCHANGED <<offset, streamed>>
  PROVE  FilesInv'
<1>1. issued \in Nat /\ Written(Ui) \in Int /\ Written(Ui) <= issued
      /\ (pc[Ui] # "write" => Written(Ui) = issued)
  BY WrittenIs
<1>2. \/ pc'[Ui] = "write" /\ pc[Ui] # "write" /\ issued' = issued + 1
      \/ pc'[Ui] # "write" /\ issued' = issued
  BY QuietIs
<1>3. Written(Ui)' = issued
  <2>1. CASE pc'[Ui] = "write" /\ pc[Ui] # "write" /\ issued' = issued + 1
    <3>1. Written(Ui)' = issued' - 1
      BY <2>1 DEF Written
    <3>2. QED
      BY <1>1, <2>1, <3>1
  <2>2. CASE pc'[Ui] # "write" /\ issued' = issued
    BY <2>2 DEF Written
  <2>3. QED
    BY <1>2, <2>1, <2>2
<1>4. UNCHANGED <<log, unterminated, archive>>
  BY QuietIs
<1>5. QED
  BY <1>1, <1>3, <1>4, FilesStay

(* And keeps what the writer has in its hands. *)
LEMMA QuietKeepsHands ==
  ASSUME PollTypeOK, FilesInv, HandsInv, QuietStep, UNCHANGED <<offset, streamed>>
  PROVE  HandsInv'
<1>0. /\ log \in Seq(Line) /\ leaves \in Seq(Event) /\ issued \in Nat
      /\ UNCHANGED <<log, unterminated, archive>>
  BY QuietIs DEF PollTypeOK, TypeOK
<1>1. CASE /\ pc'[Ui] = "write" /\ issued < MaxEvents
           /\ issued' = issued + 1 /\ event'[Ui] = issued + 1
  <2>1. event'[Ui] \in Event
    BY <1>0, <1>1, AuditConstants DEF Event
  <2>2. QED
    BY <1>1, <2>1 DEF HandsInv, Appending
<1>2. CASE /\ UNCHANGED <<issued, event>> /\ pc[Ui] \in {"merkle", "idle", "root_check"}
           /\ pc'[Ui] \in {"save_truncate", "root_check", "rebuild_truncate"}
           /\ pc'[Ui] = "save_truncate" <=> pc[Ui] = "merkle"
           /\ \/ buf'[Ui] \in {leaves, Parsed(log), <<>>}
              \/ event[Ui] \in Event /\ buf'[Ui] \in {Append(leaves, event[Ui]), <<event[Ui]>>}
  <2>1. buf'[Ui] \in Seq(Event)
    <3>1. Parsed(log) \in Seq(Event)
      BY <1>0, ParsedAreEvents
    <3>2. event[Ui] \in Event => Append(leaves, event[Ui]) \in Seq(Event)
      BY <1>0, AppendProperties
    <3>3. <<>> \in Seq(Event) /\ (event[Ui] \in Event => <<event[Ui]>> \in Seq(Event))
      BY EmptySeq
    <3>4. QED
      BY <1>0, <1>2, <3>1, <3>2, <3>3
  <2>2. pc'[Ui] = "save_truncate" => event'[Ui] \in Event /\ ~unterminated
    BY <1>2 DEF HandsInv, Appending
  <2>3. QED
    BY <1>0, <1>2, <2>1, <2>2 DEF HandsInv, Appending
<1>3. CASE /\ UNCHANGED <<issued, event, buf>>
           /\ \/ pc'[Ui] = "idle"
              \/ pc[Ui] = "save_truncate" /\ pc'[Ui] = "save_write"
              \/ pc[Ui] \in {"merkle", "save_truncate", "save_write"} /\ pc'[Ui] \in {"retain", "done"}
              \/ /\ pc[Ui] \in {"root_check", "rebuild_truncate", "rebuild_write", "root"}
                 /\ pc'[Ui] \in {"rebuild_write", "root", "submit"}
  BY <1>0, <1>3 DEF HandsInv, Appending
<1>4. CASE /\ UNCHANGED <<issued, event>> /\ pc[Ui] = "retain" /\ buf'[Ui] = NonBlank(log)
           /\ \/ pc'[Ui] = "done"
              \/ pc'[Ui] \in {"archive", "truncate"} /\ Len(NonBlank(log)) > MaxEntries
  <2>1. event'[Ui] \in Event /\ ~unterminated
    BY <1>4 DEF HandsInv, Appending
  <2>2. ASSUME pc'[Ui] \in {"archive", "truncate"}
        PROVE  /\ Len(buf'[Ui]) > MaxEntries /\ Ordered(buf'[Ui])
               /\ \A e \in EventsOf(buf'[Ui]) : e <= issued
               /\ OlderOrAmong(archive, Kept(buf'[Ui]))
               /\ StreamAhead(streamed, offset, Kept(buf'[Ui]))
               /\ EventsOf(buf'[Ui]) \subseteq EventsOf(log)
    <3> DEFINE b == NonBlank(log)
    <3>1. /\ b \in Seq(Line) /\ Len(b) > MaxEntries /\ EventsOf(b) = EventsOf(log) /\ Ordered(b)
          /\ OlderOrAmong(archive, b) /\ StreamAhead(streamed, offset, b)
      BY <1>0, <1>4, <2>2, ReadIs DEF FilesInv, PollTypeOK
    <3> HIDE DEF b
    <3>2. /\ EventsOf(b) = EventsOf(Overflow(b)) \cup EventsOf(Kept(b))
          /\ \A a \in EventsOf(Overflow(b)), e \in EventsOf(Kept(b)) : a < e
          /\ StreamAhead(streamed, offset, Kept(b))
      BY <3>1, RetentionSplits DEF PollTypeOK
    <3>3. OlderOrAmong(archive, Kept(b))
      BY <3>1, <3>2 DEF OlderOrAmong
    <3>4. \A e \in EventsOf(b) : e <= issued
      BY <1>4, <3>1, WrittenIs DEF FilesInv
    <3>5. QED
      BY <1>4, <3>1, <3>2, <3>3, <3>4 DEF b
  <2>3. QED
    BY <1>0, <1>4, <2>1, <2>2 DEF HandsInv, Appending
<1>5. QED
  BY <1>1, <1>2, <1>3, <1>4, QuietIs

(* A line that lands in the file keeps the order: whole, or spoilt by an    *)
(* unterminated one before it, or torn itself.                             *)
LEMMA LandedIs ==
  ASSUME PollTypeOK, FilesInv, HandsInv, pc[Ui] = "write", NEW line \in {event[Ui], JUNK}
  PROVE  /\ Landed(line) \in Seq(Line) /\ Landed(line) # <<>>
         /\ Ordered(Landed(line)) /\ OlderOrAmong(archive, Landed(line))
         /\ StreamAhead(streamed, offset, Landed(line))
         /\ \A e \in EventsOf(Landed(line)) : e <= issued
         /\ IsEvent(Landed(line)[Len(Landed(line))]) =>
              \A a \in EventsOf(archive) : a < Landed(line)[Len(Landed(line))]
<1>0. /\ log \in Seq(Line) /\ archive \in Seq(Line) /\ offset \in Nat /\ issued \in Nat
      /\ Written(Ui) = issued - 1 /\ event[Ui] = issued /\ issued \in Event
  BY WrittenIs DEF PollTypeOK, TypeOK, HandsInv
<1>1. /\ EventsOf(log) \subseteq Nat /\ EventsOf(archive) \subseteq Nat /\ Entries(streamed) \subseteq Nat
  <2>1. \A i \in DOMAIN streamed : streamed[i] \in Event
    BY ElementOfSeq, LenProperties DEF PollTypeOK
  <2>2. Entries(streamed) \subseteq Nat
    BY <2>1 DEF Entries, Event
  <2>3. QED
    BY <1>0, <2>2, EventsAre
<1>2. \A e \in EventsOf(log) \cup EventsOf(archive) \cup Entries(streamed) : e < issued
  <2>1. SUFFICES ASSUME NEW e \in EventsOf(log) \cup EventsOf(archive) \cup Entries(streamed)
                 PROVE  e < issued
    OBVIOUS
  <2>2. e \in Int /\ e <= issued - 1
    BY <1>0, <1>1 DEF FilesInv
  <2>3. QED
    BY <1>0, <2>2
<1>3. line \in Line /\ (line \in Event => line = issued) /\ ~IsEvent(JUNK)
  BY <1>0, AuditConstants DEF Line, Event, IsEvent
<1> DEFINE t == Landed(line)
<1>4. CASE unterminated
  <2>1. log # <<>> /\ (IsEvent(log[Len(log)]) => \A a \in EventsOf(archive) : a < log[Len(log)])
    BY <1>4 DEF FilesInv
  <2>2. t = [log EXCEPT ![Len(log)] = JUNK]
    BY <1>4 DEF Landed
  <2> HIDE DEF t
  <2>3. /\ t \in Seq(Line) /\ Len(t) = Len(log) /\ t[Len(log)] = JUNK
        /\ EventsOf(t) \subseteq EventsOf(log)
        /\ Ordered(t) /\ OlderOrAmong(archive, t) /\ StreamAhead(streamed, offset, t)
    BY <1>0, <2>1, <2>2, LineSpoilt DEF FilesInv
  <2>4. t # <<>>
    BY <1>0, <2>1, <2>3, EmptySeq
  <2>5. \A e \in EventsOf(t) : e <= issued
    BY <1>0, <1>1, <1>2, <2>3
  <2>6. QED
    BY <1>3, <2>3, <2>4, <2>5 DEF t
<1>5. CASE ~unterminated
  <2>1. t = Append(log, line)
    BY <1>5 DEF Landed
  <2> HIDE DEF t
  <2>2. /\ t \in Seq(Line) /\ Len(t) = Len(log) + 1 /\ t[Len(log) + 1] = line
        /\ EventsOf(t) = EventsOf(log) \cup ({line} \cap Event)
        /\ Ordered(t) /\ OlderOrAmong(archive, t) /\ StreamAhead(streamed, offset, t)
    BY <1>0, <1>2, <1>3, <2>1, LineLast DEF FilesInv
  <2>3. t # <<>>
    BY <1>0, <2>2, EmptySeq, EventsAre
  <2>4. \A e \in EventsOf(t) : e <= issued
    BY <1>0, <1>1, <1>2, <1>3, <2>2
  <2>5. IsEvent(t[Len(t)]) => \A a \in EventsOf(archive) : a < t[Len(t)]
    BY <1>0, <1>2, <1>3, <2>2
  <2>6. QED
    BY <2>2, <2>3, <2>4, <2>5 DEF t
<1>6. QED
  BY <1>4, <1>5

(* A step that changes the files keeps the order and the hands. *)
LEMMA LoudKeeps ==
  ASSUME PollTypeOK, FilesInv, HandsInv, LoudStep, UNCHANGED <<offset, streamed>>
  PROVE  log' \in Seq(Line) /\ archive' \in Seq(Line) /\ FilesInv' /\ HandsInv'
<1> USE OneDashboard DEF Goto, files, local
<1>0. /\ log \in Seq(Line) /\ archive \in Seq(Line) /\ offset \in Nat /\ issued \in Nat
      /\ pc \in [Writers -> PC] /\ buf \in [Writers -> Seq(Line)] /\ unterminated \in BOOLEAN
  BY DEF PollTypeOK, TypeOK
<1>1. /\ EventsOf(log) \subseteq Nat /\ EventsOf(archive) \subseteq Nat /\ Entries(streamed) \subseteq Nat
      /\ \A e \in EventsOf(log) \cup EventsOf(archive) \cup Entries(streamed) : e <= issued
  <2>1. \A i \in DOMAIN streamed : streamed[i] \in Event
    BY ElementOfSeq, LenProperties DEF PollTypeOK
  <2>2. Entries(streamed) \subseteq Nat
    BY <2>1 DEF Entries, Event
  <2>3. EventsOf(log) \subseteq Nat /\ EventsOf(archive) \subseteq Nat
    BY <1>0, EventsAre
  <2>4. Written(Ui) \in Int /\ Written(Ui) <= issued
    BY WrittenIs
  <2>5. ASSUME NEW e \in EventsOf(log) \cup EventsOf(archive) \cup Entries(streamed)
        PROVE  e <= issued
    <3>1. e \in Int /\ e <= Written(Ui)
      BY <2>2, <2>3 DEF FilesInv
    <3>2. QED
      BY <1>0, <2>4, <3>1
  <2>6. QED
    BY <2>2, <2>3, <2>5
<1>2. CASE Append_WriteLine(Ui) \/ Append_WriteFails(Ui)
  <2>1. PICK line \in {event[Ui], JUNK} : log' = Landed(line)
    BY <1>2 DEF Append_WriteLine, Append_WriteFails
  <2>2. /\ pc[Ui] = "write" /\ pc'[Ui] \in {"newline", "idle"} /\ unterminated'
        /\ UNCHANGED <<archive, issued, event, buf>>
    BY <1>0, <1>2 DEF Append_WriteLine, Append_WriteFails
  <2>3. Written(Ui)' = issued
    BY <2>2 DEF Written
  <2>4. /\ log' \in Seq(Line) /\ log' # <<>>
        /\ Ordered(log') /\ OlderOrAmong(archive, log') /\ StreamAhead(streamed, offset, log')
        /\ \A e \in EventsOf(log') : e <= issued
        /\ IsEvent(log'[Len(log')]) => \A a \in EventsOf(archive) : a < log'[Len(log')]
    BY <2>1, <2>2, LandedIs
  <2>5. FilesInv'
    BY <1>1, <2>2, <2>3, <2>4 DEF FilesInv, StreamedInOrder
  <2>6. HandsInv'
    BY <2>2 DEF HandsInv, Appending
  <2>7. QED
    BY <1>0, <2>2, <2>4, <2>5, <2>6
<1>3. CASE Append_WriteNewline(Ui)
  <2>1. /\ pc[Ui] = "newline" /\ pc'[Ui] = "merkle" /\ ~unterminated'
        /\ log' \in {log, Append(log, BLANK)}
        /\ UNCHANGED <<archive, issued, event, buf>>
    BY <1>0, <1>3 DEF Append_WriteNewline
  <2>2. Written(Ui)' = issued
    BY <2>1 DEF Written
  <2>3. BLANK \in Line /\ BLANK \notin Event
    BY AuditConstants DEF Line, Event
  <2>4. /\ log' \in Seq(Line) /\ EventsOf(log') = EventsOf(log)
        /\ Ordered(log') /\ OlderOrAmong(archive, log') /\ StreamAhead(streamed, offset, log')
    <3>1. /\ Append(log, BLANK) \in Seq(Line)
          /\ EventsOf(Append(log, BLANK)) = EventsOf(log) \cup ({BLANK} \cap Event)
          /\ Ordered(Append(log, BLANK)) /\ OlderOrAmong(archive, Append(log, BLANK))
          /\ StreamAhead(streamed, offset, Append(log, BLANK))
      BY <1>0, <2>3, LineLast DEF FilesInv
    <3>2. {BLANK} \cap Event = {}
      BY <2>3
    <3>3. QED
      BY <1>0, <2>1, <3>1, <3>2 DEF FilesInv
  <2>5. FilesInv'
    BY <1>1, <2>1, <2>2, <2>4 DEF FilesInv, StreamedInOrder
  <2>6. HandsInv'
    BY <2>1 DEF HandsInv, Appending
  <2>7. QED
    BY <1>0, <2>1, <2>4, <2>5, <2>6
<1>4. CASE Retain_Archive(Ui)
  <2>1. /\ pc[Ui] = "archive" /\ pc'[Ui] = "truncate" /\ ~unterminated
        /\ archive' = archive \o Overflow(buf[Ui])
        /\ UNCHANGED <<log, unterminated, issued, event, buf>>
    BY <1>0, <1>4 DEF Retain_Archive, HandsInv, Appending
  <2> DEFINE b == buf[Ui]
  <2>2. /\ b \in Seq(Line) /\ Len(b) > MaxEntries /\ Ordered(b)
        /\ \A e \in EventsOf(b) : e <= issued
        /\ OlderOrAmong(archive, Kept(b)) /\ StreamAhead(streamed, offset, Kept(b))
        /\ EventsOf(b) \subseteq EventsOf(log)
    BY <1>0, <2>1 DEF HandsInv
  <2> HIDE DEF b
  <2>3. /\ Overflow(b) \in Seq(Line) /\ EventsOf(Overflow(b)) \subseteq EventsOf(b)
        /\ \A a \in EventsOf(Overflow(b)), e \in EventsOf(Kept(b)) : a < e
    BY <2>2, RetentionSplits
  <2>4. archive' \in Seq(Line) /\ EventsOf(archive') = EventsOf(archive) \cup EventsOf(Overflow(b))
    BY <1>0, <2>1, <2>3, JoinedEvents DEF b
  <2>5. OlderOrAmong(archive', log)
    BY <2>2, <2>3, <2>4 DEF OlderOrAmong, FilesInv
  <2>6. OlderOrAmong(archive', Kept(b))
    BY <2>2, <2>3, <2>4 DEF OlderOrAmong
  <2>7. Written(Ui)' = issued
    BY <2>1 DEF Written
  <2>8. FilesInv'
    BY <1>1, <2>1, <2>2, <2>3, <2>4, <2>5, <2>7 DEF FilesInv, StreamedInOrder
  <2>9. HandsInv'
    <3>1. event[Ui] \in Event
      BY <2>1 DEF HandsInv, Appending
    <3>2. QED
      BY <2>1, <2>2, <2>6, <3>1 DEF HandsInv, Appending, b
  <2>10. QED
    BY <1>0, <2>1, <2>4, <2>8, <2>9
<1>5. CASE Retain_Truncate(Ui)
  <2>1. /\ pc[Ui] = "truncate" /\ pc'[Ui] = "rewrite" /\ log' = <<>> /\ ~unterminated'
        /\ UNCHANGED <<archive, issued, event, buf>>
    BY <1>0, <1>5 DEF Retain_Truncate
  <2>2. Written(Ui)' = issued
    BY <2>1 DEF Written
  <2>3. /\ log' \in Seq(Line) /\ EventsOf(log') = {} /\ Ordered(log')
        /\ OlderOrAmong(archive, log') /\ StreamAhead(streamed, offset, log')
    BY <2>1, NoLines
  <2>4. FilesInv'
    BY <1>1, <2>1, <2>2, <2>3 DEF FilesInv, StreamedInOrder
  <2>5. HandsInv'
    BY <2>1 DEF HandsInv, Appending
  <2>6. QED
    BY <1>0, <2>1, <2>3, <2>4, <2>5
<1>6. CASE Retain_Rewrite(Ui)
  <2> DEFINE b == buf[Ui]
  <2>1. /\ pc[Ui] = "rewrite" /\ pc'[Ui] = "done" /\ log = <<>> /\ ~unterminated
        /\ UNCHANGED <<archive, issued, event, buf>> /\ event[Ui] \in Event
        /\ log' = Overlay(Kept(b), log)
        /\ unterminated' = (unterminated /\ Len(log) > Len(Kept(b)))
    BY <1>0, <1>6 DEF Retain_Rewrite, HandsInv, Appending
  <2>2. /\ b \in Seq(Line) /\ Len(b) > MaxEntries /\ Ordered(b)
        /\ \A e \in EventsOf(b) : e <= issued
        /\ OlderOrAmong(archive, Kept(b)) /\ StreamAhead(streamed, offset, Kept(b))
    BY <1>0, <2>1 DEF HandsInv
  <2> HIDE DEF b
  <2>3. Kept(b) \in Seq(Line) /\ Ordered(Kept(b)) /\ EventsOf(Kept(b)) \subseteq EventsOf(b)
    BY <2>2, RetentionSplits
  <2>4. log' = Kept(b)
    <3>1. Len(log) = 0 /\ Len(Kept(b)) \in Nat
      BY <2>1, <2>3, EmptySeq, LenProperties
    <3>2. Len(log) <= Len(Kept(b))
      BY <3>1
    <3>3. QED
      BY <2>1, <3>2 DEF Overlay
  <2>5. ~unterminated'
    BY <2>1
  <2>6. Written(Ui)' = issued
    BY <2>1 DEF Written
  <2>7. FilesInv'
    BY <1>1, <2>1, <2>2, <2>3, <2>4, <2>5, <2>6 DEF FilesInv, StreamedInOrder
  <2>8. HandsInv'
    BY <2>1, <2>5 DEF HandsInv, Appending
  <2>9. QED
    BY <1>0, <2>1, <2>3, <2>4, <2>7, <2>8
<1>7. QED
  BY <1>2, <1>3, <1>4, <1>5, <1>6 DEF LoudStep

(* A poll of the stream emits what is newer than all it has emitted. *)
LEMMA StreamKeepsOrder ==
  ASSUME FaultsInv, Stream_Poll
  PROVE  streamed' \in Seq(Event) /\ offset' \in Nat /\ FilesInv' /\ HandsInv'
<1>1. /\ log \in Seq(Line) /\ archive \in Seq(Line) /\ offset \in Nat /\ streamed \in Seq(Event)
      /\ FilesInv /\ HandsInv /\ Len(log) \in Nat
  BY EventsAre DEF FaultsInv, PollTypeOK, TypeOK
<1>2. /\ UNCHANGED <<log, unterminated, archive, issued, pc, event, buf>> /\ pc[Ui] = "idle"
      /\ streamed' = streamed \o Parsed(Skip(log, offset)) /\ offset' = Len(log)
  BY DEF Stream_Poll, trailVars, files, local
<1> DEFINE t == Skip(log, offset)
<1>3. /\ t \in Seq(Line) /\ EventsOf(t) \subseteq EventsOf(log)
      /\ Ordered(t) /\ StreamAhead(streamed, 0, t)
  <2>1. CASE offset <= Len(log)
    <3>1. offset \in 0 .. Len(log) /\ t = SubSeq(log, offset + 1, Len(log))
      BY <1>1, <2>1 DEF Skip
    <3>2. QED
      BY <1>1, <3>1, TailIs DEF FilesInv
  <2>2. CASE ~(offset <= Len(log))
    <3>1. t = <<>>
      BY <1>1, <2>2, SubSeqEmpty DEF Skip
    <3>2. QED
      BY <3>1, NoLines
  <2>3. QED
    BY <2>1, <2>2
<1> HIDE DEF t
<1> DEFINE r == Parsed(t)
<1>4. /\ r \in Seq(Event) /\ EventsOf(r) \subseteq EventsOf(log)
      /\ Ordered(r) /\ StreamAhead(streamed, 0, r)
  BY <1>3, ReadIs, ParsedAreEvents
<1> HIDE DEF r
<1>5. /\ streamed \o r \in Seq(Event) /\ Entries(streamed \o r) = Entries(streamed) \cup EventsOf(r)
      /\ \A i, j \in DOMAIN (streamed \o r) : i < j => (streamed \o r)[i] < (streamed \o r)[j]
  BY <1>1, <1>4, EmittedInOrder DEF FilesInv, StreamedInOrder
<1>6. streamed' = streamed \o r
  BY <1>2 DEF r, t
<1>7. Written(Ui)' = Written(Ui)
  BY <1>2 DEF Written
<1>8. StreamAhead(streamed', offset', log')
  <2>1. \A i \in DOMAIN log : ~(i > Len(log))
    BY <1>1, LenProperties
  <2>2. QED
    BY <1>2, <2>1 DEF StreamAhead
<1>9. FilesInv'
  <2>1. StreamedInOrder'
    BY <1>5, <1>6 DEF StreamedInOrder
  <2>2. \A e \in EventsOf(log') \cup EventsOf(archive') \cup Entries(streamed') : e <= Written(Ui)'
    BY <1>1, <1>2, <1>4, <1>5, <1>6, <1>7 DEF FilesInv
  <2>3. QED
    BY <1>1, <1>2, <1>8, <2>1, <2>2 DEF FilesInv
<1>10. HandsInv'
  BY <1>1, <1>2 DEF HandsInv, Appending
<1>11. QED
  BY <1>1, <1>2, <1>5, <1>6, <1>9, <1>10

(* After a restart or a failed read the stream begins with the first line. *)
LEMMA RestartKeepsOrder ==
  ASSUME FaultsInv, Restart \/ Stream_ReadFails
  PROVE  FilesInv' /\ HandsInv'
<1>1. /\ UNCHANGED <<log, unterminated, archive, issued, event, buf>> /\ pc'[Ui] = "idle"
      /\ streamed' = <<>> /\ offset' = 0
      /\ log \in Seq(Line) /\ archive \in Seq(Line) /\ FilesInv /\ PollTypeOK
  BY OneDashboard
     DEF Restart, Stream_ReadFails, StreamAnew, Goto, trailVars, files, local, FaultsInv, PollTypeOK, TypeOK
<1>2. Entries(<<>>) = {} /\ DOMAIN <<>> = {}
  BY EmptySeq DEF Entries
<1>3. Written(Ui)' = issued /\ Written(Ui) \in Int /\ Written(Ui) <= issued /\ issued \in Nat
  BY <1>1, WrittenIs DEF Written
<1>4. \A e \in EventsOf(log) \cup EventsOf(archive) : e <= issued
  <2>1. SUFFICES ASSUME NEW e \in EventsOf(log) \cup EventsOf(archive) PROVE e <= issued
    OBVIOUS
  <2>2. e \in Int /\ e <= Written(Ui)
    BY <1>1, EventsAre DEF FilesInv
  <2>3. QED
    BY <1>3, <2>2
<1>5. StreamAhead(streamed', offset', log')
  BY <1>1, <1>2 DEF StreamAhead
<1>6. StreamedInOrder'
  BY <1>1, <1>2 DEF StreamedInOrder
<1>7. FilesInv'
  BY <1>1, <1>2, <1>3, <1>4, <1>5, <1>6 DEF FilesInv
<1>8. HandsInv'
  BY <1>1 DEF HandsInv, Appending
<1>9. QED
  BY <1>7, <1>8

(* The types of the trail's variables, but for the lines of its files.      *)
LocalTypes ==
  /\ leaves \in Seq(Event) /\ unterminated \in BOOLEAN
  /\ issued \in 0 .. MaxEvents
  /\ pc \in [Writers -> PC] /\ event \in [Writers -> 0 .. MaxEvents]
  /\ retaining \in [Writers -> BOOLEAN] /\ buf \in [Writers -> Seq(Line)]

(* A step within the trail keeps them. *)
LEMMA TrailTypesKept ==
  ASSUME PollTypeOK, HandsInv, QuietStep \/ LoudStep
  PROVE  LocalTypes'
<1> USE OneDashboard, AuditConstants DEF Goto, files, local
<1>0. LocalTypes /\ log \in Seq(Line)
  BY DEF LocalTypes, PollTypeOK, TypeOK
<1>1. /\ <<>> \in Seq(Event) /\ \A s \in Seq(Event) : s \in Seq(Line)
      /\ Parsed(log) \in Seq(Event) /\ NonBlank(log) \in Seq(Line)
      /\ event[Ui] \in Event => Append(leaves, event[Ui]) \in Seq(Event)
  BY <1>0, EmptySeq, SeqMonotonic, ParsedAreEvents, ReadIs, AppendProperties DEF LocalTypes, Line
<1>2. CASE Append_Begin(Ui) \/ Anchor_Submit
  <2>1. issued + 1 \in 0 .. MaxEvents
    BY <1>0, <1>2 DEF LocalTypes, Append_Begin, Anchor_Submit, Begin
  <2>2. /\ UNCHANGED <<leaves, unterminated>> /\ issued' = issued + 1
        /\ event' = [event EXCEPT ![Ui] = issued + 1]
    BY <1>2 DEF Append_Begin, Anchor_Submit, Begin
  <2>3. event' \in [Writers -> 0 .. MaxEvents]
    BY <1>0, <2>1, <2>2 DEF LocalTypes
  <2>4. pc' \in [Writers -> PC]
    BY <1>0, <1>2 DEF LocalTypes, Append_Begin, Anchor_Submit, Begin, PC
  <2>5. retaining' \in [Writers -> BOOLEAN]
    BY <1>0, <1>2 DEF LocalTypes, Append_Begin, Anchor_Submit, Begin
  <2>6. buf' \in [Writers -> Seq(Line)]
    BY <1>0, <1>1, <1>2 DEF LocalTypes, Append_Begin, Anchor_Submit, Begin
  <2>7. QED
    BY <1>0, <2>1, <2>2, <2>3, <2>4, <2>5, <2>6 DEF LocalTypes
<1>3. CASE LoadLeaves(Ui)
  <2>1. event[Ui] \in Event
    BY <1>3 DEF LoadLeaves, HandsInv, Appending
  <2>2. Append(leaves, event[Ui]) \in Seq(Line)
    BY <1>1, <2>1
  <2>3. QED
    BY <1>0, <1>3, <2>2 DEF LocalTypes, LoadLeaves, PC
<1>4. CASE Append_SaveLeaves(Ui) \/ Root_SaveLeaves(Ui)
  <2>1. leaves' \in Seq(Event)
    <3>1. CASE TruncateLeaves(Ui, "save_truncate", "save_write")
               \/ TruncateLeaves(Ui, "rebuild_truncate", "rebuild_write")
      BY <1>1, <3>1 DEF TruncateLeaves
    <3>2. CASE WriteLeaves(Ui, "save_write", AfterMerkle(Ui)) \/ WriteLeaves(Ui, "rebuild_write", "root")
      <4>1. buf[Ui] \in Seq(Event)
        BY <3>2 DEF WriteLeaves, HandsInv
      <4>2. QED
        BY <1>1, <3>2, <4>1 DEF WriteLeaves
    <3>3. QED
      BY <1>4, <3>1, <3>2 DEF Append_SaveLeaves, Root_SaveLeaves
  <2>2. QED
    BY <1>0, <1>4, <2>1
       DEF LocalTypes, Append_SaveLeaves, Root_SaveLeaves, TruncateLeaves, WriteLeaves, AfterMerkle, PC
<1>5. CASE Append_Return(Ui)
  <2>1. event[Ui] \in Event
    BY <1>5 DEF Append_Return, HandsInv, Appending
  <2>2. QED
    BY <1>0, <1>5, <2>1 DEF LocalTypes, Append_Return, PC
<1>6. CASE Retain_Read(Ui)
  BY <1>0, <1>1, <1>6 DEF LocalTypes, Retain_Read, PC
<1>7. CASE Root_LoadLeaves(Ui)
  BY <1>0, <1>1, <1>7 DEF LocalTypes, Root_LoadLeaves, PC
<1>8. CASE Root_Rebuild(Ui)
  BY <1>0, <1>1, <1>8 DEF LocalTypes, Root_Rebuild, PC
<1>9. CASE Root_Trust(Ui) \/ Root_Show(Ui) \/ Abandon(Ui) \/ Append_MerkleFails(Ui)
  BY <1>0, <1>9 DEF LocalTypes, Root_Trust, Root_Show, Abandon, Append_MerkleFails, AfterMerkle, PC
<1>10. CASE Anchor_Skip \/ Anchor_Due \/ Anchor_Rejected \/ Anchor_ReplyLost
  BY <1>0, <1>10 DEF LocalTypes, Anchor_Skip, Anchor_Due, Anchor_Rejected, Anchor_ReplyLost, PC
<1>11. CASE Append_WriteLine(Ui) \/ Append_WriteFails(Ui) \/ Append_WriteNewline(Ui)
  BY <1>0, <1>11 DEF LocalTypes, Append_WriteLine, Append_WriteFails, Append_WriteNewline, PC
<1>12. CASE Retain_Archive(Ui) \/ Retain_Truncate(Ui)
  BY <1>0, <1>12 DEF LocalTypes, Retain_Archive, Retain_Truncate, PC
<1>13. CASE Retain_Rewrite(Ui)
  <2>1. unterminated' \in BOOLEAN
    BY <1>13 DEF Retain_Rewrite
  <2>2. QED
    BY <1>0, <1>13, <2>1 DEF LocalTypes, Retain_Rewrite, PC
<1>14. CASE ReadFails(Ui)
  <2>1. UNCHANGED <<leaves, unterminated, issued, event, retaining>>
    BY <1>14 DEF ReadFails, LoadLeaves_Fails, Root_LoadFails, Root_ReadFails
  <2>2. pc' \in [Writers -> PC]
    BY <1>0, <1>14 DEF LocalTypes, ReadFails, LoadLeaves_Fails, Root_LoadFails, Root_ReadFails, PC
  <2>3. buf' \in [Writers -> Seq(Line)]
    <3>1. pc[Ui] = "merkle" => <<event[Ui]>> \in Seq(Event)
      BY DEF HandsInv, Appending
    <3>2. PICK b : b \in Seq(Event) /\ buf' = [buf EXCEPT ![Ui] = b]
      BY <1>1, <1>14, <3>1 DEF ReadFails, LoadLeaves_Fails, Root_LoadFails, Root_ReadFails
    <3>3. QED
      BY <1>0, <1>1, <3>2 DEF LocalTypes
  <2>4. QED
    BY <1>0, <2>1, <2>2, <2>3 DEF LocalTypes
<1>15. QED
  BY <1>2, <1>3, <1>4, <1>5, <1>6, <1>7, <1>8, <1>9, <1>10, <1>11, <1>12, <1>13, <1>14
     DEF QuietStep, LoudStep, RootStep

(* The types of what the dashboard keeps about anchors and its stream. *)
LEMMA PollTypesKept ==
  ASSUME PollTypeOK, HandsInv, [PollNext]_pollVars
  PROVE  /\ chain' \in Seq(Seq(Event)) /\ anchorState' \in Seq(Event) /\ submitted' \in Seq(Event)
         /\ anchors' \subseteq Event /\ seen' \in 0 .. MaxEvents /\ trimmed' \in BOOLEAN
<1>0. /\ chain \in Seq(Seq(Event)) /\ anchorState \in Seq(Event) /\ submitted \in Seq(Event)
      /\ anchors \subseteq Event /\ seen \in 0 .. MaxEvents /\ trimmed \in BOOLEAN
      /\ issued \in 0 .. MaxEvents /\ <<>> \in Seq(Event) /\ MaxEvents \in Nat
  BY EmptySeq, AuditConstants DEF PollTypeOK, TypeOK
<1>1. pc[Ui] = "submit" => buf[Ui] \in Seq(Event) /\ Append(chain, buf[Ui]) \in Seq(Seq(Event))
  <2>1. pc[Ui] = "submit" => buf[Ui] \in Seq(Event)
    BY DEF HandsInv
  <2>2. QED
    BY <1>0, <2>1, AppendProperties
<1> USE DEF anchorVars, streamVars
<1>2. CASE Anchor_Submit
  <2>1. issued + 1 \in Event
    BY <1>0, <1>2 DEF Anchor_Submit, Begin, Event
  <2>2. QED
    BY <1>0, <1>1, <1>2, <2>1 DEF Anchor_Submit
<1>3. CASE Anchor_Skip \/ Anchor_Due \/ Anchor_Rejected \/ Anchor_ReplyLost
  BY <1>0, <1>1, <1>3 DEF Anchor_Skip, Anchor_Due, Anchor_Rejected, Anchor_ReplyLost
<1>4. CASE Anchor_Store \/ Anchor_StoreFails
  BY <1>0, <1>4 DEF Anchor_Store, Anchor_StoreFails
<1>5. CASE Stream_Poll \/ Stream_ReadFails \/ Restart
  <2>1. seen' \in 0 .. MaxEvents /\ trimmed' \in BOOLEAN
    <3>1. seen' \in {issued, 0}
      BY <1>5 DEF Stream_Poll, Stream_ReadFails, StreamAnew, Restart
    <3>2. trimmed' \in BOOLEAN
      BY <1>5 DEF Stream_Poll, Stream_ReadFails, StreamAnew, Restart
    <3>3. QED
      BY <1>0, <3>1, <3>2
  <2>2. submitted' \in {submitted, <<>>} /\ UNCHANGED <<chain, anchorState, anchors>>
    BY <1>5 DEF Stream_Poll, Stream_ReadFails, StreamAnew, Restart
  <2>3. QED
    BY <1>0, <2>1, <2>2
<1>6. CASE Trail_Step
  BY <1>0, <1>6 DEF Trail_Step, TrailUnchanged
<1>7. CASE Trail_Rewrite \/ Trail_Fault
  BY <1>0, <1>7 DEF Trail_Rewrite, Trail_Fault
<1>8. CASE UNCHANGED pollVars
  BY <1>0, <1>8 DEF pollVars
<1>9. QED
  BY <1>2, <1>3, <1>4, <1>5, <1>6, <1>7, <1>8 DEF PollNext, AnchorStep

(* Every step keeps the order, whatever fails. *)
LEMMA PollKeepsOrder ==
  ASSUME FaultsInv, [PollNext]_pollVars
  PROVE  FaultsInv'
<1>0. PollTypeOK /\ FilesInv /\ HandsInv
  BY DEF FaultsInv
<1>1. /\ chain' \in Seq(Seq(Event)) /\ anchorState' \in Seq(Event) /\ submitted' \in Seq(Event)
      /\ anchors' \subseteq Event /\ seen' \in 0 .. MaxEvents /\ trimmed' \in BOOLEAN
  BY <1>0, PollTypesKept
<1>2. CASE UNCHANGED pollVars
  BY <1>2 DEF pollVars, trailVars, anchorVars, streamVars, files, local, FaultsInv, PollTypeOK, TypeOK,
       FilesInv, HandsInv, StreamedInOrder, Written
<1>3. CASE Stream_Poll
  <2>1. streamed' \in Seq(Event) /\ offset' \in Nat /\ FilesInv' /\ HandsInv'
    BY <1>3, StreamKeepsOrder
  <2>2. TypeOK'
    BY <1>0, <1>3 DEF Stream_Poll, trailVars, files, local, PollTypeOK, TypeOK
  <2>3. QED
    BY <1>1, <2>1, <2>2 DEF FaultsInv, PollTypeOK
<1>4. CASE Restart \/ Stream_ReadFails
  <2>1. FilesInv' /\ HandsInv'
    BY <1>4, RestartKeepsOrder
  <2>2. TypeOK'
    BY <1>0, <1>4 DEF Restart, Stream_ReadFails, Goto, trailVars, files, local, PollTypeOK, TypeOK, PC
  <2>3. streamed' \in Seq(Event) /\ offset' \in Nat
    <3>1. streamed' = <<>> /\ offset' = 0
      BY <1>4 DEF Restart, Stream_ReadFails, StreamAnew
    <3>2. QED
      BY <3>1, EmptySeq
  <2>4. QED
    BY <1>1, <2>1, <2>2, <2>3 DEF FaultsInv, PollTypeOK
<1>5. CASE UNCHANGED <<offset, streamed>> /\ (QuietStep \/ LoudStep)
  <2>1. log' \in Seq(Line) /\ archive' \in Seq(Line) /\ FilesInv' /\ HandsInv'
    <3>1. CASE QuietStep
      <4>1. UNCHANGED <<log, unterminated, archive>>
        BY <1>0, <3>1, QuietIs
      <4>2. QED
        BY <1>0, <1>5, <3>1, <4>1, QuietKeepsFiles, QuietKeepsHands DEF PollTypeOK, TypeOK
    <3>2. CASE LoudStep
      BY <1>0, <1>5, <3>2, LoudKeeps
    <3>3. QED
      BY <1>5, <3>1, <3>2
  <2>2. TypeOK'
    BY <1>0, <1>5, <2>1, TrailTypesKept DEF LocalTypes, TypeOK
  <2>3. QED
    BY <1>0, <1>1, <1>5, <2>1, <2>2 DEF FaultsInv, PollTypeOK
<1>6. QED
  BY <1>2, <1>3, <1>4, <1>5, FaultySteps

(* The empty trail has the invariant. *)
LEMMA FaultsInit ==
  ASSUME PollInit
  PROVE  FaultsInv
<1>1. <<>> \in Seq(Line) /\ <<>> \in Seq(Event) /\ <<>> \in Seq(Seq(Event)) /\ Entries(<<>>) = {}
      /\ DOMAIN <<>> = {}
  BY EmptySeq DEF Entries
<1>2. PollTypeOK
  <2>1. 0 \in 0 .. MaxEvents /\ 0 \in Nat
    BY AuditConstants
  <2>2. TypeOK
    BY <1>1, <2>1 DEF PollInit, Init, TypeOK, PC
  <2>3. QED
    BY <1>1, <2>1, <2>2 DEF PollInit, PollTypeOK
<1>3. log = <<>> /\ archive = <<>> /\ streamed = <<>> /\ ~unterminated /\ pc[Ui] = "idle"
  BY OneDashboard DEF PollInit, Init
<1>4. EventsOf(<<>>) = {}
  BY NoLines
<1>5. StreamedInOrder
  BY <1>1, <1>3 DEF StreamedInOrder
<1>6. FilesInv
  BY <1>1, <1>3, <1>4, <1>5, NoLines DEF FilesInv
<1>7. HandsInv
  BY <1>3 DEF HandsInv, Appending
<1>8. QED
  BY <1>2, <1>6, <1>7 DEF FaultsInv

(* What every step of the dashboard keeps, whichever reads and writes fail, *)
(* whichever answers are lost and wherever the process dies: the order of  *)
(* the lines in the files and in its hands, and the stream's lead.         *)
THEOREM FaultsInvariantHolds == PollSpec => []FaultsInv
<1>1. PollInit => FaultsInv
  BY FaultsInit
<1>2. FaultsInv /\ [PollNext]_pollVars => FaultsInv'
  BY PollKeepsOrder
<1>3. QED
  BY <1>1, <1>2, PTL DEF PollSpec

(* A reader of files in order sees them in order. *)
LEMMA OrderSeen ==
  ASSUME FaultsInv
  PROVE  FaultsOrdered
<1>1. log \in Seq(Line) /\ archive \in Seq(Line) /\ FilesInv /\ PollTypeOK
  BY DEF FaultsInv, PollTypeOK, TypeOK
<1> DEFINE live == Parsed(log)
           old == Parsed(archive)
<1>2. /\ live \in Seq(Event) /\ EventsOf(live) = EventsOf(log) /\ Ordered(live)
      /\ old \in Seq(Event) /\ EventsOf(old) = EventsOf(archive)
  BY <1>1, ReadIs, ParsedAreEvents DEF FilesInv
<1>3. live \in Seq(Line) /\ old \in Seq(Line)
  BY <1>1, ReadIs
<1> HIDE DEF live, old
<1>4. /\ DOMAIN live = 1 .. Len(live) /\ \A i \in DOMAIN live : IsEvent(live[i]) /\ live[i] \in EventsOf(log)
      /\ DOMAIN old = 1 .. Len(old) /\ \A i \in DOMAIN old : old[i] \in EventsOf(archive)
  <2>1. \A i \in 1 .. Len(live) : live[i] \in Event
    BY <1>2, ElementOfSeq
  <2>2. \A i \in 1 .. Len(old) : old[i] \in Event
    BY <1>2, ElementOfSeq
  <2>3. QED
    BY <1>2, <1>3, <2>1, <2>2, EventsAre
<1>5. \A i, j \in DOMAIN live : i < j => live[i] < live[j]
  BY <1>2, <1>4 DEF Ordered
<1>6. \A i \in DOMAIN old, j \in DOMAIN live : old[i] < live[j] \/ old[i] \in Entries(live)
  BY <1>1, <1>2, <1>4 DEF FilesInv, OlderOrAmong, EventsOf
<1>7. OrderKept
  BY <1>5, <1>6 DEF OrderKept, live, old
<1>8. QED
  BY <1>1, <1>7 DEF FaultsOrdered, FilesInv

(* One writer that may die, and whose reads and writes may fail, at any     *)
(* step: the trail never loses its order, and the stream does not between   *)
(* two failed reads (append_event_with_retention, enforce_audit_retention, *)
(* read_from_offset).                                                      *)
THEOREM FaultsOrderedHolds == PollSpec => []FaultsOrdered
  BY OrderSeen, FaultsInvariantHolds, PTL

=============================================================================
