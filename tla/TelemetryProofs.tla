-------------------------- MODULE TelemetryProofs --------------------------
(***************************************************************************)
(* Proofs about Telemetry: the alerts on the screen are those of the       *)
(* streaks of snapshots taken, snapshots are taken in order, and the       *)
(* history file is sound.  First the operators of the history file, then   *)
(* the streaks, and the steps one by one.                                  *)
(***************************************************************************)
EXTENDS TelemetryInvariant, FiniteSetTheorems, SequenceTheorems, WellFoundedInduction, TLAPS

(* Induction over the naturals, for sets. *)
LEMMA SetInduction ==
  ASSUME NEW S, 0 \in S, \A n \in Nat : n \in S => n + 1 \in S
  PROVE  Nat \subseteq S
<1> SUFFICES ASSUME NEW k \in Nat, k \notin S PROVE FALSE
  OBVIOUS
<1> DEFINE T == {n \in Nat : n \notin S}
<1>1. PICK m \in T : \A i \in T : <<i, m>> \notin OpToRel(<, Nat)
  <2>1. T \subseteq Nat /\ T # {}
    OBVIOUS
  <2> HIDE DEF T
  <2>2. QED
    BY <2>1, WFMin, NatLessThanWellFounded, Zenon
<1>2. \A i \in T : ~(i < m)
  BY <1>1 DEF OpToRel
<1>3. m # 0 /\ m - 1 \in Nat
  OBVIOUS
<1>4. m - 1 \notin T
  BY <1>2, <1>3
<1>5. QED
  BY <1>3, <1>4

-----------------------------------------------------------------------------
(* The lines of a file *)

Line == Snapshot \cup {JUNK, TORN}

(* The lines of h that do not parse. *)
Spoilt(h) == {i \in DOMAIN h : ~Parses(h[i])}

(* The lines that parse are in the order of collection. *)
Ordered(h) ==
  \A i, j \in DOMAIN h : i < j /\ Parses(h[i]) /\ Parses(h[j]) => h[i].n < h[j].n

(* l is made of lines of h, in their order: f says which. *)
Picks(f, l, h) ==
  /\ f \in [1 .. Len(l) -> 1 .. Len(h)]
  /\ \A i, j \in 1 .. Len(l) : i < j => f[i] < f[j]
  /\ \A i \in 1 .. Len(l) : l[i] = h[f[i]]

Thinned(l, h) == \E f : Picks(f, l, h)

(* A snapshot parses, and the other lines do not. *)
LEMMA LineKinds ==
  /\ \A s \in Snapshot : s \in Line /\ Parses(s) /\ s # NoSnapshot /\ s.n \in Nat /\ s.ts \in Nat
  /\ JUNK \in Line /\ TORN \in Line /\ ~Parses(JUNK) /\ ~Parses(TORN) /\ JUNK # TORN
  /\ \A l \in Line : Parses(l) => l \in Snapshot
<1>1. ASSUME NEW s \in Snapshot PROVE s.n \in Nat /\ s.ts \in Nat
  <2>1. s.n \in 1 .. MaxCycles /\ s.ts \in Times
    BY DEF Snapshot
  <2>2. MaxCycles \in Nat /\ Times \subseteq Nat
    BY WorkerConstants
  <2>3. s.n \in Nat
    BY <2>1, <2>2
  <2>4. QED
    BY <2>1, <2>2, <2>3
<1>2. QED
  BY <1>1, TelemetryConstants, HistoryConstants DEF Line, Parses

(* Finitely many lines do not parse. *)
LEMMA SpoiltFinite ==
  ASSUME NEW h \in Seq(Line)
  PROVE  IsFiniteSet(Spoilt(h)) /\ Cardinality(Spoilt(h)) \in Nat
<1>1. IsFiniteSet(1 .. Len(h))
  BY FS_Interval
<1>2. Spoilt(h) \in SUBSET (1 .. Len(h))
  BY DEF Spoilt
<1>3. IsFiniteSet(Spoilt(h))
  BY <1>1, <1>2, FS_Subset
<1>4. QED
  BY <1>3, FS_CardinalityType

(* Some of the lines, in their order, are as well ordered and as unspoilt. *)
LEMMA ThinnedKeeps ==
  ASSUME NEW l \in Seq(Line), NEW h \in Seq(Line), Thinned(l, h)
  PROVE  /\ Ordered(h) => Ordered(l)
         /\ Cardinality(Spoilt(l)) <= Cardinality(Spoilt(h))
         /\ \A i \in DOMAIN l : \E j \in DOMAIN h : l[i] = h[j]
<1>1. PICK f : Picks(f, l, h)
  BY DEF Thinned
<1>2. Ordered(h) => Ordered(l)
  <2>1. SUFFICES ASSUME Ordered(h), NEW i \in DOMAIN l, NEW j \in DOMAIN l,
                        i < j, Parses(l[i]), Parses(l[j])
                 PROVE  l[i].n < l[j].n
    BY DEF Ordered
  <2>2. /\ f[i] \in DOMAIN h /\ f[j] \in DOMAIN h /\ f[i] < f[j]
        /\ l[i] = h[f[i]] /\ l[j] = h[f[j]]
    BY <1>1, <2>1 DEF Picks
  <2>3. QED
    BY <2>1, <2>2 DEF Ordered
<1>3. Cardinality(Spoilt(l)) <= Cardinality(Spoilt(h))
  <2> DEFINE g == [i \in Spoilt(l) |-> f[i]]
  <2>1. ASSUME NEW i \in Spoilt(l) PROVE f[i] \in Spoilt(h)
    BY <1>1 DEF Picks, Spoilt
  <2>2. ASSUME NEW i \in Spoilt(l), NEW j \in Spoilt(l), i # j PROVE f[i] # f[j]
    <3>1. i \in 1 .. Len(l) /\ j \in 1 .. Len(l) /\ f[i] \in 1 .. Len(h) /\ f[j] \in 1 .. Len(h)
      BY <1>1 DEF Picks, Spoilt
    <3>2. i < j \/ j < i
      BY <2>2, <3>1
    <3>3. QED
      BY <1>1, <3>1, <3>2 DEF Picks
  <2>3. g \in Injection(Spoilt(l), Spoilt(h))
    BY <2>1, <2>2 DEF Injection, IsInjective
  <2> HIDE DEF g
  <2>4. QED
    BY <2>3, SpoiltFinite, FS_Injection
<1>4. QED
  BY <1>1, <1>2, <1>3 DEF Picks

(* All lines are made of the lines. *)
LEMMA ThinnedSame ==
  ASSUME NEW l \in Seq(Line)
  PROVE  Thinned(l, l)
<1> DEFINE f == [i \in 1 .. Len(l) |-> i]
<1>1. Picks(f, l, l)
  BY DEF Picks
<1>2. QED
  BY <1>1 DEF Thinned

(* So is a part of them. *)
LEMMA ThinnedSub ==
  ASSUME NEW l \in Seq(Line), NEW m \in Nat, NEW n \in Nat, 1 <= m, m <= n + 1, n <= Len(l)
  PROVE  /\ SubSeq(l, m, n) \in Seq(Line) /\ Len(SubSeq(l, m, n)) = n + 1 - m
         /\ \A i \in 1 .. n + 1 - m : SubSeq(l, m, n)[i] = l[m + i - 1]
         /\ Thinned(SubSeq(l, m, n), l)
<1> DEFINE s == SubSeq(l, m, n)
           f == [i \in 1 .. n + 1 - m |-> m + i - 1]
<1>1. s \in Seq(Line) /\ Len(s) = n + 1 - m /\ \A i \in 1 .. n + 1 - m : s[i] = l[m + i - 1]
  OBVIOUS
<1> HIDE DEF s
<1>2. Picks(f, s, l)
  BY <1>1 DEF Picks
<1>3. QED
  BY <1>1, <1>2 DEF Thinned, s

(* Some of some are some. *)
LEMMA ThinnedTwice ==
  ASSUME NEW k \in Seq(Line), NEW l \in Seq(Line), NEW h \in Seq(Line),
         Thinned(k, l), Thinned(l, h)
  PROVE  Thinned(k, h)
<1>1. PICK f : Picks(f, k, l)
  BY DEF Thinned
<1>2. PICK g : Picks(g, l, h)
  BY DEF Thinned
<1> DEFINE e == [i \in 1 .. Len(k) |-> g[f[i]]]
<1>3. e \in [1 .. Len(k) -> 1 .. Len(h)]
  BY <1>1, <1>2 DEF Picks
<1>4. \A i, j \in 1 .. Len(k) : i < j => e[i] < e[j]
  BY <1>1, <1>2 DEF Picks
<1>5. \A i \in 1 .. Len(k) : k[i] = h[e[i]]
  BY <1>1, <1>2 DEF Picks
<1>6. Picks(e, k, h)
  BY <1>3, <1>4, <1>5 DEF Picks
<1>7. QED
  BY <1>6 DEF Thinned

(* A line more: those that do not parse. *)
LEMMA SpoiltAppend ==
  ASSUME NEW h \in Seq(Line), NEW l \in Line
  PROVE  /\ Append(h, l) \in Seq(Line) /\ Len(Append(h, l)) = Len(h) + 1
         /\ Append(h, l)[Len(h) + 1] = l
         /\ \A i \in 1 .. Len(h) : Append(h, l)[i] = h[i]
         /\ Spoilt(Append(h, l)) = IF Parses(l) THEN Spoilt(h) ELSE Spoilt(h) \cup {Len(h) + 1}
         /\ Cardinality(Spoilt(Append(h, l))) <= Cardinality(Spoilt(h)) + 1
<1> DEFINE r == Append(h, l)
<1>1. r \in Seq(Line) /\ Len(r) = Len(h) + 1 /\ r[Len(h) + 1] = l /\ \A i \in 1 .. Len(h) : r[i] = h[i]
  OBVIOUS
<1>2. DOMAIN r = 1 .. Len(h) + 1 /\ DOMAIN h = 1 .. Len(h)
  OBVIOUS
<1> HIDE DEF r
<1>3. Spoilt(r) = IF Parses(l) THEN Spoilt(h) ELSE Spoilt(h) \cup {Len(h) + 1}
  <2>1. \A i : i \in Spoilt(r) <=> i \in Spoilt(h) \/ (i = Len(h) + 1 /\ ~Parses(l))
    BY <1>1, <1>2 DEF Spoilt
  <2>2. QED
    BY <2>1
<1>4. Cardinality(Spoilt(r)) <= Cardinality(Spoilt(h)) + 1
  <2>1. Cardinality(Spoilt(h)) \in Nat /\ IsFiniteSet(Spoilt(h))
    BY SpoiltFinite
  <2>2. Cardinality(Spoilt(h) \cup {Len(h) + 1})
          = IF Len(h) + 1 \in Spoilt(h) THEN Cardinality(Spoilt(h)) ELSE Cardinality(Spoilt(h)) + 1
    BY <2>1, FS_AddElement
  <2>3. QED
    BY <1>3, <2>1, <2>2
<1>5. QED
  BY <1>1, <1>3, <1>4 DEF r

-----------------------------------------------------------------------------
(* Young, by age *)

Kept(lines, now, i) == Parses(lines[i]) /\ lines[i].ts + MaxAge >= now

(* f is the function kept of Young(lines, now). *)
IsKept(f, lines, now) ==
  f = [i \in 0 .. Len(lines) |->
         IF i = 0 THEN <<>>
         ELSE IF Kept(lines, now, i) THEN Append(f[i - 1], lines[i]) ELSE f[i - 1]]

(* Young is well defined: there is such a function. *)
LEMMA KeptExists ==
  ASSUME NEW lines \in Seq(Line), NEW now, MaxAge # NONE
  PROVE  \E f : IsKept(f, lines, now) /\ Young(lines, now) = f[Len(lines)]
<1> DEFINE Def(g, n) == [i \in 0 .. n |->
                           IF i = 0 THEN <<>>
                           ELSE IF Kept(lines, now, i) THEN Append(g[i - 1], lines[i]) ELSE g[i - 1]]
           S == {n \in Nat : \E g : g = Def(g, n)}
<1>1. 0 \in S
  <2> DEFINE h == [i \in 0 .. 0 |-> <<>>]
  <2>1. h = Def(h, 0)
    OBVIOUS
  <2>2. QED
    BY <2>1
<1>2. ASSUME NEW n \in Nat, n \in S PROVE n + 1 \in S
  <2>1. PICK g : g = Def(g, n)
    BY <1>2
  <2> DEFINE h == [i \in 0 .. n + 1 |->
                     IF i = n + 1
                     THEN IF Kept(lines, now, n + 1) THEN Append(g[n], lines[n + 1]) ELSE g[n]
                     ELSE g[i]]
  <2>2. ASSUME NEW i \in 0 .. n + 1 PROVE h[i] = Def(h, n + 1)[i]
    <3>1. CASE i = n + 1
      BY <3>1
    <3>2. CASE i # n + 1
      <4>1. i \in 0 .. n /\ h[i] = g[i] /\ (i # 0 => h[i - 1] = g[i - 1])
        BY <3>2
      <4>2. g[i] = Def(g, n)[i]
        BY <2>1, Zenon
      <4>3. Def(g, n)[i] = IF i = 0 THEN <<>>
                           ELSE IF Kept(lines, now, i) THEN Append(g[i - 1], lines[i]) ELSE g[i - 1]
        BY <4>1
      <4>4. Def(h, n + 1)[i] = IF i = 0 THEN <<>>
                               ELSE IF Kept(lines, now, i) THEN Append(h[i - 1], lines[i]) ELSE h[i - 1]
        OBVIOUS
      <4> HIDE DEF h, Def
      <4>5. QED
        BY <4>1, <4>2, <4>3, <4>4
    <3>3. QED
      BY <3>1, <3>2
  <2>3. h = Def(h, n + 1)
    BY <2>2
  <2> HIDE DEF h, Def
  <2>4. \E x : x = Def(x, n + 1)
    BY <2>3
  <2>5. QED
    BY <2>4
<1> HIDE DEF S
<1>3. Len(lines) \in S
  BY <1>1, <1>2, SetInduction
<1>4. \E g : g = Def(g, Len(lines))
  BY <1>3 DEF S
<1> DEFINE f == CHOOSE g : g = Def(g, Len(lines))
<1>5. f = Def(f, Len(lines))
  BY <1>4
<1>6. Young(lines, now) = f[Len(lines)]
  BY DEF Young, Kept
<1> HIDE DEF f
<1>7. IsKept(f, lines, now)
  BY <1>5 DEF IsKept
<1>8. QED
  BY <1>6, <1>7

(* Its values, one line after the other. *)
LEMMA KeptStep ==
  ASSUME NEW lines \in Seq(Line), NEW now, NEW f, IsKept(f, lines, now)
  PROVE  /\ f[0] = <<>>
         /\ \A k \in Nat : k + 1 <= Len(lines) =>
              f[k + 1] = IF Kept(lines, now, k + 1) THEN Append(f[k], lines[k + 1]) ELSE f[k]
<1> DEFINE e == [i \in 0 .. Len(lines) |->
                   IF i = 0 THEN <<>>
                   ELSE IF Kept(lines, now, i) THEN Append(f[i - 1], lines[i]) ELSE f[i - 1]]
<1>1. f = e
  BY DEF IsKept
<1>2. e[0] = <<>>
  OBVIOUS
<1>3. ASSUME NEW k \in Nat, k + 1 <= Len(lines)
      PROVE  e[k + 1] = IF Kept(lines, now, k + 1) THEN Append(f[k], lines[k + 1]) ELSE f[k]
  <2>1. k + 1 \in 0 .. Len(lines) /\ k + 1 # 0 /\ (k + 1) - 1 = k
    BY <1>3
  <2>2. QED
    BY <2>1
<1> HIDE DEF e
<1>4. QED
  BY <1>1, <1>2, <1>3

(* Its values are lines of the file that parse, in their order. *)
LEMMA KeptPicks ==
  ASSUME NEW lines \in Seq(Line), NEW now, NEW f, IsKept(f, lines, now), NEW n \in 0 .. Len(lines)
  PROVE  /\ f[n] \in Seq(Line) /\ \A i \in 1 .. Len(f[n]) : Parses(f[n][i])
         /\ \E g \in [1 .. Len(f[n]) -> 1 .. n] : Picks(g, f[n], lines)
<1> DEFINE Good(k) == /\ f[k] \in Seq(Line) /\ \A i \in 1 .. Len(f[k]) : Parses(f[k][i])
                      /\ \E g \in [1 .. Len(f[k]) -> 1 .. k] : Picks(g, f[k], lines)
           S == {k \in Nat : k <= Len(lines) => Good(k)}
<1>1. 0 \in S
  <2>1. f[0] = <<>>
    BY KeptStep
  <2> DEFINE g == [i \in 1 .. 0 |-> i]
  <2>2. g \in [1 .. Len(f[0]) -> 1 .. 0] /\ Picks(g, f[0], lines)
    BY <2>1 DEF Picks
  <2> HIDE DEF g
  <2>3. f[0] \in Seq(Line) /\ \A i \in 1 .. Len(f[0]) : Parses(f[0][i])
    BY <2>1
  <2> HIDE DEF Good
  <2>4. Good(0)
    BY <2>2, <2>3 DEF Good
  <2>5. QED
    BY <2>4
<1>2. ASSUME NEW k \in Nat, k \in S PROVE k + 1 \in S
  <2>1. SUFFICES ASSUME k + 1 <= Len(lines) PROVE Good(k + 1)
    OBVIOUS
  <2>2. Good(k)
    BY <1>2, <2>1
  <2>3. f[k + 1] = IF Kept(lines, now, k + 1) THEN Append(f[k], lines[k + 1]) ELSE f[k]
    BY <2>1, KeptStep
  <2>4. PICK g \in [1 .. Len(f[k]) -> 1 .. k] : Picks(g, f[k], lines)
    BY <2>2
  <2>5. CASE Kept(lines, now, k + 1)
    <3> DEFINE m == Len(f[k])
               e == [i \in 1 .. m + 1 |-> IF i = m + 1 THEN k + 1 ELSE g[i]]
               r == Append(f[k], lines[k + 1])
    <3>1. lines[k + 1] \in Line /\ Parses(lines[k + 1]) /\ m \in Nat
      BY <2>1, <2>2, <2>5 DEF Kept
    <3>2. /\ r \in Seq(Line) /\ Len(r) = m + 1 /\ r[m + 1] = lines[k + 1]
          /\ \A i \in 1 .. m : r[i] = f[k][i]
      BY <2>2, <3>1, SpoiltAppend
    <3>3. \A i \in 1 .. m : g[i] \in 1 .. k /\ f[k][i] = lines[g[i]]
      BY <2>4 DEF Picks
    <3>4. \A i, j \in 1 .. m : i < j => g[i] < g[j]
      BY <2>4 DEF Picks
    <3>5. \A i \in 1 .. m + 1 : i # m + 1 => i \in 1 .. m
      BY <3>1
    <3> HIDE DEF r, m
    <3>6. e \in [1 .. m + 1 -> 1 .. k + 1]
      BY <3>3, <3>5
    <3>7. \A i, j \in 1 .. m + 1 : i < j => e[i] < e[j]
      BY <3>1, <3>3, <3>4, <3>5
    <3>8. \A i \in 1 .. m + 1 : r[i] = lines[e[i]] /\ Parses(r[i])
      BY <2>2, <3>1, <3>2, <3>3, <3>5 DEF m
    <3> HIDE DEF e
    <3>9. Picks(e, r, lines)
      BY <2>1, <3>2, <3>6, <3>7, <3>8 DEF Picks
    <3>10. f[k + 1] = r
      BY <2>3, <2>5 DEF r
    <3>11. QED
      BY <3>2, <3>6, <3>8, <3>9, <3>10
  <2>6. CASE ~Kept(lines, now, k + 1)
    <3>1. g \in [1 .. Len(f[k]) -> 1 .. k + 1]
      BY <2>4
    <3>2. QED
      BY <2>2, <2>3, <2>4, <2>6, <3>1
  <2>7. QED
    BY <2>5, <2>6
<1> HIDE DEF S
<1>3. n \in S
  BY <1>1, <1>2, SetInduction
<1>4. QED
  BY <1>3 DEF S

(* The lines that are young enough parse, if age is looked at. *)
LEMMA YoungLines ==
  ASSUME NEW lines \in Seq(Line), NEW now
  PROVE  /\ Young(lines, now) \in Seq(Line) /\ Thinned(Young(lines, now), lines)
         /\ \/ Young(lines, now) = lines
            \/ \A i \in 1 .. Len(Young(lines, now)) : Parses(Young(lines, now)[i])
<1>1. CASE MaxAge = NONE
  <2>1. Young(lines, now) = lines
    BY <1>1 DEF Young
  <2>2. QED
    BY <2>1, ThinnedSame
<1>2. CASE MaxAge # NONE
  <2>1. PICK f : IsKept(f, lines, now) /\ Young(lines, now) = f[Len(lines)]
    BY <1>2, KeptExists
  <2>2. Len(lines) \in 0 .. Len(lines)
    OBVIOUS
  <2>3. QED
    BY <2>1, <2>2, KeptPicks DEF Thinned
<1>3. QED
  BY <1>1, <1>2

(* The line of the snapshot by whose time age is measured stays. *)
LEMMA YoungLast ==
  ASSUME NEW lines \in Seq(Line), lines # <<>>, lines[Len(lines)] \in Snapshot
  PROVE  LET y == Young(lines, lines[Len(lines)].ts) IN y # <<>> /\ y[Len(y)] = lines[Len(lines)]
<1> DEFINE s == lines[Len(lines)]
<1>1. CASE MaxAge = NONE
  BY <1>1 DEF Young
<1>2. CASE MaxAge # NONE
  <2>1. PICK f : IsKept(f, lines, s.ts) /\ Young(lines, s.ts) = f[Len(lines)]
    BY <1>2, KeptExists
  <2>2. PICK k \in Nat : Len(lines) = k + 1
    <3>1. Len(lines) \in Nat /\ Len(lines) # 0
      OBVIOUS
    <3>2. Len(lines) - 1 \in Nat /\ Len(lines) = (Len(lines) - 1) + 1
      BY <3>1
    <3>3. QED
      BY <3>2
  <2>3. s.ts \in Nat /\ MaxAge \in Nat /\ Parses(s)
    BY <1>2, LineKinds, HistoryConstants
  <2>4. Kept(lines, s.ts, k + 1)
    <3>1. s.ts + MaxAge >= s.ts
      BY <2>3
    <3>2. QED
      BY <2>2, <2>3, <3>1 DEF Kept
  <2>5. f[k + 1] = Append(f[k], s)
    <3>1. k + 1 <= Len(lines) /\ lines[k + 1] = s
      BY <2>2
    <3>2. f[k + 1] = IF Kept(lines, s.ts, k + 1) THEN Append(f[k], lines[k + 1]) ELSE f[k]
      <4> HIDE DEF s
      <4>1. QED
        BY <2>1, <3>1, KeptStep
    <3>3. QED
      BY <2>4, <3>1, <3>2
  <2>6. f[k] \in Seq(Line) /\ s \in Line
    <3>1. k \in 0 .. Len(lines)
      BY <2>2
    <3>2. QED
      BY <2>1, <3>1, KeptPicks, LineKinds
  <2> HIDE DEF s
  <2>7. Append(f[k], s) # <<>> /\ Append(f[k], s)[Len(Append(f[k], s))] = s
    BY <2>6
  <2>8. QED
    BY <2>1, <2>2, <2>5, <2>7 DEF s
<1>3. QED
  BY <1>1, <1>2

-----------------------------------------------------------------------------
(* The other limits *)

(* The last n lines. *)
LEMMA SuffixLines ==
  ASSUME NEW lines \in Seq(Line), NEW n \in 1 .. Len(lines)
  PROVE  LET s == Suffix(lines, n) IN
         /\ s \in Seq(Line) /\ Len(s) = n /\ s[n] = lines[Len(lines)] /\ Thinned(s, lines)
<1> DEFINE m == Len(lines) - n + 1
<1>1. m \in Nat /\ 1 <= m /\ m <= Len(lines) + 1 /\ Len(lines) + 1 - m = n /\ Len(lines) \in Nat
      /\ m + n - 1 = Len(lines) /\ n \in 1 .. n
  OBVIOUS
<1> HIDE DEF m
<1>2. SubSeq(lines, m, Len(lines)) \in Seq(Line) /\ Len(SubSeq(lines, m, Len(lines))) = n
      /\ SubSeq(lines, m, Len(lines))[n] = lines[Len(lines)]
      /\ Thinned(SubSeq(lines, m, Len(lines)), lines)
  BY <1>1, ThinnedSub
<1>3. QED
  BY <1>2 DEF Suffix, m

(* c is made of lines in their order, the last among them. *)
Tailored(c, lines) ==
  /\ c \in Seq(Line) /\ Thinned(c, lines) /\ Len(c) <= Len(lines)
  /\ c = <<>> <=> lines = <<>>
  /\ lines # <<>> => c[Len(c)] = lines[Len(lines)]

(* All lines and the last n are. *)
LEMMA LimitTailored ==
  ASSUME NEW lines \in Seq(Line)
  PROVE  /\ Tailored(lines, lines)
         /\ \A n \in 1 .. Len(lines) : Tailored(Suffix(lines, n), lines) /\ Len(Suffix(lines, n)) = n
<1>1. Tailored(lines, lines)
  BY ThinnedSame DEF Tailored
<1>2. ASSUME NEW n \in 1 .. Len(lines)
      PROVE  Tailored(Suffix(lines, n), lines) /\ Len(Suffix(lines, n)) = n
  <2> DEFINE s == Suffix(lines, n)
  <2>1. s \in Seq(Line) /\ Len(s) = n /\ s[n] = lines[Len(lines)] /\ Thinned(s, lines)
    BY SuffixLines
  <2> HIDE DEF s
  <2>2. s # <<>> /\ lines # <<>> /\ n <= Len(lines)
    BY <2>1
  <2>3. QED
    BY <2>1, <2>2 DEF Tailored, s
<1>3. QED
  BY <1>1, <1>2

(* The limit by number keeps the newest lines. *)
LEMMA FewLines ==
  ASSUME NEW lines \in Seq(Line)
  PROVE  Tailored(Few(lines), lines) /\ (MaxEntries > 0 => Len(Few(lines)) <= MaxEntries)
<1>1. CASE MaxEntries > 0 /\ Len(lines) > MaxEntries
  <2>1. MaxEntries \in 1 .. Len(lines) /\ MaxEntries \in Nat
    BY <1>1, HistoryConstants
  <2>2. Few(lines) = Suffix(lines, MaxEntries)
    BY <1>1 DEF Few
  <2>3. QED
    BY <2>1, <2>2, LimitTailored
<1>2. CASE ~(MaxEntries > 0 /\ Len(lines) > MaxEntries)
  <2>1. Few(lines) = lines
    BY <1>2 DEF Few
  <2>2. MaxEntries > 0 => Len(lines) <= MaxEntries
    BY <1>2, HistoryConstants
  <2>3. QED
    BY <2>1, <2>2, LimitTailored
<1>3. QED
  BY <1>1, <1>2

(* So does the limit by size. *)
LEMMA SmallLines ==
  ASSUME NEW lines \in Seq(Line)
  PROVE  Tailored(Small(lines), lines)
<1> DEFINE room == IF MaxLines = 0 THEN 1 ELSE MaxLines
<1>1. CASE MaxLines # NONE /\ Len(lines) > room
  <2>1. room \in 1 .. Len(lines)
    BY <1>1, HistoryConstants
  <2>2. Small(lines) = Suffix(lines, room)
    BY <1>1 DEF Small
  <2> HIDE DEF room
  <2>3. QED
    BY <2>1, <2>2, LimitTailored
<1>2. CASE ~(MaxLines # NONE /\ Len(lines) > room)
  <2>1. Small(lines) = lines
    BY <1>2 DEF Small
  <2>2. QED
    BY <2>1, LimitTailored
<1>3. QED
  BY <1>1, <1>2

(* What a compaction keeps. *)
LEMMA CompactedLines ==
  ASSUME NEW lines \in Seq(Line), NEW now
  PROVE  /\ Compacted(lines, now) \in Seq(Line) /\ Thinned(Compacted(lines, now), lines)
         /\ MaxEntries > 0 => Len(Compacted(lines, now)) <= MaxEntries
         /\ Compacted(lines, now) = <<>> <=> Young(lines, now) = <<>>
         /\ Young(lines, now) # <<>> =>
              Compacted(lines, now)[Len(Compacted(lines, now))]
                = Young(lines, now)[Len(Young(lines, now))]
<1> DEFINE y == Young(lines, now)
           w == Few(y)
           c == Small(w)
<1>1. y \in Seq(Line) /\ Thinned(y, lines)
  BY YoungLines
<1>2. Tailored(w, y) /\ (MaxEntries > 0 => Len(w) <= MaxEntries)
  <2> HIDE DEF y
  <2>1. QED
    BY <1>1, FewLines
<1>3. w \in Seq(Line)
  BY <1>2 DEF Tailored
<1>4. Tailored(c, w)
  <2> HIDE DEF w
  <2>1. QED
    BY <1>3, SmallLines
<1>5. c = Compacted(lines, now)
  BY DEF Compacted
<1> HIDE DEF y, w, c
<1>6. c \in Seq(Line) /\ Thinned(c, w) /\ Thinned(w, y)
  BY <1>2, <1>4 DEF Tailored
<1>7. Thinned(c, lines)
  BY <1>1, <1>3, <1>6, ThinnedTwice
<1>8. MaxEntries > 0 => Len(c) <= MaxEntries
  BY <1>2, <1>3, <1>4, <1>6, HistoryConstants DEF Tailored
<1>9. (c = <<>> <=> y = <<>>) /\ (y # <<>> => c[Len(c)] = y[Len(y)])
  BY <1>2, <1>4 DEF Tailored
<1>10. QED
  BY <1>5, <1>6, <1>7, <1>8, <1>9 DEF y

-----------------------------------------------------------------------------
(* An append, and what is left of one *)

(* The lines are those of h and perhaps s; one line more may not parse.     *)
Extends(l, h, s) ==
  /\ l \in Seq(Line)
  /\ \A i \in DOMAIN l : Parses(l[i]) => l[i] = s \/ \E j \in DOMAIN h : l[i] = h[j]
  /\ Ordered(h) /\ (\A j \in DOMAIN h : Parses(h[j]) => h[j].n < s.n) => Ordered(l)

(* All lines but the last. *)
LEMMA FrontLines ==
  ASSUME NEW h \in Seq(Line), NEW m \in Nat, Len(h) = m + 1
  PROVE  /\ Front(h) \in Seq(Line) /\ Len(Front(h)) = m /\ Thinned(Front(h), h)
         /\ \A i \in 1 .. m : Front(h)[i] = h[i]
<1>1. 1 \in Nat /\ 1 <= m + 1 /\ m <= Len(h) /\ m + 1 - 1 = m /\ Len(h) - 1 = m
  OBVIOUS
<1>2. SubSeq(h, 1, m) \in Seq(Line) /\ Thinned(SubSeq(h, 1, m), h)
  BY <1>1, ThinnedSub
<1>3. Len(SubSeq(h, 1, m)) = m /\ \A i \in 1 .. m : SubSeq(h, 1, m)[i] = h[i]
  BY <1>1
<1>4. Front(h) = SubSeq(h, 1, m)
  BY <1>1 DEF Front
<1>5. QED
  BY <1>2, <1>3, <1>4

(* An append makes no line unreadable that was not. *)
LEMMA AppendedLines ==
  ASSUME NEW h \in Seq(Line), NEW s \in Snapshot
  PROVE  LET a == Appended(h, s) IN
         /\ Extends(a, h, s) /\ a # <<>> /\ a[Len(a)] \in {s, JUNK}
         /\ h = <<>> \/ h[Len(h)] # TORN => a[Len(a)] = s
         /\ Cardinality(Spoilt(a)) <= Cardinality(Spoilt(h))
<1>1. CASE h # <<>> /\ h[Len(h)] = TORN
  <2> DEFINE m == Len(h) - 1
             g == Front(h)
             a == Append(g, JUNK)
  <2>1. m \in Nat /\ Len(h) = m + 1
    BY <1>1
  <2>2. g = Front(h)
    OBVIOUS
  <2> HIDE DEF m
  <2>3. g \in Seq(Line) /\ Len(g) = m /\ Thinned(g, h) /\ \A i \in 1 .. m : g[i] = h[i]
    BY <2>1, <2>2, FrontLines
  <2>4. Appended(h, s) = a
    BY <1>1, <2>2 DEF Appended, Last
  <2> HIDE DEF g
  <2>5. a \in Seq(Line) /\ Len(a) = m + 1 /\ a[m + 1] = JUNK /\ \A i \in 1 .. m : a[i] = g[i]
    BY <2>1, <2>3, LineKinds, SpoiltAppend
  <2> HIDE DEF a
  <2>6. DOMAIN a = 1 .. m + 1 /\ DOMAIN h = 1 .. m + 1 /\ DOMAIN g = 1 .. m
    BY <2>1, <2>3, <2>5
  <2>7. \A i \in 1 .. m + 1 : (Parses(a[i]) <=> Parses(h[i])) /\ (Parses(a[i]) => a[i] = h[i])
    <3>1. ~Parses(a[m + 1]) /\ ~Parses(h[m + 1])
      BY <1>1, <2>1, <2>5, LineKinds
    <3>2. \A i \in 1 .. m + 1 : i # m + 1 => i \in 1 .. m
      BY <2>1
    <3>3. QED
      BY <2>3, <2>5, <3>1, <3>2
  <2>8. Spoilt(a) = Spoilt(h)
    BY <2>6, <2>7 DEF Spoilt
  <2>9. Ordered(h) => Ordered(a)
    BY <2>6, <2>7 DEF Ordered
  <2>10. Extends(a, h, s)
    BY <2>5, <2>6, <2>7, <2>9 DEF Extends
  <2>11. a # <<>> /\ a[Len(a)] = JUNK
    BY <2>1, <2>5
  <2>12. Cardinality(Spoilt(a)) <= Cardinality(Spoilt(h))
    BY <2>8, SpoiltFinite
  <2>13. QED
    BY <1>1, <2>4, <2>10, <2>11, <2>12
<1>2. CASE ~(h # <<>> /\ h[Len(h)] = TORN)
  <2> DEFINE a == Append(h, s)
             m == Len(h)
  <2>1. Appended(h, s) = a
    BY <1>2 DEF Appended, Last
  <2>2. s \in Line /\ Parses(s)
    BY LineKinds
  <2>3. a \in Seq(Line) /\ Len(a) = m + 1 /\ a[m + 1] = s /\ m \in Nat
        /\ (\A i \in 1 .. m : a[i] = h[i]) /\ Spoilt(a) = Spoilt(h)
    BY <2>2, SpoiltAppend
  <2>4. DOMAIN h = 1 .. m
    OBVIOUS
  <2> HIDE DEF a, m
  <2>5. DOMAIN a = 1 .. m + 1 /\ \A i \in 1 .. m + 1 : i # m + 1 => i \in 1 .. m
    BY <2>3
  <2>6. ASSUME Ordered(h), \A j \in DOMAIN h : Parses(h[j]) => h[j].n < s.n
        PROVE  Ordered(a)
    <3>1. SUFFICES ASSUME NEW i \in DOMAIN a, NEW j \in DOMAIN a, i < j, Parses(a[i]), Parses(a[j])
                   PROVE  a[i].n < a[j].n
      BY DEF Ordered
    <3>2. i \in 1 .. m /\ a[i] = h[i]
      BY <2>3, <2>5, <3>1
    <3>3. CASE j = m + 1
      BY <2>3, <2>4, <2>6, <3>1, <3>2, <3>3
    <3>4. CASE j # m + 1
      <4>1. j \in 1 .. m /\ a[j] = h[j]
        BY <2>3, <2>5, <3>1, <3>4
      <4>2. QED
        BY <2>4, <2>6, <3>1, <3>2, <4>1 DEF Ordered
    <3>5. QED
      BY <3>3, <3>4
  <2>7. \A i \in DOMAIN a : Parses(a[i]) => a[i] = s \/ \E j \in DOMAIN h : a[i] = h[j]
    BY <2>3, <2>4, <2>5
  <2>8. Extends(a, h, s)
    BY <2>3, <2>6, <2>7 DEF Extends
  <2>9. a # <<>> /\ a[Len(a)] = s
    BY <2>3
  <2>10. Cardinality(Spoilt(a)) <= Cardinality(Spoilt(h))
    BY <2>3, SpoiltFinite
  <2>11. QED
    BY <2>1, <2>8, <2>9, <2>10
<1>3. QED
  BY <1>1, <1>2

(* Some of the lines of an extension extend as well. *)
LEMMA ExtendsThinned ==
  ASSUME NEW h \in Seq(Line), NEW s, NEW a, Extends(a, h, s),
         NEW l \in Seq(Line), Thinned(l, a)
  PROVE  Extends(l, h, s) /\ Cardinality(Spoilt(l)) <= Cardinality(Spoilt(a))
<1>1. a \in Seq(Line)
  BY DEF Extends
<1>2. /\ Ordered(a) => Ordered(l)
      /\ Cardinality(Spoilt(l)) <= Cardinality(Spoilt(a))
      /\ \A i \in DOMAIN l : \E j \in DOMAIN a : l[i] = a[j]
  BY <1>1, ThinnedKeeps
<1>3. QED
  BY <1>2 DEF Extends

(* What append_snapshot leaves: the lines in order, none spoilt, the        *)
(* snapshot last unless the file ended in a torn line, and the limit kept. *)
LEMMA RecordedLines ==
  ASSUME NEW h \in Seq(Line), NEW s \in Snapshot
  PROVE  LET c == Recorded(h, s) IN
         /\ Extends(c, h, s) /\ Cardinality(Spoilt(c)) <= Cardinality(Spoilt(h))
         /\ MaxEntries > 0 => Len(c) <= MaxEntries
         /\ c # <<>> => c[Len(c)] # TORN
         /\ h = <<>> \/ h[Len(h)] # TORN => c # <<>> /\ c[Len(c)] = s
<1> DEFINE a == Appended(h, s)
           y == Young(a, s.ts)
           c == Compacted(a, s.ts)
<1>1. /\ Extends(a, h, s) /\ a # <<>> /\ a[Len(a)] \in {s, JUNK}
      /\ h = <<>> \/ h[Len(h)] # TORN => a[Len(a)] = s
      /\ Cardinality(Spoilt(a)) <= Cardinality(Spoilt(h))
  BY AppendedLines
<1> HIDE DEF a
<1>2. a \in Seq(Line)
  BY <1>1 DEF Extends
<1>3. /\ c \in Seq(Line) /\ Thinned(c, a)
      /\ MaxEntries > 0 => Len(c) <= MaxEntries
      /\ c = <<>> <=> y = <<>>
      /\ y # <<>> => c[Len(c)] = y[Len(y)]
  BY <1>2, CompactedLines
<1>4. /\ y \in Seq(Line)
      /\ y = a \/ \A i \in 1 .. Len(y) : Parses(y[i])
  BY <1>2, YoungLines
<1>5. a[Len(a)] = s => y # <<>> /\ y[Len(y)] = s
  <2>1. ASSUME a[Len(a)] = s PROVE y # <<>> /\ y[Len(y)] = s
    BY <1>1, <1>2, <2>1, YoungLast
  <2>2. QED
    BY <2>1
<1>6. c = Recorded(h, s)
  BY DEF Recorded, a
<1> HIDE DEF y, c
<1>7. y # <<>> => y[Len(y)] # TORN
  <2>1. CASE y = a
    BY <1>1, <2>1, LineKinds
  <2>2. CASE y # <<>> /\ \A i \in 1 .. Len(y) : Parses(y[i])
    <3>1. Len(y) \in 1 .. Len(y)
      BY <1>4, <2>2
    <3>2. QED
      BY <2>2, <3>1, LineKinds
  <2>3. QED
    BY <1>4, <2>1, <2>2
<1>8. Extends(c, h, s) /\ Cardinality(Spoilt(c)) <= Cardinality(Spoilt(a))
  BY <1>1, <1>3, ExtendsThinned
<1>9. Cardinality(Spoilt(c)) <= Cardinality(Spoilt(h))
  BY <1>1, <1>2, <1>3, <1>8, SpoiltFinite
<1>10. c # <<>> => c[Len(c)] # TORN
  BY <1>3, <1>7
<1>11. h = <<>> \/ h[Len(h)] # TORN => c # <<>> /\ c[Len(c)] = s
  BY <1>1, <1>3, <1>5
<1>12. QED
  BY <1>3, <1>6, <1>8, <1>9, <1>10, <1>11

(* Part of a line spoils one line at most. *)
LEMMA TornLines ==
  ASSUME NEW h \in Seq(Line), NEW s, NEW l, Extends(l, h, s)
  PROVE  Extends(Torn(l), h, s) /\ Cardinality(Spoilt(Torn(l))) <= Cardinality(Spoilt(l)) + 1
<1>1. l \in Seq(Line)
  BY DEF Extends
<1>2. CASE l # <<>> /\ l[Len(l)] = TORN
  <2>1. Torn(l) = l
    BY <1>2 DEF Torn, Last
  <2>2. QED
    BY <1>1, <2>1, SpoiltFinite
<1>3. CASE ~(l # <<>> /\ l[Len(l)] = TORN)
  <2> DEFINE a == Append(l, TORN)
             m == Len(l)
  <2>1. Torn(l) = a
    BY <1>3 DEF Torn, Last
  <2>2. a \in Seq(Line) /\ Len(a) = m + 1 /\ a[m + 1] = TORN /\ m \in Nat
        /\ (\A i \in 1 .. m : a[i] = l[i])
        /\ Cardinality(Spoilt(a)) <= Cardinality(Spoilt(l)) + 1
    BY <1>1, LineKinds, SpoiltAppend
  <2>3. DOMAIN l = 1 .. m
    BY <1>1
  <2> HIDE DEF a, m
  <2>4. DOMAIN a = 1 .. m + 1 /\ \A i \in 1 .. m + 1 : i # m + 1 => i \in 1 .. m
    BY <2>2
  <2>5. \A i \in DOMAIN a : Parses(a[i]) => i \in DOMAIN l /\ a[i] = l[i]
    BY <2>2, <2>3, <2>4, LineKinds
  <2>6. Ordered(l) => Ordered(a)
    BY <2>5 DEF Ordered
  <2>7. Extends(a, h, s)
    BY <2>2, <2>5, <2>6 DEF Extends
  <2>8. QED
    BY <2>1, <2>2, <2>7
<1>4. QED
  BY <1>2, <1>3

(* An append that fails or is cut short spoils one line at most. *)
LEMMA HalfRecordedLines ==
  ASSUME NEW h \in Seq(Line), NEW s \in Snapshot, NEW l \in {h} \cup HalfRecorded(h, s)
  PROVE  Extends(l, h, s) /\ Cardinality(Spoilt(l)) <= Cardinality(Spoilt(h)) + 1
<1> DEFINE a == Appended(h, s)
           c == Recorded(h, s)
<1>1. Extends(h, h, s) /\ Cardinality(Spoilt(h)) \in Nat
  BY SpoiltFinite DEF Extends
<1>2. Extends(a, h, s) /\ Cardinality(Spoilt(a)) <= Cardinality(Spoilt(h))
  BY AppendedLines
<1>3. Extends(c, h, s) /\ Cardinality(Spoilt(c)) <= Cardinality(Spoilt(h))
  BY RecordedLines
<1>4. \/ l \in {h, Torn(h), a}
      \/ \E k \in 0 .. Len(c) - 1 : l \in {SubSeq(c, 1, k), Torn(SubSeq(c, 1, k))}
  BY DEF HalfRecorded
<1> HIDE DEF a, c
<1>5. a \in Seq(Line) /\ c \in Seq(Line)
  BY <1>2, <1>3 DEF Extends
<1>6. CASE l \in {h, Torn(h), a}
  <2>1. Extends(Torn(h), h, s) /\ Cardinality(Spoilt(Torn(h))) <= Cardinality(Spoilt(h)) + 1
    BY <1>1, TornLines
  <2>2. Cardinality(Spoilt(a)) \in Nat
    BY <1>5, SpoiltFinite
  <2>3. QED
    BY <1>1, <1>2, <1>6, <2>1, <2>2
<1>7. ASSUME NEW k \in 0 .. Len(c) - 1, l \in {SubSeq(c, 1, k), Torn(SubSeq(c, 1, k))}
      PROVE  Extends(l, h, s) /\ Cardinality(Spoilt(l)) <= Cardinality(Spoilt(h)) + 1
  <2> DEFINE d == SubSeq(c, 1, k)
  <2>1. k \in Nat /\ 1 <= k + 1 /\ k <= Len(c)
    BY <1>5
  <2>2. d \in Seq(Line) /\ Thinned(d, c)
    <3>1. 1 \in Nat /\ 1 <= 1
      OBVIOUS
    <3>2. QED
      BY <1>5, <2>1, <3>1, ThinnedSub
  <2> HIDE DEF d
  <2>3. Extends(d, h, s) /\ Cardinality(Spoilt(d)) <= Cardinality(Spoilt(c))
    BY <1>3, <2>2, ExtendsThinned
  <2>4. Extends(Torn(d), h, s) /\ Cardinality(Spoilt(Torn(d))) <= Cardinality(Spoilt(d)) + 1
    BY <2>3, TornLines
  <2>5. Cardinality(Spoilt(c)) \in Nat /\ Cardinality(Spoilt(d)) \in Nat
        /\ Cardinality(Spoilt(Torn(d))) \in Nat
    BY <1>5, <2>2, <2>4, SpoiltFinite DEF Extends
  <2>6. l \in {d, Torn(d)}
    BY <1>7 DEF d
  <2>7. QED
    BY <1>1, <1>3, <2>3, <2>4, <2>5, <2>6
<1>8. QED
  BY <1>4, <1>6, <1>7

-----------------------------------------------------------------------------
(* The streaks *)

(* The streaks after a rule, from those before it. *)
Passed(prev, k, value) ==
  IF ~Rules[k].known THEN prev
  ELSE [prev EXCEPT ![Rules[k].id] = NextStreak(prev[Rules[k].id], Matched(k, value))]

(* f is the function after of StreaksUpTo(value). *)
IsAfter(f, value) ==
  f = [k \in 0 .. Len(Rules) |-> IF k = 0 THEN streaks ELSE Passed(f[k - 1], k, value)]

(* StreaksUpTo is well defined: there is such a function. *)
LEMMA AfterExists ==
  ASSUME NEW value
  PROVE  IsAfter(StreaksUpTo(value), value)
<1> DEFINE Def(g, n) == [k \in 0 .. n |-> IF k = 0 THEN streaks ELSE Passed(g[k - 1], k, value)]
           S == {n \in Nat : \E g : g = Def(g, n)}
<1>1. 0 \in S
  <2> DEFINE h == [k \in 0 .. 0 |-> streaks]
  <2>1. h = Def(h, 0)
    OBVIOUS
  <2>2. QED
    BY <2>1
<1>2. ASSUME NEW n \in Nat, n \in S PROVE n + 1 \in S
  <2>1. PICK g : g = Def(g, n)
    BY <1>2
  <2> DEFINE h == [k \in 0 .. n + 1 |-> IF k = n + 1 THEN Passed(g[n], n + 1, value) ELSE g[k]]
  <2>2. ASSUME NEW k \in 0 .. n + 1 PROVE h[k] = Def(h, n + 1)[k]
    <3>1. CASE k = n + 1
      BY <3>1
    <3>2. CASE k # n + 1
      <4>1. k \in 0 .. n /\ h[k] = g[k] /\ (k # 0 => h[k - 1] = g[k - 1])
        BY <3>2
      <4>2. g[k] = Def(g, n)[k]
        BY <2>1, Zenon
      <4>3. Def(g, n)[k] = IF k = 0 THEN streaks ELSE Passed(g[k - 1], k, value)
        BY <4>1
      <4>4. Def(h, n + 1)[k] = IF k = 0 THEN streaks ELSE Passed(h[k - 1], k, value)
        OBVIOUS
      <4> HIDE DEF h, Def
      <4>5. QED
        BY <4>1, <4>2, <4>3, <4>4
    <3>3. QED
      BY <3>1, <3>2
  <2>3. h = Def(h, n + 1)
    BY <2>2
  <2> HIDE DEF h, Def
  <2>4. \E x : x = Def(x, n + 1)
    BY <2>3
  <2>5. QED
    BY <2>4
<1> HIDE DEF S
<1>3. Len(Rules) \in S
  BY <1>1, <1>2, SetInduction, TelemetryConstants
<1>4. \E g : g = Def(g, Len(Rules))
  BY <1>3 DEF S
<1> DEFINE f == CHOOSE g : g = Def(g, Len(Rules))
<1>5. f = Def(f, Len(Rules))
  BY <1>4
<1>6. StreaksUpTo(value) = f
  BY DEF StreaksUpTo, Passed
<1> HIDE DEF f
<1>7. IsAfter(f, value)
  BY <1>5 DEF IsAfter
<1>8. QED
  BY <1>6, <1>7

(* Its values, one rule after the other. *)
LEMMA AfterStep ==
  ASSUME NEW value
  PROVE  /\ StreaksUpTo(value)[0] = streaks
         /\ \A k \in Nat : k + 1 <= Len(Rules) =>
              StreaksUpTo(value)[k + 1] = Passed(StreaksUpTo(value)[k], k + 1, value)
<1> DEFINE f == StreaksUpTo(value)
           e == [k \in 0 .. Len(Rules) |-> IF k = 0 THEN streaks ELSE Passed(f[k - 1], k, value)]
<1>1. f = e
  BY AfterExists DEF IsAfter
<1> HIDE DEF f
<1>2. e[0] = streaks
  BY TelemetryConstants
<1>3. ASSUME NEW k \in Nat, k + 1 <= Len(Rules) PROVE e[k + 1] = Passed(f[k], k + 1, value)
  <2>1. k + 1 \in 0 .. Len(Rules) /\ k + 1 # 0 /\ (k + 1) - 1 = k
    BY <1>3, TelemetryConstants
  <2>2. QED
    BY <2>1
<1> HIDE DEF e
<1>4. QED
  BY <1>1, <1>2, <1>3 DEF f

(* There is a streak for every rule at any time. *)
LEMMA AfterType ==
  ASSUME NEW value, streaks \in [Ids -> Nat], NEW n \in 0 .. Len(Rules)
  PROVE  StreaksUpTo(value)[n] \in [Ids -> Nat]
<1> DEFINE f == StreaksUpTo(value)
           S == {k \in Nat : k <= Len(Rules) => f[k] \in [Ids -> Nat]}
<1>1. f[0] = streaks
      /\ \A k \in Nat : k + 1 <= Len(Rules) => f[k + 1] = Passed(f[k], k + 1, value)
  BY AfterStep
<1> HIDE DEF f
<1>2. 0 \in S
  BY <1>1
<1>3. ASSUME NEW k \in Nat, k \in S PROVE k + 1 \in S
  <2>1. SUFFICES ASSUME k + 1 <= Len(Rules) PROVE f[k + 1] \in [Ids -> Nat]
    OBVIOUS
  <2>2. f[k] \in [Ids -> Nat]
    BY <1>3, <2>1, TelemetryConstants
  <2>3. k + 1 \in DOMAIN Rules /\ Rules[k + 1].id \in Ids
    BY <2>1, TelemetryConstants DEF Ids
  <2>4. NextStreak(f[k][Rules[k + 1].id], Matched(k + 1, value)) \in Nat
    BY <2>2, <2>3 DEF NextStreak
  <2>5. Passed(f[k], k + 1, value) \in [Ids -> Nat]
    BY <2>2, <2>3, <2>4 DEF Passed
  <2>6. QED
    BY <1>1, <2>1, <2>5
<1> HIDE DEF S
<1>4. n \in S
  BY <1>2, <1>3, SetInduction, TelemetryConstants
<1>5. QED
  BY <1>4, TelemetryConstants DEF S, f

(* An evaluation is a snapshot and a rule. *)
LEMMA InEvaluated ==
  ASSUME NEW id, NEW n, NEW k, NEW e
  PROVE  e \in Evaluated(id, n, k) <=>
           \E i \in 1 .. n, j \in DOMAIN Rules :
             e = <<i, j>> /\ Rules[j].known /\ Rules[j].id = id /\ (i < n \/ j <= k)
BY DEF Evaluated

(* There are finitely many evaluations. *)
LEMMA UnbrokenFinite ==
  ASSUME NEW t, NEW id, NEW n \in Nat, NEW k
  PROVE  /\ IsFiniteSet(Unbroken(t, id, n, k))
         /\ Cardinality(Unbroken(t, id, n, k)) \in Nat
<1>1. IsFiniteSet((1 .. n) \X (1 .. Len(Rules)))
  <2>1. Len(Rules) \in Int /\ n \in Int /\ 1 \in Int
    BY TelemetryConstants
  <2>2. IsFiniteSet(1 .. n) /\ IsFiniteSet(1 .. Len(Rules))
    BY <2>1, FS_Interval
  <2>3. QED
    BY <2>2, FS_Product
<1>2. Unbroken(t, id, n, k) \subseteq (1 .. n) \X (1 .. Len(Rules))
  BY TelemetryConstants DEF Unbroken, Evaluated
<1>3. IsFiniteSet(Unbroken(t, id, n, k))
  BY <1>1, <1>2, FS_Subset
<1>4. QED
  BY <1>3, FS_CardinalityType

(* The evaluations before the first rule of a snapshot are those up to the  *)
(* last rule of the one before it.                                         *)
LEMMA UnbrokenAtStart ==
  ASSUME NEW t \in Seq(Snapshot), NEW s \in Snapshot, NEW id
  PROVE  Unbroken(Append(t, s), id, Len(t) + 1, 0) = Unbroken(t, id, Len(t), Len(Rules))
<1>1. Evaluated(id, Len(t) + 1, 0) = Evaluated(id, Len(t), Len(Rules))
  <2>1. Len(t) \in Nat /\ \A j \in DOMAIN Rules : j \in Nat /\ j > 0 /\ j <= Len(Rules)
    BY TelemetryConstants
  <2>2. \A e : e \in Evaluated(id, Len(t) + 1, 0) <=> e \in Evaluated(id, Len(t), Len(Rules))
    <3>1. ASSUME NEW e, e \in Evaluated(id, Len(t) + 1, 0)
          PROVE  e \in Evaluated(id, Len(t), Len(Rules))
      <4>1. PICK i \in 1 .. Len(t) + 1, j \in DOMAIN Rules :
              e = <<i, j>> /\ Rules[j].known /\ Rules[j].id = id /\ (i < Len(t) + 1 \/ j <= 0)
        BY <3>1, InEvaluated
      <4>2. i \in 1 .. Len(t) /\ j <= Len(Rules)
        BY <2>1, <4>1
      <4>3. QED
        BY <4>1, <4>2, InEvaluated
    <3>2. ASSUME NEW e, e \in Evaluated(id, Len(t), Len(Rules))
          PROVE  e \in Evaluated(id, Len(t) + 1, 0)
      <4>1. PICK i \in 1 .. Len(t), j \in DOMAIN Rules :
              e = <<i, j>> /\ Rules[j].known /\ Rules[j].id = id
        BY <3>2, InEvaluated
      <4>2. i \in 1 .. Len(t) + 1 /\ i < Len(t) + 1
        BY <2>1, <4>1
      <4>3. QED
        BY <4>1, <4>2, InEvaluated
    <3>3. QED
      BY <3>1, <3>2
  <2>3. QED
    BY <2>2, Zenon
<1>2. ASSUME NEW f \in Evaluated(id, Len(t), Len(Rules)) PROVE Append(t, s)[f[1]] = t[f[1]]
  <2>1. PICK i \in 1 .. Len(t), j \in DOMAIN Rules : f = <<i, j>>
    BY InEvaluated
  <2>2. QED
    BY <2>1
<1> DEFINE t1 == Append(t, s)
           E == Evaluated(id, Len(t), Len(Rules))
<1>3. Unbroken(t1, id, Len(t) + 1, 0)
        = {e \in E : \A f \in E : Before(f, e) \/ Matched(f[2], t1[f[1]].value)}
  BY <1>1 DEF Unbroken
<1>4. Unbroken(t, id, Len(t), Len(Rules))
        = {e \in E : \A f \in E : Before(f, e) \/ Matched(f[2], t[f[1]].value)}
  BY DEF Unbroken
<1>5. \A f \in E : t1[f[1]] = t[f[1]]
  BY <1>2
<1> HIDE DEF t1, E
<1>6. QED
  BY <1>3, <1>4, <1>5 DEF t1

(* A rule that is passed over, or of another id, adds nothing. *)
LEMMA UnbrokenPassed ==
  ASSUME NEW t, NEW id, NEW n \in Nat, NEW k \in Nat, k + 1 <= Len(Rules),
         ~Rules[k + 1].known \/ Rules[k + 1].id # id
  PROVE  Unbroken(t, id, n, k + 1) = Unbroken(t, id, n, k)
<1>1. \A j \in DOMAIN Rules : Rules[j].known /\ Rules[j].id = id => (j <= k + 1 <=> j <= k)
  BY TelemetryConstants
<1>2. Evaluated(id, n, k + 1) = Evaluated(id, n, k)
  <2>1. \A e : e \in Evaluated(id, n, k + 1) <=> e \in Evaluated(id, n, k)
    BY <1>1, InEvaluated
  <2>2. QED
    BY <2>1, Zenon
<1>3. QED
  BY <1>2 DEF Unbroken

(* A rule that is evaluated adds an evaluation, later than all others. *)
LEMMA EvaluatedNext ==
  ASSUME NEW id, NEW n \in Nat \ {0}, NEW k \in Nat, k + 1 <= Len(Rules),
         Rules[k + 1].known, Rules[k + 1].id = id
  PROVE  /\ Evaluated(id, n, k + 1) = Evaluated(id, n, k) \cup {<<n, k + 1>>}
         /\ \A e \in Evaluated(id, n, k) :
              Before(e, <<n, k + 1>>) /\ ~Before(<<n, k + 1>>, e)
         /\ ~Before(<<n, k + 1>>, <<n, k + 1>>)
         /\ <<n, k + 1>> \notin Evaluated(id, n, k)
<1>1. k + 1 \in DOMAIN Rules /\ \A j \in DOMAIN Rules : j \in Nat
  BY TelemetryConstants
<1>2. ASSUME NEW e \in Evaluated(id, n, k + 1), e # <<n, k + 1>>
      PROVE  e \in Evaluated(id, n, k)
  <2>1. PICK i \in 1 .. n, j \in DOMAIN Rules : e = <<i, j>> /\ Rules[j].known /\ Rules[j].id = id
    BY DEF Evaluated
  <2>2. i < n \/ j <= k + 1
    BY <2>1 DEF Evaluated
  <2>3. i < n \/ j <= k
    BY <1>1, <1>2, <2>1, <2>2
  <2>4. QED
    BY <2>1, <2>3 DEF Evaluated
<1>3. Evaluated(id, n, k) \subseteq Evaluated(id, n, k + 1)
  BY <1>1 DEF Evaluated
<1>4. <<n, k + 1>> \in Evaluated(id, n, k + 1)
  BY <1>1 DEF Evaluated
<1>5. ASSUME NEW e \in Evaluated(id, n, k)
      PROVE  Before(e, <<n, k + 1>>) /\ ~Before(<<n, k + 1>>, e)
  <2>1. PICK i \in 1 .. n, j \in DOMAIN Rules : e = <<i, j>>
    BY DEF Evaluated
  <2>2. i < n \/ j <= k
    BY <2>1 DEF Evaluated
  <2>3. QED
    BY <1>1, <2>1, <2>2 DEF Before
<1>6. ~Before(<<n, k + 1>>, <<n, k + 1>>)
  BY DEF Before
<1>7. QED
  BY <1>2, <1>3, <1>4, <1>5, <1>6

(* It continues the run, or ends it. *)
LEMMA UnbrokenNext ==
  ASSUME NEW t, NEW id, NEW n \in Nat \ {0}, NEW k \in Nat, k + 1 <= Len(Rules),
         Rules[k + 1].known, Rules[k + 1].id = id
  PROVE  Cardinality(Unbroken(t, id, n, k + 1))
           = NextStreak(Cardinality(Unbroken(t, id, n, k)), Matched(k + 1, t[n].value))
<1> DEFINE new == <<n, k + 1>>
           old == Evaluated(id, n, k)
<1>1. /\ Evaluated(id, n, k + 1) = old \cup {new} /\ new \notin old
      /\ \A e \in old : Before(e, new) /\ ~Before(new, e)
      /\ ~Before(new, new) /\ new[1] = n /\ new[2] = k + 1
  BY EvaluatedNext
<1> HIDE DEF new, old
<1>2. CASE Matched(k + 1, t[n].value)
  <2>1. Unbroken(t, id, n, k + 1) = Unbroken(t, id, n, k) \cup {new}
    BY <1>1, <1>2 DEF Unbroken, old
  <2>2. new \notin Unbroken(t, id, n, k)
    BY <1>1 DEF Unbroken, old
  <2>3. Cardinality(Unbroken(t, id, n, k + 1)) = Cardinality(Unbroken(t, id, n, k)) + 1
    BY <2>1, <2>2, UnbrokenFinite, FS_AddElement
  <2>4. QED
    BY <1>2, <2>3 DEF NextStreak
<1>3. CASE ~Matched(k + 1, t[n].value)
  <2>1. Unbroken(t, id, n, k + 1) = {}
    BY <1>1, <1>3 DEF Unbroken
  <2>2. QED
    BY <1>3, <2>1, FS_EmptySet DEF NextStreak
<1>4. QED
  BY <1>2, <1>3

(* The streaks count the evaluations of the snapshots taken, rule by rule. *)
LEMMA AfterCounts ==
  ASSUME taken \in Seq(Snapshot), streaks \in [Ids -> Nat], NEW s \in Snapshot,
         \A id \in Ids : streaks[id] = Cardinality(Unbroken(taken, id, Len(taken), Len(Rules))),
         NEW n \in 0 .. Len(Rules)
  PROVE  \A id \in Ids :
           StreaksUpTo(s.value)[n][id]
             = Cardinality(Unbroken(Append(taken, s), id, Len(taken) + 1, n))
<1> DEFINE f == StreaksUpTo(s.value)
           t == Append(taken, s)
           m == Len(taken) + 1
           S == {j \in Nat : j <= Len(Rules) =>
                   \A id \in Ids : f[j][id] = Cardinality(Unbroken(t, id, m, j))}
<1>1. f[0] = streaks
      /\ \A j \in Nat : j + 1 <= Len(Rules) => f[j + 1] = Passed(f[j], j + 1, s.value)
  BY AfterStep
<1>2. \A j \in 0 .. Len(Rules) : f[j] \in [Ids -> Nat]
  BY AfterType
<1>3. m \in Nat \ {0} /\ t[m] = s /\ Len(Rules) \in Nat
  BY TelemetryConstants
<1>4. \A id \in Ids : Cardinality(Unbroken(t, id, m, 0)) = streaks[id]
  BY UnbrokenAtStart
<1> HIDE DEF f, t, m
<1>5. 0 \in S
  BY <1>1, <1>4
<1>6. ASSUME NEW j \in Nat, j \in S PROVE j + 1 \in S
  <2>1. SUFFICES ASSUME j + 1 <= Len(Rules), NEW id \in Ids
                 PROVE  f[j + 1][id] = Cardinality(Unbroken(t, id, m, j + 1))
    OBVIOUS
  <2>2. f[j][id] = Cardinality(Unbroken(t, id, m, j)) /\ f[j] \in [Ids -> Nat]
    BY <1>2, <1>3, <1>6, <2>1
  <2>3. f[j + 1] = Passed(f[j], j + 1, s.value)
    BY <1>1, <2>1
  <2> HIDE DEF S
  <2>4. CASE Rules[j + 1].known /\ Rules[j + 1].id = id
    <3>1. f[j + 1][id] = NextStreak(f[j][id], Matched(j + 1, s.value))
      BY <2>2, <2>3, <2>4 DEF Passed
    <3>2. Cardinality(Unbroken(t, id, m, j + 1))
            = NextStreak(Cardinality(Unbroken(t, id, m, j)), Matched(j + 1, t[m].value))
      BY <1>3, <2>1, <2>4, UnbrokenNext
    <3>3. QED
      BY <1>3, <2>2, <3>1, <3>2
  <2>5. CASE ~Rules[j + 1].known \/ Rules[j + 1].id # id
    <3>1. f[j + 1][id] = f[j][id]
      BY <2>2, <2>3, <2>5 DEF Passed
    <3>2. Unbroken(t, id, m, j + 1) = Unbroken(t, id, m, j)
      BY <1>3, <2>1, <2>5, UnbrokenPassed
    <3>3. QED
      BY <2>2, <3>1, <3>2
  <2>6. QED
    BY <2>4, <2>5
<1> HIDE DEF S
<1>7. n \in S
  BY <1>3, <1>5, <1>6, SetInduction
<1>8. QED
  BY <1>3, <1>7 DEF S, f, t, m

(* Where the last evaluation did not match, there is no run. *)
LEMMA RunMatches ==
  ASSUME NEW t, NEW n \in Nat \ {0}, NEW k \in DOMAIN Rules, Rules[k].known,
         ~Matched(k, t[n].value)
  PROVE  Cardinality(Unbroken(t, Rules[k].id, n, k)) = 0
<1>1. k \in Nat \ {0} /\ k - 1 \in Nat /\ (k - 1) + 1 = k /\ k <= Len(Rules)
  BY TelemetryConstants
<1>2. Cardinality(Unbroken(t, Rules[k].id, n, (k - 1) + 1))
        = NextStreak(Cardinality(Unbroken(t, Rules[k].id, n, k - 1)), Matched((k - 1) + 1, t[n].value))
  BY <1>1, UnbrokenNext
<1>3. QED
  BY <1>1, <1>2 DEF NextStreak

(* No snapshot, no run. *)
LEMMA NoRun ==
  /\ \A id, k : Cardinality(Unbroken(<<>>, id, 0, k)) = 0
  /\ \A k \in DOMAIN Rules :
       ~(Cardinality(Unbroken(<<>>, Rules[k].id, 0, k)) >= Needed(k))
<1>1. \A id, k : Unbroken(<<>>, id, 0, k) = {}
  BY DEF Unbroken, Evaluated
<1>2. \A id, k : Cardinality(Unbroken(<<>>, id, 0, k)) = 0
  BY <1>1, FS_EmptySet
<1>3. \A k \in DOMAIN Rules : Needed(k) \in Nat /\ Needed(k) >= 1
  BY TelemetryConstants DEF Needed
<1>4. QED
  BY <1>2, <1>3

-----------------------------------------------------------------------------
(* Steps of the worker *)

(* What is shared, in numbers. *)
LEMMA SharedFacts ==
  ASSUME WorkerTypeOK, WorkInv
  PROVE  /\ shared.seq \in Nat /\ shared.errors \in Nat /\ Len(cycles) \in Nat
         /\ seen \in Nat /\ stored \in Nat /\ MaxCycles \in Nat
         /\ shared.errors <= MaxCycles /\ shared.error \in BOOLEAN
         /\ shared.latest \in Snapshot \cup {NoSnapshot}
         /\ Fresh => shared.latest \in Snapshot /\ shared.errors + 1 <= MaxCycles
         /\ \A s \in Snapshot : s.n \in Nat /\ s # NoSnapshot
<1>1. /\ shared.seq \in Nat /\ shared.errors \in Nat /\ Len(cycles) \in Nat
      /\ seen \in Nat /\ stored \in Nat /\ MaxCycles \in Nat
      /\ shared.errors <= MaxCycles /\ shared.error \in BOOLEAN
      /\ shared.latest \in Snapshot \cup {NoSnapshot}
  BY WorkerConstants DEF WorkerTypeOK
<1>2. ASSUME Fresh PROVE shared.latest \in Snapshot /\ shared.errors + 1 <= MaxCycles
  <2>1. shared.seq # 0 /\ shared.seq >= 1
    BY <1>1, <1>2 DEF Fresh, WorkInv
  <2>2. shared.latest # NoSnapshot
    BY <2>1 DEF WorkInv
  <2>3. shared.errors + 1 <= MaxCycles
    BY <1>1, <2>1 DEF WorkInv
  <2>4. QED
    BY <1>1, <2>2, <2>3
<1>3. QED
  BY <1>1, <1>2, LineKinds

(* The worker keeps its invariant, and what is older stays so. *)
WorkerKeeps == WorkerTypeOK' /\ WorkInv' /\ \A n \in Nat : Older(n) => Older(n)'

(* A collection. *)
LEMMA CollectKeeps ==
  ASSUME WorkerTypeOK, WorkInv, NEW value \in Values, NEW ts \in Times,
         Collect(value, ts), UNCHANGED seen
  PROVE  WorkerKeeps
<1> DEFINE s == [n |-> Len(cycles) + 1, ts |-> ts, value |-> value]
<1>1. /\ worker' = "persist" /\ collected' = s /\ cycles' = Append(cycles, value)
      /\ stored' = stored /\ shared' = shared /\ seen' = seen
      /\ worker = "collect" /\ Len(cycles) < MaxCycles
  BY DEF Collect
<1>2. Len(cycles) \in Nat /\ MaxCycles \in Nat /\ stored \in Nat
  BY SharedFacts
<1>3. s \in Snapshot /\ s.n = Len(cycles) + 1
  BY <1>1, <1>2 DEF Snapshot
<1> HIDE DEF s
<1>4. Append(cycles, value) \in Seq(Values \cup {NoSnapshot})
      /\ Len(Append(cycles, value)) = Len(cycles) + 1
  BY DEF WorkerTypeOK
<1>5. WorkerTypeOK'
  BY <1>1, <1>3, <1>4 DEF WorkerTypeOK
<1>6. WorkInv'
  BY <1>1, <1>2, <1>3, <1>4, SharedFacts DEF WorkInv
<1>7. \A n \in Nat : Older(n) => Older(n)'
  BY <1>1 DEF Older, Fresh
<1>8. QED
  BY <1>5, <1>6, <1>7 DEF WorkerKeeps

(* A collection that fails. *)
LEMMA CollectFailsKeeps ==
  ASSUME WorkerTypeOK, WorkInv, Collect_Fails, UNCHANGED seen
  PROVE  WorkerKeeps
<1>1. /\ worker' = "connectors" /\ collected' = collected /\ cycles' = Append(cycles, NoSnapshot)
      /\ stored' = stored /\ seen' = seen
      /\ shared' = [shared EXCEPT !.errors = shared.errors + 1, !.error = TRUE]
      /\ worker = "collect" /\ Len(cycles) < MaxCycles
  BY DEF Collect_Fails
<1>2. /\ shared'.seq = shared.seq /\ shared'.latest = shared.latest
      /\ shared'.errors = shared.errors + 1
  BY <1>1 DEF WorkerTypeOK
<1>3. Append(cycles, NoSnapshot) \in Seq(Values \cup {NoSnapshot})
      /\ Len(Append(cycles, NoSnapshot)) = Len(cycles) + 1
  BY DEF WorkerTypeOK
<1>4. WorkInv'
  BY <1>1, <1>2, <1>3, SharedFacts DEF WorkInv
<1>5. shared.errors + 1 \in 0 .. MaxCycles
  BY <1>1, SharedFacts DEF WorkInv
<1>6. WorkerTypeOK'
  BY <1>1, <1>3, <1>5 DEF WorkerTypeOK
<1>7. \A n \in Nat : Older(n) => Older(n)'
  BY <1>1, <1>2 DEF Older, Fresh
<1>8. QED
  BY <1>4, <1>6, <1>7 DEF WorkerKeeps

(* The snapshot goes to the store. *)
LEMMA PersistKeeps ==
  ASSUME WorkerTypeOK, WorkInv, Persist, UNCHANGED seen
  PROVE  WorkerKeeps
<1>1. /\ worker' = "publish" /\ collected' = collected /\ cycles' = cycles
      /\ stored' = collected.n /\ seen' = seen /\ shared' = shared /\ worker = "persist"
  BY DEF Persist
<1>2. /\ collected \in Snapshot /\ collected.n = Len(cycles) /\ stored < Len(cycles)
      /\ Len(cycles) <= MaxCycles
  BY <1>1 DEF WorkInv
<1>3. WorkInv'
  BY <1>1, <1>2, SharedFacts DEF WorkInv
<1>4. stored' \in 0 .. MaxCycles
  BY <1>1, <1>2, SharedFacts
<1>5. WorkerTypeOK'
  BY <1>1, <1>4 DEF WorkerTypeOK
<1>6. \A n \in Nat : Older(n) => Older(n)'
  BY <1>1, <1>2, SharedFacts DEF Older, Fresh
<1>7. QED
  BY <1>3, <1>5, <1>6 DEF WorkerKeeps

(* The snapshot is published. *)
LEMMA PublishKeeps ==
  ASSUME WorkerTypeOK, WorkInv, Publish, UNCHANGED seen
  PROVE  WorkerKeeps
<1>1. /\ worker' = "connectors" /\ collected' = NoSnapshot /\ cycles' = cycles
      /\ stored' = stored /\ seen' = seen /\ worker = "publish"
      /\ shared' = [shared EXCEPT !.seq = shared.seq + 1, !.latest = collected, !.error = FALSE]
  BY DEF Publish
<1>2. /\ collected \in Snapshot /\ collected.n = Len(cycles) /\ stored = Len(cycles)
      /\ shared.seq + shared.errors < Len(cycles) /\ Len(cycles) <= MaxCycles
  BY <1>1 DEF WorkInv
<1>3. /\ shared'.seq = shared.seq + 1 /\ shared'.latest = collected
      /\ shared'.errors = shared.errors
  BY <1>1 DEF WorkerTypeOK
<1>4. WorkInv'
  BY <1>1, <1>2, <1>3, SharedFacts DEF WorkInv
<1>5. shared.seq + 1 \in 0 .. MaxCycles
  BY <1>2, SharedFacts
<1>6. WorkerTypeOK'
  BY <1>1, <1>2, <1>5 DEF WorkerTypeOK
<1>7. \A n \in Nat : Older(n) => Older(n)'
  BY <1>1, <1>2, <1>3 DEF Older, Fresh
<1>8. QED
  BY <1>4, <1>6, <1>7 DEF WorkerKeeps

(* The connectors are polled. *)
LEMMA ConnectorsKeeps ==
  ASSUME WorkerTypeOK, WorkInv, Connectors, UNCHANGED seen
  PROVE  WorkerKeeps
<1>1. PICK due \in BOOLEAN : shared' = [shared EXCEPT !.polls = shared.polls \/ (HasConnectors /\ due)]
  BY DEF Connectors
<1>2. /\ worker' = "collect" /\ collected' = collected /\ cycles' = cycles
      /\ stored' = stored /\ seen' = seen /\ worker = "connectors"
  BY DEF Connectors
<1>3. (shared.polls \/ (HasConnectors /\ due)) \in BOOLEAN
  OBVIOUS
<1>4. /\ shared'.seq = shared.seq /\ shared'.latest = shared.latest
      /\ shared'.errors = shared.errors
  BY <1>1 DEF WorkerTypeOK
<1>5. WorkerTypeOK'
  BY <1>1, <1>2, <1>3 DEF WorkerTypeOK
<1>6. WorkInv'
  BY <1>2, <1>4, SharedFacts DEF WorkInv
<1>7. \A n \in Nat : Older(n) => Older(n)'
  BY <1>2, <1>4 DEF Older, Fresh
<1>8. QED
  BY <1>5, <1>6, <1>7 DEF WorkerKeeps

(* Every step of the worker. *)
LEMMA WorkerStepKeeps ==
  ASSUME WorkerTypeOK, WorkInv, Worker
  PROVE  WorkerKeeps
  BY CollectKeeps, CollectFailsKeeps, PersistKeeps, PublishKeeps, ConnectorsKeeps DEF Worker

-----------------------------------------------------------------------------
(* Steps of the dashboard *)

(* What the dashboard holds stays sound when only the bounds of age change. *)
LEMMA QuietInv ==
  ASSUME TelemetryInv, WorkerKeeps, UNCHANGED <<ui, streaks, taken, history, losses, intact>>
  PROVE  TelemetryInv'
<1>1. TypeOK'
  BY DEF TelemetryInv, TypeOK, WorkerKeeps
<1>2. \A n \in Nat : Older(n) => Older(n)'
  BY DEF WorkerKeeps
<1>3. /\ \A i \in DOMAIN taken : taken[i].n \in Nat
      /\ \A i \in DOMAIN history : Parses(history[i]) => history[i].n \in Nat
  BY LineKinds DEF TelemetryInv, TypeOK, Line
<1>4. TakenInv'
  <2>1. \A i \in DOMAIN taken : Older(taken[i].n)'
    BY <1>2, <1>3 DEF TelemetryInv, TakenInv
  <2>2. QED
    BY <2>1 DEF TelemetryInv, TakenInv
<1>5. StreakInv'
  BY DEF TelemetryInv, StreakInv, AlertsMatchStreaks
<1>6. HistoryInv'
  <2>1. \A i \in DOMAIN history : Parses(history[i]) => Older(history[i].n)'
    BY <1>2, <1>3 DEF TelemetryInv, HistoryInv
  <2>2. HistoryInOrder' /\ HistoryKeepsNewest'
    BY DEF TelemetryInv, HistoryInv, HistoryInOrder, HistoryKeepsNewest
  <2>3. QED
    BY <2>1, <2>2 DEF TelemetryInv, HistoryInv
<1>7. QED
  BY <1>1, <1>4, <1>5, <1>6 DEF TelemetryInv, WorkerKeeps

(* The invariant holds at the start. *)
LEMMA InitInv == Init => TelemetryInv
<1> SUFFICES ASSUME Init PROVE TelemetryInv
  OBVIOUS
<1>1. /\ worker = "collect" /\ collected = NoSnapshot /\ shared = NoShared /\ seen = 0
      /\ cycles = <<>> /\ stored = 0 /\ ui = NoUi /\ streaks = NoStreaks /\ history = <<>>
      /\ taken = <<>> /\ losses = 0 /\ intact = 2
  BY DEF Init, WorkerInit
<1>2. WorkerTypeOK
  BY <1>1, WorkerConstants DEF WorkerTypeOK, NoShared
<1>3. MaxCycles + MaxUiErrors \in Nat /\ MaxLosses \in Nat
  BY WorkerConstants, TelemetryConstants
<1>4. TypeOK
  BY <1>1, <1>2, <1>3 DEF TypeOK, NoUi, NoStreaks
<1>5. WorkInv
  BY <1>1, WorkerConstants DEF WorkInv, NoShared
<1>6. TakenInv
  BY <1>1 DEF TakenInv
<1>7. StreakInv
  <2>1. \A id \in Ids : streaks[id] = Cardinality(Unbroken(taken, id, Len(taken), Len(Rules)))
    BY <1>1, NoRun DEF NoStreaks
  <2>2. ASSUME NEW k \in DOMAIN Rules
        PROVE  k \notin ui.alerts
               /\ ~(Cardinality(Unbroken(taken, Rules[k].id, Len(taken), k)) >= Needed(k))
    BY <1>1, NoRun DEF NoUi
  <2>3. QED
    BY <2>1, <2>2 DEF StreakInv, AlertsMatchStreaks
<1>8. HistoryInv
  <2>1. {i \in DOMAIN history : ~Parses(history[i])} = {}
    BY <1>1
  <2>2. HistoryInOrder
    BY <1>1, <2>1, FS_EmptySet DEF HistoryInOrder
  <2>3. HistoryKeepsNewest
    BY <1>1 DEF HistoryKeepsNewest
  <2>4. QED
    BY <1>1, <2>2, <2>3 DEF HistoryInv
<1>9. QED
  BY <1>4, <1>5, <1>6, <1>7, <1>8 DEF TelemetryInv

(* A snapshot is taken: nothing is fresh afterwards, it is younger than all *)
(* that were taken, and every streak is that of the snapshots taken.       *)
LEMMA TickInv ==
  ASSUME TelemetryInv, TakeTick, ui'.alerts = Firing(shared.latest.value)
  PROVE  /\ shared.latest \in Snapshot /\ shared.errors + 1 <= MaxCycles
         /\ WorkerTypeOK' /\ WorkInv' /\ TakenInv' /\ StreakInv'
         /\ \A n \in Nat : Older(n) => Older(n)' /\ n < shared.latest.n
         /\ Older(shared.latest.n)'
         /\ taken' = Append(taken, shared.latest) /\ taken' \in Seq(Snapshot)
         /\ streaks' \in [Ids -> Nat] /\ ui'.alerts \subseteq DOMAIN Rules
<1> DEFINE s == shared.latest
<1>1. /\ Fresh /\ seen' = shared.seq /\ UNCHANGED <<worker, collected, cycles, stored, shared>>
      /\ taken' = Append(taken, s) /\ streaks' = StreaksUpTo(s.value)[Len(Rules)]
  BY DEF TakeTick, PollTick, workerVars
<1>2. WorkerTypeOK /\ WorkInv /\ taken \in Seq(Snapshot) /\ streaks \in [Ids -> Nat]
  BY DEF TelemetryInv, TypeOK
<1>3. s \in Snapshot /\ shared.errors + 1 <= MaxCycles /\ s # NoSnapshot /\ s.n \in Nat
  BY <1>1, <1>2, SharedFacts
<1>4. WorkerTypeOK'
  BY <1>1, <1>2 DEF WorkerTypeOK
<1>5. WorkInv'
  BY <1>1, <1>2, SharedFacts DEF WorkInv
<1>6. ~Fresh'
  BY <1>1 DEF Fresh
<1>7. \A n \in Nat : Older(n) => Older(n)' /\ n < s.n
  BY <1>1, <1>6 DEF Older
<1>8. Older(s.n)'
  BY <1>1, <1>2, <1>3, <1>6 DEF Older, WorkInv
<1>9. taken' \in Seq(Snapshot)
  BY <1>1, <1>2, <1>3
<1> DEFINE m == Len(taken)
<1>10. /\ m \in Nat /\ Len(taken') = m + 1 /\ taken'[m + 1] = s
       /\ DOMAIN taken = 1 .. m /\ DOMAIN taken' = 1 .. m + 1
       /\ \A i \in 1 .. m : taken'[i] = taken[i] /\ taken[i] \in Snapshot /\ taken[i].n \in Nat
       /\ \A i \in 1 .. m + 1 : i \in 1 .. m \/ i = m + 1
  BY <1>1, <1>2, <1>3, LineKinds
<1> HIDE DEF m
<1>11. TakenInv'
  <2>1. \A i \in 1 .. m : Older(taken[i].n) /\ Older(taken[i].n)' /\ taken[i].n < s.n
    BY <1>7, <1>10 DEF TelemetryInv, TakenInv
  <2>2. \A i \in DOMAIN taken' : Older(taken[i].n)'
    BY <1>1, <1>8, <1>10, <2>1
  <2>3. \A i, j \in DOMAIN taken' : i < j => taken'[i].n < taken'[j].n
    <3>1. SUFFICES ASSUME NEW i \in DOMAIN taken', NEW j \in DOMAIN taken', i < j
                   PROVE  taken'[i].n < taken'[j].n
      OBVIOUS
    <3>2. i \in 1 .. m
      BY <1>10, <3>1
    <3>3. CASE j = m + 1
      BY <1>10, <2>1, <3>2, <3>3
    <3>4. CASE j \in 1 .. m
      BY <1>10, <3>1, <3>2, <3>4 DEF TelemetryInv, TakenInv
    <3>5. QED
      BY <1>10, <3>3, <3>4
  <2>4. QED
    BY <2>2, <2>3 DEF TakenInv
<1>12. StreakInv'
  <2>1. \A id \in Ids : streaks[id] = Cardinality(Unbroken(taken, id, Len(taken), Len(Rules)))
    BY DEF TelemetryInv, StreakInv
  <2>2. ASSUME NEW n \in 0 .. Len(Rules), NEW id \in Ids
        PROVE  StreaksUpTo(s.value)[n][id] = Cardinality(Unbroken(taken', id, m + 1, n))
    BY <1>1, <1>2, <1>3, <2>1, AfterCounts DEF m
  <2>3. \A id \in Ids : streaks'[id] = Cardinality(Unbroken(taken', id, m + 1, Len(Rules)))
    BY <1>1, <2>2, TelemetryConstants
  <2>4. ASSUME NEW k \in DOMAIN Rules
        PROVE  k \in ui'.alerts <=>
                 /\ Rules[k].known
                 /\ Cardinality(Unbroken(taken', Rules[k].id, m + 1, k)) >= Needed(k)
    <3>1. k \in 0 .. Len(Rules) /\ Rules[k].id \in Ids /\ Needed(k) \in Nat /\ Needed(k) >= 1
      BY TelemetryConstants DEF Ids, Needed
    <3>2. StreaksUpTo(s.value)[k][Rules[k].id]
            = Cardinality(Unbroken(taken', Rules[k].id, m + 1, k))
      BY <2>2, <3>1
    <3>3. k \in ui'.alerts <=>
            Matched(k, s.value) /\ StreaksUpTo(s.value)[k][Rules[k].id] >= Needed(k)
      BY DEF Firing
    <3>4. Rules[k].known /\ ~Matched(k, s.value) =>
            Cardinality(Unbroken(taken', Rules[k].id, m + 1, k)) = 0
      BY <1>10, RunMatches
    <3>5. CASE Matched(k, s.value)
      BY <3>2, <3>3, <3>5 DEF Matched
    <3>6. CASE ~Matched(k, s.value)
      BY <3>1, <3>3, <3>4, <3>6
    <3>7. QED
      BY <3>5, <3>6
  <2>5. Len(taken') = m + 1
    BY <1>10
  <2> HIDE DEF s
  <2>6. QED
    BY <2>3, <2>4, <2>5 DEF StreakInv, AlertsMatchStreaks
<1>13. streaks' \in [Ids -> Nat]
  BY <1>1, <1>2, AfterType, TelemetryConstants
<1>14. ui'.alerts \subseteq DOMAIN Rules
  BY DEF Firing
<1>15. QED
  BY <1>1, <1>3, <1>4, <1>5, <1>7, <1>8, <1>9, <1>11, <1>12, <1>13, <1>14

(* The lines of a file that extends the history are older than what comes   *)
(* next, and in order.                                                     *)
LEMMA ExtendsInv ==
  ASSUME TelemetryInv, NEW s \in Snapshot,
         Extends(history', history, s), Older(s.n)',
         \A n \in Nat : Older(n) => Older(n)' /\ n < s.n
  PROVE  /\ \A i \in DOMAIN history' : Parses(history[i])' => Older(history[i].n)'
         /\ Ordered(history')
<1>1. \A j \in DOMAIN history : Parses(history[j]) => history[j].n \in Nat /\ Older(history[j].n)
  BY LineKinds DEF TelemetryInv, TypeOK, HistoryInv, Line
<1>2. \A j \in DOMAIN history : Parses(history[j]) => history[j].n < s.n
  BY <1>1
<1>3. Ordered(history)
  BY DEF TelemetryInv, HistoryInv, HistoryInOrder, Ordered
<1>4. Ordered(history')
  BY <1>2, <1>3 DEF Extends
<1>5. ASSUME NEW l, Parses(l), l = s \/ \E j \in DOMAIN history : l = history[j]
      PROVE  Older(l.n)'
  BY <1>1, <1>5
<1>6. QED
  BY <1>4, <1>5 DEF Extends

(* A tick whose snapshot is appended to the history. *)
LEMMA DrainInv ==
  ASSUME TelemetryInv, Drain
  PROVE  TelemetryInv'
<1> DEFINE s == shared.latest
<1>1. /\ TakeTick /\ history' = Recorded(history, s)
      /\ ui' = [latest |-> s, alerts |-> Firing(s.value), errors |-> shared.errors,
                error |-> shared.error]
      /\ intact' = (IF intact = 2 THEN 2 ELSE intact + 1) /\ losses' = losses
  BY DEF Drain
<1>2. /\ s \in Snapshot /\ shared.errors + 1 <= MaxCycles
      /\ WorkerTypeOK' /\ WorkInv' /\ TakenInv' /\ StreakInv'
      /\ \A n \in Nat : Older(n) => Older(n)' /\ n < s.n
      /\ Older(s.n)' /\ s' = s
      /\ taken' = Append(taken, s) /\ taken' \in Seq(Snapshot)
      /\ streaks' \in [Ids -> Nat] /\ ui'.alerts \subseteq DOMAIN Rules
  BY <1>1, TickInv DEF TakeTick, PollTick
<1>3. /\ history \in Seq(Line) /\ taken \in Seq(Snapshot) /\ intact \in 0 .. 2 /\ losses \in 0 .. MaxLosses
      /\ WorkerTypeOK /\ WorkInv /\ MaxUiErrors \in Nat
  BY TelemetryConstants DEF TelemetryInv, TypeOK, Line
<1>4. /\ Extends(history', history, s) /\ Cardinality(Spoilt(history')) <= Cardinality(Spoilt(history))
      /\ MaxEntries > 0 => Len(history') <= MaxEntries
      /\ history' # <<>> => history'[Len(history')] # TORN
      /\ history = <<>> \/ history[Len(history)] # TORN =>
           history' # <<>> /\ history'[Len(history')] = s
  BY <1>1, <1>2, <1>3, RecordedLines
<1>5. history' \in Seq(Line)
  BY <1>4 DEF Extends
<1>6. TypeOK'
  <2>1. shared.errors \in 0 .. MaxCycles + MaxUiErrors /\ shared.error \in BOOLEAN
    BY <1>3, SharedFacts
  <2>2. ui' \in [latest : Snapshot \cup {NoSnapshot}, alerts : SUBSET DOMAIN Rules,
                 errors : 0 .. MaxCycles + MaxUiErrors, error : BOOLEAN]
    BY <1>1, <1>2, <2>1
  <2>3. intact' \in 0 .. 2
    BY <1>1, <1>3
  <2>4. QED
    BY <1>1, <1>2, <1>3, <1>5, <2>2, <2>3 DEF TypeOK, Line
<1>7. HistoryInOrder'
  <2>1. Ordered(history')
    BY <1>2, <1>4, ExtendsInv
  <2>2. Cardinality(Spoilt(history)) <= losses
    BY DEF TelemetryInv, HistoryInv, HistoryInOrder, Spoilt
  <2>3. Cardinality(Spoilt(history')) <= losses'
    BY <1>1, <1>3, <1>4, <1>5, <2>2, SpoiltFinite
  <2>4. QED
    BY <2>1, <2>3 DEF HistoryInOrder, Ordered, Spoilt
<1>8. HistoryKeepsNewest'
  <2>1. taken' # <<>> /\ taken'[Len(taken')] = s
    BY <1>2, <1>3
  <2>2. ASSUME intact' = 2 PROVE history' # <<>> /\ history'[Len(history')] = s
    <3>1. intact > 0
      BY <1>1, <1>3, <2>2
    <3>2. history = <<>> \/ history[Len(history)] # TORN
      BY <3>1 DEF TelemetryInv, HistoryInv
    <3>3. QED
      BY <1>4, <3>2
  <2>3. QED
    BY <1>4, <2>1, <2>2 DEF HistoryKeepsNewest, Last
<1>9. HistoryInv'
  <2>1. \A i \in DOMAIN history' : Parses(history[i])' => Older(history[i].n)'
    BY <1>2, <1>4, ExtendsInv
  <2>2. QED
    BY <1>4, <1>7, <1>8, <2>1 DEF HistoryInv
<1>10. QED
  BY <1>2, <1>6, <1>9 DEF TelemetryInv

(* A loss spoils one line at most. *)
LEMMA LossInv ==
  ASSUME TelemetryInv, Lose, NEW s \in Snapshot,
         history' \in {history} \cup HalfRecorded(history, s), Older(s.n)',
         \A n \in Nat : Older(n) => Older(n)' /\ n < s.n
  PROVE  history' \in Seq(Line) /\ HistoryInv' /\ losses' \in 0 .. MaxLosses /\ intact' = 0
<1>1. /\ history \in Seq(Line) /\ losses \in 0 .. MaxLosses /\ losses < MaxLosses
      /\ losses' = losses + 1 /\ intact' = 0
  BY DEF TelemetryInv, TypeOK, Line, Lose
<1>2. Extends(history', history, s) /\ Cardinality(Spoilt(history')) <= Cardinality(Spoilt(history)) + 1
  BY <1>1, HalfRecordedLines
<1>3. history' \in Seq(Line)
  BY <1>2 DEF Extends
<1>4. HistoryInOrder'
  <2>1. Ordered(history')
    BY <1>2, ExtendsInv
  <2>2. Cardinality(Spoilt(history)) <= losses
    BY DEF TelemetryInv, HistoryInv, HistoryInOrder, Spoilt
  <2>3. Cardinality(Spoilt(history')) <= losses'
    BY <1>1, <1>2, <1>3, <2>2, SpoiltFinite
  <2>4. QED
    BY <2>1, <2>3 DEF HistoryInOrder, Ordered, Spoilt
<1>5. HistoryKeepsNewest'
  BY <1>1 DEF HistoryKeepsNewest
<1>6. \A i \in DOMAIN history' : Parses(history[i])' => Older(history[i].n)'
  BY <1>2, ExtendsInv
<1>7. HistoryInv'
  BY <1>1, <1>4, <1>5, <1>6 DEF HistoryInv
<1>8. QED
  BY <1>1, <1>3, <1>7, TelemetryConstants

(* A tick whose append to the history fails. *)
LEMMA DrainFailsInv ==
  ASSUME TelemetryInv, Drain_HistoryFails
  PROVE  TelemetryInv'
<1> DEFINE s == shared.latest
<1>1. /\ TakeTick /\ Lose /\ history' \in {history} \cup HalfRecorded(history, s)
      /\ ui' = [latest |-> s, alerts |-> Firing(s.value), errors |-> shared.errors + 1,
                error |-> TRUE]
  BY DEF Drain_HistoryFails
<1>2. /\ s \in Snapshot /\ shared.errors + 1 <= MaxCycles
      /\ WorkerTypeOK' /\ WorkInv' /\ TakenInv' /\ StreakInv'
      /\ \A n \in Nat : Older(n) => Older(n)' /\ n < s.n
      /\ Older(s.n)' /\ s' = s
      /\ taken' \in Seq(Snapshot)
      /\ streaks' \in [Ids -> Nat] /\ ui'.alerts \subseteq DOMAIN Rules
  BY <1>1, TickInv DEF TakeTick, PollTick
<1>3. history' \in Seq(Line) /\ HistoryInv' /\ losses' \in 0 .. MaxLosses /\ intact' = 0
  BY <1>1, <1>2, LossInv
<1>4. TypeOK'
  <2>1. shared.errors + 1 \in 0 .. MaxCycles + MaxUiErrors
    BY <1>2, SharedFacts, TelemetryConstants DEF TelemetryInv, TypeOK
  <2>2. ui' \in [latest : Snapshot \cup {NoSnapshot}, alerts : SUBSET DOMAIN Rules,
                 errors : 0 .. MaxCycles + MaxUiErrors, error : BOOLEAN]
    BY <1>1, <1>2, <2>1
  <2>3. QED
    BY <1>2, <1>3, <2>2 DEF TypeOK, Line
<1>5. QED
  BY <1>2, <1>3, <1>4 DEF TelemetryInv

(* An error of the dashboard's own. *)
LEMMA UiErrorInv ==
  ASSUME TelemetryInv, UiError
  PROVE  TelemetryInv'
<1>1. /\ ui.errors < MaxUiErrors /\ ui' = [ui EXCEPT !.errors = ui.errors + 1, !.error = TRUE]
      /\ UNCHANGED <<worker, collected, cycles, stored, shared, seen, streaks, taken, history,
                     losses, intact>>
  BY DEF UiError, workerVars, lossVars
<1>2. ui.errors + 1 \in 0 .. MaxCycles + MaxUiErrors
  BY <1>1, WorkerConstants, TelemetryConstants DEF TelemetryInv, TypeOK
<1>3. TypeOK' /\ ui'.alerts = ui.alerts
  BY <1>1, <1>2 DEF TelemetryInv, TypeOK, WorkerTypeOK
<1>4. WorkInv'
  BY <1>1 DEF TelemetryInv, WorkInv
<1>5. \A n : Older(n)' <=> Older(n)
  BY <1>1 DEF Older, Fresh
<1>6. TakenInv'
  BY <1>1, <1>5 DEF TelemetryInv, TakenInv
<1>7. StreakInv'
  BY <1>1, <1>3 DEF TelemetryInv, StreakInv, AlertsMatchStreaks
<1>8. HistoryInv'
  BY <1>1, <1>5 DEF TelemetryInv, HistoryInv, HistoryInOrder, HistoryKeepsNewest
<1>9. QED
  BY <1>3, <1>4, <1>6, <1>7, <1>8 DEF TelemetryInv

(* The process dies: the dashboard and the worker start over. *)
LEMMA CrashInv ==
  ASSUME TelemetryInv, Crash
  PROVE  TelemetryInv'
<1>1. /\ Lose /\ history' \in {history} \cup IF Fresh THEN HalfRecorded(history, shared.latest) ELSE {}
      /\ worker' = "collect" /\ collected' = NoSnapshot /\ shared' = NoShared
      /\ seen' = 0 /\ ui' = NoUi /\ streaks' = NoStreaks /\ taken' = <<>>
      /\ UNCHANGED <<cycles, stored>>
  BY DEF Crash
<1>2. WorkerTypeOK /\ WorkInv
  BY DEF TelemetryInv, TypeOK
<1>3. WorkerTypeOK'
  BY <1>1, <1>2, WorkerConstants DEF WorkerTypeOK, NoShared
<1>4. WorkInv'
  BY <1>1, <1>2, SharedFacts DEF WorkInv, NoShared
<1>5. ~Fresh'
  BY <1>1 DEF Fresh, NoShared
<1>6. \A n \in Nat : Older(n) => Older(n)'
  BY <1>1, <1>5 DEF Older
<1>7. TakenInv'
  BY <1>1 DEF TakenInv
<1>8. StreakInv'
  <2>1. Len(taken') = 0 /\ taken' = <<>> /\ ui'.alerts = {}
    BY <1>1 DEF NoUi
  <2>2. \A id \in Ids : streaks'[id] = Cardinality(Unbroken(taken', id, Len(taken'), Len(Rules)))
    BY <1>1, <2>1, NoRun DEF NoStreaks
  <2>3. \A k \in DOMAIN Rules :
          ~(Cardinality(Unbroken(taken', Rules[k].id, Len(taken'), k)) >= Needed(k))
    BY <2>1, NoRun
  <2>4. QED
    BY <2>1, <2>2, <2>3 DEF StreakInv, AlertsMatchStreaks
<1>9. history' \in Seq(Line) /\ HistoryInv' /\ losses' \in 0 .. MaxLosses /\ intact' = 0
  <2>1. CASE Fresh
    <3>1. shared.latest \in Snapshot /\ shared.latest.n \in Nat
      BY <1>2, <2>1, SharedFacts
    <3>2. \A n \in Nat : Older(n) => Older(n)' /\ n < shared.latest.n
      BY <1>6, <2>1 DEF Older
    <3>3. shared.latest # NoSnapshot /\ shared.latest.n <= stored
      BY <1>2, <3>1, SharedFacts DEF WorkInv
    <3>4. shared.latest.n <= stored' /\ worker' # "publish" /\ ~Fresh'
      BY <1>1, <1>5, <3>3
    <3> DEFINE s == shared.latest
    <3>5. history' \in {history} \cup HalfRecorded(history, s)
      BY <1>1, <2>1
    <3>6. \A x : x <= stored' => Older(x)'
      BY <3>4 DEF Older
    <3>7. QED
      BY <1>1, <3>1, <3>2, <3>4, <3>5, <3>6, LossInv
  <2>2. CASE ~Fresh
    <3>1. history' = history
      BY <1>1, <2>2
    <3>2. /\ history \in Seq(Line) /\ losses \in 0 .. MaxLosses /\ losses < MaxLosses
          /\ losses' = losses + 1 /\ intact' = 0 /\ MaxLosses \in Nat
      BY <1>1, TelemetryConstants DEF TelemetryInv, TypeOK, Line, Lose
    <3>3. \A j \in DOMAIN history : Parses(history[j]) => history[j].n \in Nat /\ Older(history[j].n)
      BY <3>2, LineKinds DEF TelemetryInv, HistoryInv, Line
    <3>4. \A i \in DOMAIN history' : Parses(history[i])' => Older(history[i].n)'
      BY <1>6, <3>1, <3>3
    <3>5. Cardinality(Spoilt(history)) <= losses /\ Cardinality(Spoilt(history)) \in Nat
      BY <3>2, SpoiltFinite DEF TelemetryInv, HistoryInv, HistoryInOrder, Spoilt
    <3>6. Cardinality(Spoilt(history')) <= losses'
      BY <3>1, <3>2, <3>5
    <3>7. HistoryInOrder'
      BY <3>1, <3>6 DEF TelemetryInv, HistoryInv, HistoryInOrder, Spoilt
    <3>8. HistoryKeepsNewest'
      BY <3>2 DEF HistoryKeepsNewest
    <3>9. losses' \in 0 .. MaxLosses
      BY <3>2
    <3>10. QED
      BY <3>1, <3>2, <3>4, <3>7, <3>8, <3>9 DEF HistoryInv
  <2>3. QED
    BY <2>1, <2>2
<1>10. TypeOK'
  <2>1. MaxCycles + MaxUiErrors \in Nat
    BY WorkerConstants, TelemetryConstants
  <2>2. QED
    BY <1>1, <1>3, <1>9, <2>1 DEF TypeOK, NoUi, NoStreaks, Line
<1>11. QED
  BY <1>4, <1>7, <1>8, <1>9, <1>10 DEF TelemetryInv

(* Every step keeps the invariant. *)
LEMMA NextInv == TelemetryInv /\ [Next]_vars => TelemetryInv'
<1> SUFFICES ASSUME TelemetryInv, [Next]_vars PROVE TelemetryInv'
  OBVIOUS
<1>1. CASE Worker /\ UNCHANGED <<uiVars, history, lossVars>>
  <2>1. UNCHANGED <<ui, streaks, taken, history, losses, intact>>
    BY <1>1 DEF uiVars, lossVars
  <2>2. WorkerKeeps
    BY <1>1, WorkerStepKeeps DEF TelemetryInv, TypeOK
  <2>3. QED
    BY <2>1, <2>2, QuietInv
<1>2. CASE Drain \/ Drain_HistoryFails \/ UiError \/ Crash
  BY <1>2, DrainInv, DrainFailsInv, UiErrorInv, CrashInv
<1>3. CASE UNCHANGED vars
  <2>1. UNCHANGED <<ui, streaks, taken, history, losses, intact>>
        /\ UNCHANGED <<worker, collected, cycles, stored, shared, seen>>
    BY <1>3 DEF vars, workerVars, uiVars, lossVars
  <2>2. WorkerKeeps
    BY <2>1 DEF WorkerKeeps, TelemetryInv, TypeOK, WorkerTypeOK, WorkInv, Older, Fresh
  <2>3. QED
    BY <2>1, <2>2, QuietInv
<1>4. QED
  BY <1>1, <1>2, <1>3 DEF Next

-----------------------------------------------------------------------------
(* The properties *)

(* What every step of the worker and the dashboard, every failed append and *)
(* every crash keeps (run_worker, drain_telemetry, append_snapshot).       *)
THEOREM TelemetryInvariantHolds == Spec => []TelemetryInv
  BY InitInv, NextInv, PTL DEF Spec

(* The alerts on the screen are exactly those of the rules whose last       *)
(* evaluations, shared by the rules of one id, matched as often as the rule *)
(* asks for, counted over the snapshots the dashboard took                 *)
(* (evaluate_snapshot_alerts).                                             *)
THEOREM AlertsAreOfStreaks == Spec => []AlertsMatchStreaks
<1>1. TelemetryInv => AlertsMatchStreaks
  BY DEF TelemetryInv, StreakInv
<1>2. QED
  BY TelemetryInvariantHolds, <1>1, PTL

(* The dashboard takes no snapshot twice and none out of order, and what    *)
(* it shows has been handed to the store before (poll_tick).               *)
THEOREM SnapshotsTakenInOrder == Spec => []TakenInOrder
<1>1. TelemetryInv => TakenInOrder
  BY DEF TelemetryInv, TakenInv, Older, TakenInOrder
<1>2. QED
  BY TelemetryInvariantHolds, <1>1, PTL

(* The history file is in the order of collection, spoilt by losses only,   *)
(* within its limit and never without the newest snapshot, whatever the    *)
(* clock does and wherever the process dies (append_snapshot, compact).    *)
THEOREM HistoryStaysSound == Spec => []HistorySound
<1>1. TelemetryInv => HistorySound
  BY DEF TelemetryInv, HistoryInv, HistorySound
<1>2. QED
  BY TelemetryInvariantHolds, <1>1, PTL

=============================================================================
