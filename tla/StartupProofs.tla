--------------------------- MODULE StartupProofs ---------------------------
(***************************************************************************)
(* Proofs about Startup: whatever the files and the environment hold, the  *)
(* program does nothing that its launch does not ask for; the dashboard    *)
(* works with the helper of its own start only; and one that ended in      *)
(* order leaves nothing.  First the files, then the steps one by one.      *)
(***************************************************************************)
EXTENDS StartupInvariant, WellFoundedInduction, TLAPS

(* Induction over the naturals, for sets. *)
LEMMA SetInduction ==
  ASSUME NEW S, 0 \in S, \A n \in Nat : n \in S => n + 1 \in S
  PROVE  Nat \subseteq S
<1> SUFFICES ASSUME NEW k \in Nat, k \notin S PROVE FALSE
  OBVIOUS
<1> DEFINE T == {n \in Nat : n \notin S}
<1>1. PICK m \in T : \A i \in T : <<i, m>> \notin OpToRel(<, Nat)
  <2>1. T \subseteq Nat /\ T # {}
    OBVIOUS
  <2> HIDE DEF T
  <2>2. QED
    BY <2>1, WFMin, NatLessThanWellFounded, Zenon
<1>2. \A i \in T : ~(i < m)
  BY <1>1 DEF OpToRel
<1>3. m # 0 /\ m - 1 \in Nat
  OBVIOUS
<1>4. m - 1 \notin T
  BY <1>2, <1>3
<1>5. QED
  BY <1>3, <1>4

-----------------------------------------------------------------------------
(* A file of settings *)

(* The environment after a line, from the one before it. *)
After(line, overwrite, e) == IF ~overwrite /\ line.key \in DOMAIN e THEN e ELSE Put(line, e)

(* f is the function after of Apply(lines, overwrite, e). *)
IsApplied(f, lines, overwrite, e) ==
  f = [i \in 0 .. Len(lines) |-> IF i = 0 THEN e ELSE After(lines[i], overwrite, f[i - 1])]

(* Apply is well defined: there is such a function. *)
LEMMA AppliedExists ==
  ASSUME NEW lines, Len(lines) \in Nat, NEW overwrite, NEW e
  PROVE  \E f : IsApplied(f, lines, overwrite, e) /\ Apply(lines, overwrite, e) = f[Len(lines)]
<1> DEFINE Def(g, n) == [i \in 0 .. n |-> IF i = 0 THEN e ELSE After(lines[i], overwrite, g[i - 1])]
           S == {n \in Nat : \E g : g = Def(g, n)}
<1>1. 0 \in S
  <2> DEFINE h == [i \in 0 .. 0 |-> e]
  <2>1. h = Def(h, 0)
    OBVIOUS
  <2>2. QED
    BY <2>1
<1>2. ASSUME NEW n \in Nat, n \in S PROVE n + 1 \in S
  <2>1. PICK g : g = Def(g, n)
    BY <1>2
  <2> DEFINE h == [i \in 0 .. n + 1 |->
                     IF i = n + 1 THEN After(lines[n + 1], overwrite, g[n]) ELSE g[i]]
  <2>2. ASSUME NEW i \in 0 .. n + 1 PROVE h[i] = Def(h, n + 1)[i]
    <3>1. CASE i = n + 1
      BY <3>1
    <3>2. CASE i # n + 1
      <4>1. i \in 0 .. n /\ h[i] = g[i] /\ (i # 0 => h[i - 1] = g[i - 1])
        BY <3>2
      <4>2. g[i] = Def(g, n)[i]
        BY <2>1, Zenon
      <4>3. Def(g, n)[i] = IF i = 0 THEN e ELSE After(lines[i], overwrite, g[i - 1])
        BY <4>1
      <4>4. Def(h, n + 1)[i] = IF i = 0 THEN e ELSE After(lines[i], overwrite, h[i - 1])
        OBVIOUS
      <4> HIDE DEF h, Def
      <4>5. QED
        BY <4>1, <4>2, <4>3, <4>4
    <3>3. QED
      BY <3>1, <3>2
  <2>3. h = Def(h, n + 1)
    BY <2>2
  <2> HIDE DEF h, Def
  <2>4. \E x : x = Def(x, n + 1)
    BY <2>3
  <2>5. QED
    BY <2>4
<1> HIDE DEF S
<1>3. Len(lines) \in S
  BY <1>1, <1>2, SetInduction
<1>4. \E g : g = Def(g, Len(lines))
  BY <1>3 DEF S
<1> DEFINE f == CHOOSE g : g = Def(g, Len(lines))
<1>5. f = Def(f, Len(lines))
  BY <1>4
<1>6. Apply(lines, overwrite, e) = f[Len(lines)]
  BY DEF Apply, After
<1> HIDE DEF f
<1>7. IsApplied(f, lines, overwrite, e)
  BY <1>5 DEF IsApplied
<1>8. QED
  BY <1>6, <1>7

(* Its values, one line after the other. *)
LEMMA AppliedStep ==
  ASSUME NEW lines, Len(lines) \in Nat, NEW overwrite, NEW e, NEW f,
         IsApplied(f, lines, overwrite, e)
  PROVE  /\ f[0] = e
         /\ \A k \in Nat : k + 1 <= Len(lines) =>
              f[k + 1] = After(lines[k + 1], overwrite, f[k])
<1> DEFINE d == [i \in 0 .. Len(lines) |-> IF i = 0 THEN e ELSE After(lines[i], overwrite, f[i - 1])]
<1>1. f = d
  BY DEF IsApplied
<1>2. d[0] = e
  OBVIOUS
<1>3. ASSUME NEW k \in Nat, k + 1 <= Len(lines)
      PROVE  d[k + 1] = After(lines[k + 1], overwrite, f[k])
  <2>1. k + 1 \in 0 .. Len(lines) /\ k + 1 # 0 /\ (k + 1) - 1 = k
    BY <1>3
  <2>2. QED
    BY <2>1
<1> HIDE DEF d
<1>4. QED
  BY <1>1, <1>2, <1>3

(* Apply, one line after the other. *)
LEMMA ApplySteps ==
  ASSUME NEW lines, Len(lines) \in Nat, NEW overwrite, NEW e
  PROVE  \E f : /\ f[0] = e /\ Apply(lines, overwrite, e) = f[Len(lines)]
                /\ \A k \in Nat : k + 1 <= Len(lines) =>
                     f[k + 1] = After(lines[k + 1], overwrite, f[k])
<1>1. PICK f : IsApplied(f, lines, overwrite, e) /\ Apply(lines, overwrite, e) = f[Len(lines)]
  BY AppliedExists
<1>2. f[0] = e /\ \A k \in Nat : k + 1 <= Len(lines) =>
        f[k + 1] = After(lines[k + 1], overwrite, f[k])
  BY <1>1, AppliedStep
<1>3. QED
  BY <1>1, <1>2

(* One setting more. *)
LEMMA PutIs ==
  ASSUME NEW line, NEW e
  PROVE  /\ DOMAIN Put(line, e) = DOMAIN e \cup {line.key}
         /\ \A s, v : Is(Put(line, e), s, v) <=> IF s = line.key THEN line.value = v ELSE Is(e, s, v)
         /\ \A s : s \in DOMAIN Put(line, e) =>
              Put(line, e)[s] = IF s = line.key THEN line.value ELSE e[s]
<1>1. Put(line, e) = [x \in DOMAIN e \cup {line.key} |-> IF x = line.key THEN line.value ELSE e[x]]
  BY DEF Put
<1>2. DOMAIN Put(line, e) = DOMAIN e \cup {line.key}
  BY <1>1
<1>3. \A s : s \in DOMAIN Put(line, e) =>
        Put(line, e)[s] = IF s = line.key THEN line.value ELSE e[s]
  BY <1>1
<1>4. QED
  BY <1>2, <1>3 DEF Is

(* The settings of a file are added to an environment. *)
LEMMA ApplyEnvironment ==
  ASSUME NEW lines, IsFile(lines), NEW overwrite, NEW e, IsEnvironment(e)
  PROVE  IsEnvironment(Apply(lines, overwrite, e))
<1>1. PICK f : IsApplied(f, lines, overwrite, e) /\ Apply(lines, overwrite, e) = f[Len(lines)]
  BY AppliedExists DEF IsFile
<1> DEFINE S == {k \in Nat : k <= Len(lines) => IsEnvironment(f[k])}
<1>2. Len(lines) \in Nat /\ f[0] = e
      /\ \A k \in Nat : k + 1 <= Len(lines) => f[k + 1] = After(lines[k + 1], overwrite, f[k])
  BY <1>1, AppliedStep DEF IsFile
<1>3. 0 \in S
  BY <1>2
<1>4. ASSUME NEW k \in Nat, k \in S PROVE k + 1 \in S
  <2>1. SUFFICES ASSUME k + 1 <= Len(lines) PROVE IsEnvironment(f[k + 1])
    OBVIOUS
  <2>2. IsEnvironment(f[k]) /\ f[k + 1] = After(lines[k + 1], overwrite, f[k])
    BY <1>2, <1>4, <2>1
  <2>3. lines[k + 1].key \in Settings /\ lines[k + 1].value \in Values[lines[k + 1].key]
    BY <1>2, <2>1 DEF IsFile
  <2>4. IsEnvironment(Put(lines[k + 1], f[k]))
    <3>1. \A s \in DOMAIN f[k] : s \in Settings /\ f[k][s] \in Values[s]
      BY <2>2 DEF IsEnvironment
    <3>2. \A s \in DOMAIN Put(lines[k + 1], f[k]) :
            s \in Settings /\ Put(lines[k + 1], f[k])[s] \in Values[s]
      BY <2>3, <3>1 DEF Put
    <3>3. QED
      BY <3>2 DEF IsEnvironment
  <2>5. QED
    BY <2>2, <2>4 DEF After
<1> HIDE DEF S
<1>5. Len(lines) \in S
  BY <1>2, <1>3, <1>4, SetInduction
<1>6. QED
  BY <1>1, <1>2, <1>5 DEF S

(* A file that overwrites: its last line for a setting, or the environment. *)
LEMMA OverlayIs ==
  ASSUME NEW lines, Len(lines) \in Nat, DOMAIN lines = 1 .. Len(lines), NEW e, NEW s, NEW v
  PROVE  Is(Apply(lines, TRUE, e), s, v) <=>
           IF IndicesOf(lines, s) # {}
           THEN \E i \in IndicesOf(lines, s) :
                  lines[i].value = v /\ \A j \in IndicesOf(lines, s) : j <= i
           ELSE Is(e, s, v)
<1> DEFINE b == TRUE
<1> HIDE DEF b
<1>1. PICK f : /\ f[0] = e /\ Apply(lines, b, e) = f[Len(lines)]
               /\ \A k \in Nat : k + 1 <= Len(lines) => f[k + 1] = After(lines[k + 1], b, f[k])
  BY ApplySteps
<1> DEFINE Of(k) == {i \in 1 .. k : lines[i].key = s}
           Says1(k) == IF Of(k) # {} THEN \E i \in Of(k) : lines[i].value = v /\ \A j \in Of(k) : j <= i
                       ELSE Is(e, s, v)
           S == {k \in Nat : k <= Len(lines) => (Is(f[k], s, v) <=> Says1(k))}
<1>2. f[0] = e /\ \A k \in Nat : k + 1 <= Len(lines) => f[k + 1] = Put(lines[k + 1], f[k])
  <2>1. \A line, x : After(line, b, x) = Put(line, x)
    BY DEF After, b
  <2>2. QED
    BY <1>1, <2>1
<1>3. 0 \in S
  BY <1>2
<1>4. ASSUME NEW k \in Nat, k \in S PROVE k + 1 \in S
  <2>1. SUFFICES ASSUME k + 1 <= Len(lines) PROVE Is(f[k + 1], s, v) <=> Says1(k + 1)
    OBVIOUS
  <2>2. Is(f[k], s, v) <=> Says1(k)
    BY <1>4, <2>1
  <2>3. Is(f[k + 1], s, v) <=> IF s = lines[k + 1].key THEN lines[k + 1].value = v ELSE Is(f[k], s, v)
    <3>1. f[k + 1] = Put(lines[k + 1], f[k])
      BY <1>2, <2>1
    <3>2. Is(Put(lines[k + 1], f[k]), s, v) <=>
            IF s = lines[k + 1].key THEN lines[k + 1].value = v ELSE Is(f[k], s, v)
      BY PutIs
    <3>3. QED
      BY <3>1, <3>2
  <2>4. CASE s = lines[k + 1].key
    <3>1. k + 1 \in Of(k + 1) /\ \A j \in Of(k + 1) : j <= k + 1
      BY <2>4
    <3>2. \A i \in Of(k + 1) : (\A j \in Of(k + 1) : j <= i) => i = k + 1
      BY <3>1
    <3>3. Says1(k + 1) <=> lines[k + 1].value = v
      <4> HIDE DEF Of
      <4>1. QED
        BY <3>1, <3>2
    <3>4. QED
      BY <2>3, <2>4, <3>3
  <2>5. CASE s # lines[k + 1].key
    <3>1. Of(k + 1) = Of(k)
      BY <2>5
    <3>2. QED
      BY <2>2, <2>3, <2>5, <3>1
  <2>6. QED
    BY <2>4, <2>5
<1> HIDE DEF S
<1>5. Len(lines) \in S
  BY <1>3, <1>4, SetInduction
<1>6. Is(f[Len(lines)], s, v) <=> Says1(Len(lines))
  BY <1>5 DEF S
<1>7. Of(Len(lines)) = IndicesOf(lines, s)
  BY DEF IndicesOf
<1>8. QED
  BY <1>1, <1>6, <1>7 DEF b

(* A file that does not: the environment, or its first line for a setting. *)
LEMMA ProfileIs ==
  ASSUME NEW lines, Len(lines) \in Nat, DOMAIN lines = 1 .. Len(lines), NEW e, NEW s, NEW v
  PROVE  Is(Apply(lines, FALSE, e), s, v) <=>
           IF s \in DOMAIN e THEN e[s] = v
           ELSE \E i \in IndicesOf(lines, s) :
                  lines[i].value = v /\ \A j \in IndicesOf(lines, s) : i <= j
<1> DEFINE b == FALSE
<1> HIDE DEF b
<1>1. PICK f : /\ f[0] = e /\ Apply(lines, b, e) = f[Len(lines)]
               /\ \A k \in Nat : k + 1 <= Len(lines) => f[k + 1] = After(lines[k + 1], b, f[k])
  BY ApplySteps
<1> DEFINE Of(k) == {i \in 1 .. k : lines[i].key = s}
           Says1(k) == IF s \in DOMAIN e THEN e[s] = v
                       ELSE \E i \in Of(k) : lines[i].value = v /\ \A j \in Of(k) : i <= j
           Has(k) == s \in DOMAIN e \/ Of(k) # {}
           S == {k \in Nat : k <= Len(lines) =>
                   (Is(f[k], s, v) <=> Says1(k)) /\ (s \in DOMAIN f[k] <=> Has(k))}
<1>2. f[0] = e /\ \A k \in Nat : k + 1 <= Len(lines) =>
        f[k + 1] = IF lines[k + 1].key \in DOMAIN f[k] THEN f[k] ELSE Put(lines[k + 1], f[k])
  <2>1. \A line, x : After(line, b, x) = IF line.key \in DOMAIN x THEN x ELSE Put(line, x)
    BY DEF After, b
  <2>2. QED
    BY <1>1, <2>1
<1>3. 0 \in S
  BY <1>2 DEF Is
<1>4. ASSUME NEW k \in Nat, k \in S PROVE k + 1 \in S
  <2>1. SUFFICES ASSUME k + 1 <= Len(lines)
                 PROVE  (Is(f[k + 1], s, v) <=> Says1(k + 1)) /\ (s \in DOMAIN f[k + 1] <=> Has(k + 1))
    OBVIOUS
  <2>2. (Is(f[k], s, v) <=> Says1(k)) /\ (s \in DOMAIN f[k] <=> Has(k))
    BY <1>4, <2>1
  <2>3. f[k + 1] = IF lines[k + 1].key \in DOMAIN f[k] THEN f[k] ELSE Put(lines[k + 1], f[k])
    BY <1>2, <2>1
  <2>4. DOMAIN Put(lines[k + 1], f[k]) = DOMAIN f[k] \cup {lines[k + 1].key}
        /\ (Is(Put(lines[k + 1], f[k]), s, v) <=>
              IF s = lines[k + 1].key THEN lines[k + 1].value = v ELSE Is(f[k], s, v))
    BY PutIs
  <2>5. CASE s # lines[k + 1].key
    <3>1. Of(k + 1) = Of(k)
      BY <2>5
    <3> HIDE DEF Of
    <3>2. QED
      BY <2>2, <2>3, <2>4, <2>5, <3>1
  <2>6. CASE s = lines[k + 1].key
    <3>1. Of(k + 1) = Of(k) \cup {k + 1} /\ \A j \in Of(k) : j <= k /\ j \in Nat
      BY <2>6
    <3> HIDE DEF Of
    <3>2. CASE s \in DOMAIN f[k]
      <4>1. f[k + 1] = f[k] /\ Has(k) /\ Has(k + 1)
        BY <2>2, <2>3, <2>6, <3>1, <3>2
      <4>2. Says1(k + 1) <=> Says1(k)
        <5>1. CASE s \in DOMAIN e
          BY <5>1
        <5>2. CASE s \notin DOMAIN e
          <6>1. Of(k) # {}
            BY <4>1, <5>2
          <6>2. \A i \in Of(k) : (\A j \in Of(k + 1) : i <= j) <=> (\A j \in Of(k) : i <= j)
            BY <3>1
          <6>3. ~\A j \in Of(k + 1) : k + 1 <= j
            BY <3>1, <6>1
          <6>4. QED
            BY <3>1, <5>2, <6>2, <6>3
        <5>3. QED
          BY <5>1, <5>2
      <4>3. QED
        BY <2>2, <4>1, <4>2
    <3>3. CASE s \notin DOMAIN f[k]
      <4>1. s \notin DOMAIN e /\ Of(k + 1) = {k + 1}
        BY <2>2, <3>1, <3>3
      <4>2. Says1(k + 1) <=> lines[k + 1].value = v
        BY <4>1
      <4>3. f[k + 1] = Put(lines[k + 1], f[k]) /\ s \in DOMAIN f[k + 1] /\ Has(k + 1)
        BY <2>3, <2>4, <2>6, <3>3, <4>1
      <4>4. QED
        BY <2>4, <2>6, <4>2, <4>3
    <3>4. QED
      BY <3>2, <3>3
  <2>7. QED
    BY <2>5, <2>6
<1> HIDE DEF S
<1>5. Len(lines) \in S
  BY <1>3, <1>4, SetInduction
<1>6. Is(f[Len(lines)], s, v) <=> Says1(Len(lines))
  BY <1>5 DEF S
<1>7. Of(Len(lines)) = IndicesOf(lines, s)
  BY DEF IndicesOf
<1>8. QED
  BY <1>1, <1>6, <1>7 DEF b

(* The environment is what the documents say, and nothing else. *)
LEMMA EnvironmentSays ==
  ASSUME NEW l \in Launches, l.profile # NONE
  PROVE  /\ IsEnvironment(WithProfile(l))
         /\ \A s, v : Is(WithProfile(l), s, v) <=> Says(l, s, v)
<1>1. IsEnvironment(l.environ) /\ IsFile(l.overlay) /\ IsFile(l.profile)
  BY StartupConstants
<1> DEFINE e == Apply(l.profile, FALSE, l.environ)
<1>2. IsEnvironment(e)
  BY <1>1, ApplyEnvironment
<1>3. \A s, v : Is(e, s, v) <=>
        IF s \in DOMAIN l.environ THEN l.environ[s] = v
        ELSE \E i \in IndicesOf(l.profile, s) :
               l.profile[i].value = v /\ \A j \in IndicesOf(l.profile, s) : i <= j
  BY <1>1, ProfileIs DEF IsFile
<1>4. WithProfile(l) = Apply(l.overlay, TRUE, e)
  BY DEF WithProfile
<1> HIDE DEF e
<1>5. IsEnvironment(WithProfile(l))
  BY <1>1, <1>2, <1>4, ApplyEnvironment
<1>6. \A s, v : Is(WithProfile(l), s, v) <=>
        IF IndicesOf(l.overlay, s) # {}
        THEN \E i \in IndicesOf(l.overlay, s) :
               l.overlay[i].value = v /\ \A j \in IndicesOf(l.overlay, s) : j <= i
        ELSE Is(e, s, v)
  <2>1. Len(l.overlay) \in Nat /\ DOMAIN l.overlay = 1 .. Len(l.overlay)
    BY <1>1 DEF IsFile
  <2>2. ASSUME NEW s, NEW v
        PROVE  Is(Apply(l.overlay, TRUE, e), s, v) <=>
                 IF IndicesOf(l.overlay, s) # {}
                 THEN \E i \in IndicesOf(l.overlay, s) :
                        l.overlay[i].value = v /\ \A j \in IndicesOf(l.overlay, s) : j <= i
                 ELSE Is(e, s, v)
    BY <2>1, OverlayIs, Zenon
  <2>3. QED
    BY <1>4, <2>2, Zenon
<1>7. \A s, v : Is(WithProfile(l), s, v) <=> Says(l, s, v)
  BY <1>3, <1>6 DEF Says
<1>8. QED
  BY <1>5, <1>7

-----------------------------------------------------------------------------
(* What a step may do to the helpers and the socket file *)

Helper == [phase : HelperPhases, caps : SUBSET Capabilities, uid : Values.allowedUid, embedded : BOOLEAN]

Endings == {"failed", "orderly", "killed"}

(* A helper that is dead stays so; only a start that runs makes a helper;   *)
(* and only such a start, or a helper that lives, makes a socket file.     *)
HelpersStep ==
  /\ DOMAIN helpers \subseteq DOMAIN helpers' /\ DOMAIN helpers' \subseteq 1 .. start
  /\ \A n \in DOMAIN helpers' : helpers'[n] \in Helper /\ (helpers'[n].phase = "spawned" => n = start)
  /\ \A n \in DOMAIN helpers' :
       \/ n \in DOMAIN helpers /\ (helpers[n].phase = "dead" => helpers'[n].phase = "dead")
       \/ n = start /\ phase # "off"
  /\ socket' \in DOMAIN helpers' \cup {NONE}
  /\ \/ socket' \in {socket, NONE}
     \/ socket' = start /\ phase # "off"
     \/ socket' \in DOMAIN helpers /\ helpers[socket'].phase # "dead"

(* What a start that ended in order has left goes on being nothing. *)
LEMMA LeftStays ==
  ASSUME LaunchInv, HelpersStep, NEW n \in DOMAIN ended, ended[n] = "orderly"
  PROVE  socket' # n /\ (n \in DOMAIN helpers' => helpers'[n].phase = "dead")
<1>1. socket # n /\ (n \in DOMAIN helpers => helpers[n].phase = "dead")
  BY DEF LaunchInv, StartupInv, NothingLeft
<1>2. n \in Nat /\ n # NONE
  BY StartupConstants DEF LaunchInv, StartupInv, TypeOK
<1>3. phase # "off" => n # start
  BY StartupConstants DEF LaunchInv, StartupInv, TypeOK
<1>4. QED
  BY <1>1, <1>2, <1>3 DEF HelpersStep

(* The end of a start. *)
LEMMA EndsInv ==
  ASSUME LaunchInv, phase # "off", NEW how \in Endings, Ends(how), HelpersStep,
         deaths' \in 0 .. MaxDeaths,
         how = "orderly" => socket' = NONE /\ start \in DOMAIN helpers' /\ helpers'[start].phase = "dead"
  PROVE  LaunchInv'
<1>1. /\ phase' = "off" /\ launch' = NONE /\ env' = <<>> /\ config' = NONE
      /\ ended' = Append(ended, how) /\ start' = start
  BY DEF Ends
<1>2. ended \in Seq(Endings) /\ Len(ended) = start - 1 /\ start \in 0 .. MaxStarts /\ MaxStarts \in Nat
  BY StartupConstants DEF LaunchInv, StartupInv, TypeOK, Endings
<1>3. start # 0
  BY <1>2
<1>4. /\ ended' \in Seq(Endings) /\ Len(ended') = start /\ ended'[start] = how
      /\ DOMAIN ended' = 1 .. start /\ DOMAIN ended = 1 .. start - 1
      /\ \A n \in DOMAIN ended' : n # start => n \in DOMAIN ended /\ ended'[n] = ended[n]
  BY <1>1, <1>2, <1>3
<1>5. TypeOK'
  <2>1. IsEnvironment(<<>>)
    BY DEF IsEnvironment
  <2>2. \A n \in DOMAIN helpers' : helpers'[n] \in Helper
    BY DEF HelpersStep
  <2>3. /\ launch' \in Launches \cup {NONE} /\ phase' \in Phases /\ config' = NONE
        /\ start' \in 0 .. MaxStarts /\ DOMAIN helpers' \subseteq 1 .. start'
        /\ socket' \in DOMAIN helpers' \cup {NONE}
    BY <1>1, <1>2 DEF HelpersStep, Phases
  <2>4. ended' \in Seq({"failed", "orderly", "killed"})
    BY <1>4 DEF Endings
  <2>5. Len(ended') = IF phase' = "off" THEN start' ELSE start' - 1
    BY <1>1, <1>4
  <2>6. QED
    BY <1>1, <2>1, <2>2, <2>3, <2>4, <2>5 DEF TypeOK, Helper
<1>6. NothingLeft'
  <2>1. SUFFICES ASSUME NEW n \in DOMAIN ended', ended'[n] = "orderly"
                 PROVE  socket' # n /\ (n \in DOMAIN helpers' => helpers'[n].phase = "dead")
    BY DEF NothingLeft
  <2>2. CASE n = start
    BY <1>2, <1>4, <2>1, <2>2, StartupConstants
  <2>3. CASE n # start
    <3>1. n \in DOMAIN ended /\ ended[n] = "orderly"
      BY <1>4, <2>1, <2>3
    <3>2. QED
      BY <3>1, LeftStays
  <2>4. QED
    BY <2>2, <2>3
<1>7. ConfigInv' /\ SocketInv' /\ OwnHelper'
  BY <1>1 DEF ConfigInv, SocketInv, OwnHelper, Starting
<1>8. SpawnedInv'
  BY <1>1 DEF SpawnedInv, HelpersStep
<1>9. QED
  BY <1>5, <1>6, <1>7, <1>8 DEF LaunchInv, StartupInv

(* A step of a start that goes on, or of a helper. *)
LEMMA GoesOnInv ==
  ASSUME LaunchInv, UNCHANGED <<launch, env, config, start, ended>>, HelpersStep,
         deaths' \in 0 .. MaxDeaths, phase' \in Phases, phase' = "off" <=> phase = "off"
  PROVE  /\ TypeOK' /\ NothingLeft' /\ ConfigInv'
         /\ \A n \in DOMAIN helpers' : helpers'[n].phase = "spawned" => n = start'
<1>1. TypeOK'
  <2>1. \A n \in DOMAIN helpers' : helpers'[n] \in Helper
    BY DEF HelpersStep
  <2>2. Len(ended') = IF phase' = "off" THEN start' ELSE start' - 1
    BY DEF LaunchInv, StartupInv, TypeOK
  <2>3. ended' \in Seq({"failed", "orderly", "killed"})
    BY DEF LaunchInv, StartupInv, TypeOK
  <2>4. QED
    BY <2>1, <2>2, <2>3 DEF LaunchInv, StartupInv, TypeOK, HelpersStep, Helper
<1>2. NothingLeft'
  <2>1. ASSUME NEW n \in DOMAIN ended, ended[n] = "orderly"
        PROVE  socket' # n /\ (n \in DOMAIN helpers' => helpers'[n].phase = "dead")
    BY <2>1, LeftStays
  <2>2. QED
    BY <2>1 DEF NothingLeft
<1>3. ConfigInv'
  BY DEF LaunchInv, ConfigInv
<1>4. QED
  BY <1>1, <1>2, <1>3 DEF HelpersStep

(* Helpers and socket file left alone. *)
LEMMA HelpersAlone ==
  ASSUME LaunchInv, UNCHANGED <<helpers, socket>>
  PROVE  HelpersStep
  BY DEF LaunchInv, StartupInv, TypeOK, SpawnedInv, HelpersStep, Helper

(* The embedded helper goes with its process, and the others stay. *)
LEMMA WithoutEmbeddedStep ==
  ASSUME LaunchInv, phase # "off", NEW hs,
         DOMAIN hs = DOMAIN helpers,
         \A n \in DOMAIN hs : hs[n] \in Helper /\ (hs[n] = helpers[n] \/ hs[n].phase = "dead"),
         helpers' = WithoutEmbedded(hs), socket' \in {socket, NONE}
  PROVE  HelpersStep
<1>1. DOMAIN helpers' = DOMAIN helpers
  BY DEF WithoutEmbedded
<1>2. ASSUME NEW n \in DOMAIN helpers
      PROVE  helpers'[n] \in Helper /\ (helpers'[n].phase = "dead" \/ helpers'[n] = helpers[n])
  <2>1. hs[n] \in Helper /\ (hs[n] = helpers[n] \/ hs[n].phase = "dead") /\ n \in DOMAIN hs
    BY <1>2
  <2>2. helpers'[n] = IF hs[n].embedded THEN [hs[n] EXCEPT !.phase = "dead"] ELSE hs[n]
    BY <2>1 DEF WithoutEmbedded
  <2>3. [hs[n] EXCEPT !.phase = "dead"] \in Helper /\ [hs[n] EXCEPT !.phase = "dead"].phase = "dead"
    BY <2>1 DEF Helper, HelperPhases
  <2>4. QED
    BY <2>1, <2>2, <2>3
<1>3. QED
  BY <1>1, <1>2 DEF LaunchInv, StartupInv, TypeOK, SpawnedInv, HelpersStep

(* The helper of this start is made. *)
LEMMA WithHelperStep ==
  ASSUME LaunchInv, phase = "loaded", NEW h \in Helper, helpers' = WithHelper(h),
         socket' \in {start, NONE}
  PROVE  /\ HelpersStep /\ start \in DOMAIN helpers' /\ helpers'[start] = h
         /\ start \notin DOMAIN helpers
<1>1. start \notin DOMAIN helpers /\ start \in 1 .. start
  BY StartupConstants DEF LaunchInv, SpawnedInv, StartupInv, TypeOK
<1>2. /\ DOMAIN helpers' = DOMAIN helpers \cup {start} /\ helpers'[start] = h
      /\ \A n \in DOMAIN helpers : helpers'[n] = helpers[n] /\ n # start
  BY <1>1 DEF WithHelper
<1>3. QED
  BY <1>1, <1>2 DEF LaunchInv, StartupInv, TypeOK, SpawnedInv, HelpersStep, Helper

(* A helper gets on. *)
LEMMA BecomesStep ==
  ASSUME LaunchInv, NEW n \in DOMAIN helpers, NEW p \in HelperPhases \ {"spawned"},
         helpers[n].phase # "dead" \/ p = "dead",
         Becomes(n, p), socket' \in {socket, n}, socket' = n => helpers[n].phase # "dead" \/ socket = n
  PROVE  /\ HelpersStep /\ DOMAIN helpers' = DOMAIN helpers /\ helpers'[n].phase = p
         /\ \A m \in DOMAIN helpers :
              /\ m # n => helpers'[m] = helpers[m]
              /\ helpers'[m].caps = helpers[m].caps /\ helpers'[m].uid = helpers[m].uid
              /\ helpers'[m].embedded = helpers[m].embedded
<1>1. helpers' = [helpers EXCEPT ![n] = [helpers[n] EXCEPT !.phase = p]]
  BY DEF Becomes
<1>2. \A m \in DOMAIN helpers : helpers[m] \in Helper
  BY DEF LaunchInv, StartupInv, TypeOK, Helper
<1>3. [helpers[n] EXCEPT !.phase = p] \in Helper
  BY <1>2 DEF Helper
<1>4. DOMAIN helpers' = DOMAIN helpers
  BY <1>1
<1>5. helpers'[n] = [helpers[n] EXCEPT !.phase = p] /\ helpers'[n].phase = p
  BY <1>1, <1>2 DEF Helper
<1>6. \A m \in DOMAIN helpers : m # n => helpers'[m] = helpers[m]
  BY <1>1
<1>7. /\ helpers'[n].caps = helpers[n].caps /\ helpers'[n].uid = helpers[n].uid
      /\ helpers'[n].embedded = helpers[n].embedded
  BY <1>2, <1>5 DEF Helper
<1>8. HelpersStep
  BY <1>2, <1>3, <1>4, <1>5, <1>6 DEF LaunchInv, StartupInv, TypeOK, SpawnedInv, HelpersStep
<1>9. QED
  BY <1>4, <1>5, <1>6, <1>7, <1>8

-----------------------------------------------------------------------------
(* The steps *)

(* The invariant holds before the first start. *)
LEMMA InitInv == Init => LaunchInv
<1> SUFFICES ASSUME Init PROVE LaunchInv
  OBVIOUS
<1>1. TypeOK
  BY StartupConstants DEF Init, TypeOK, IsEnvironment, Phases
<1>2. NothingLeft
  BY DEF Init, NothingLeft
<1>3. ConfigInv /\ SpawnedInv /\ SocketInv /\ OwnHelper
  BY DEF Init, ConfigInv, SpawnedInv, SocketInv, OwnHelper, Starting
<1>4. QED
  BY <1>1, <1>2, <1>3 DEF LaunchInv, StartupInv

(* A start reads the files; it fails or goes on with their configuration. *)
LEMMA MainInv ==
  ASSUME LaunchInv, NEW l \in Launches, Main(l)
  PROVE  LaunchInv'
<1>1. /\ phase = "off" /\ start < MaxStarts /\ start' = start + 1
      /\ \A n \in DOMAIN helpers : helpers[n].phase # "spawned"
      /\ helpers' = helpers /\ socket' = socket /\ deaths' = deaths
  BY DEF Main
<1>2. /\ start \in 0 .. MaxStarts /\ MaxStarts \in Nat /\ start' \in 0 .. MaxStarts
      /\ DOMAIN helpers \subseteq 1 .. start /\ DOMAIN helpers \subseteq 1 .. start'
      /\ start' \notin DOMAIN helpers /\ start \in Nat
      /\ ended \in Seq(Endings) /\ Len(ended) = start
  BY <1>1, StartupConstants DEF LaunchInv, StartupInv, TypeOK, Endings
<1>3. CASE l.profile = NONE \/ LoadFails(WithProfile(l))
  <2>1. ended' = Append(ended, "failed") /\ UNCHANGED <<launch, env, config, phase>>
    BY <1>3 DEF Main
  <2>2. /\ ended' \in Seq(Endings) /\ Len(ended') = start'
        /\ \A n \in DOMAIN ended' : ended'[n] = "orderly" => n \in DOMAIN ended /\ ended'[n] = ended[n]
    BY <1>1, <1>2, <2>1 DEF Endings
  <2>3. TypeOK'
    <3>1. ended' \in Seq({"failed", "orderly", "killed"})
      BY <2>2 DEF Endings
    <3>2. Len(ended') = IF phase' = "off" THEN start' ELSE start' - 1
      BY <1>1, <2>1, <2>2
    <3>3. QED
      BY <1>1, <1>2, <2>1, <3>1, <3>2 DEF LaunchInv, StartupInv, TypeOK
  <2>4. NothingLeft'
    BY <1>1, <2>2 DEF LaunchInv, StartupInv, NothingLeft
  <2>5. ConfigInv' /\ SpawnedInv' /\ SocketInv' /\ OwnHelper'
    BY <1>1, <2>1 DEF LaunchInv, ConfigInv, SpawnedInv, SocketInv, OwnHelper, Starting
  <2>6. QED
    BY <2>3, <2>4, <2>5 DEF LaunchInv, StartupInv
<1>4. CASE ~(l.profile = NONE \/ LoadFails(WithProfile(l)))
  <2>1. /\ launch' = l /\ env' = WithProfile(l) /\ config' = Loaded(env') /\ phase' = "loaded"
        /\ ended' = ended
    BY <1>4 DEF Main
  <2>2. IsEnvironment(env')
    BY <1>4, <2>1, EnvironmentSays
  <2>3. config'.warnings \subseteq {"SSE", "Observability"}
    BY <2>1 DEF Loaded
  <2>4. TypeOK'
    <3>1. Len(ended') = IF phase' = "off" THEN start' ELSE start' - 1
      BY <1>1, <1>2, <2>1
    <3>2. phase' \in Phases /\ launch' \in Launches \cup {NONE}
      BY <2>1 DEF Phases
    <3> HIDE DEF Loaded
    <3>3. QED
      BY <1>1, <1>2, <2>1, <2>2, <2>3, <3>1, <3>2 DEF LaunchInv, StartupInv, TypeOK
  <2>5. NothingLeft'
    BY <1>1, <2>1 DEF LaunchInv, StartupInv, NothingLeft
  <2>6. ConfigInv'
    BY <1>4, <2>1 DEF ConfigInv
  <2>7. SpawnedInv' /\ SocketInv' /\ OwnHelper'
    BY <1>1, <1>2, <2>1 DEF SpawnedInv, SocketInv, OwnHelper, Starting
  <2>8. QED
    BY <2>4, <2>5, <2>6, <2>7 DEF LaunchInv, StartupInv
<1>5. QED
  BY <1>3, <1>4

(* The helper that this start's configuration asks for. *)
LEMMA NewHelperType ==
  ASSUME LaunchInv, NEW p \in HelperPhases, NEW embedded \in BOOLEAN
  PROVE  /\ NewHelper(p, embedded) \in Helper /\ NewHelper(p, embedded).phase = p
         /\ NewHelper(p, embedded).caps = Granted(config)
         /\ NewHelper(p, embedded).embedded = embedded
<1>1. "allowedUid" \in DOMAIN env => env["allowedUid"] \in Values["allowedUid"]
  BY DEF LaunchInv, StartupInv, TypeOK, IsEnvironment
<1>2. Values["allowedUid"] = Values.allowedUid /\ "own" \in Values.allowedUid
  BY DEF Values
<1>3. Get(env, "allowedUid", "own") \in Values.allowedUid
  BY <1>1, <1>2 DEF Get
<1>4. Granted(config) \in SUBSET Capabilities
  BY DEF Granted
<1>5. QED
  BY <1>3, <1>4 DEF NewHelper, Helper

(* An embedded helper serves at once, or its start has failed. *)
LEMMA EmbeddedInv ==
  ASSUME LaunchInv, Start_Embedded
  PROVE  LaunchInv'
<1>1. phase = "loaded" /\ socket' = start /\ deaths' = deaths
  BY DEF Start_Embedded
<1>2. deaths \in 0 .. MaxDeaths
  BY DEF LaunchInv, StartupInv, TypeOK
<1>3. CASE Is(env, "allowedUid", "bad")
  <2>1. helpers' = WithHelper(NewHelper("dead", TRUE)) /\ Ends("failed")
    BY <1>3 DEF Start_Embedded
  <2>2. NewHelper("dead", TRUE) \in Helper
    BY NewHelperType DEF HelperPhases
  <2>3. HelpersStep
    BY <1>1, <2>1, <2>2, WithHelperStep
  <2>4. QED
    BY <1>1, <1>2, <2>1, <2>3, EndsInv DEF Endings
<1>4. CASE ~Is(env, "allowedUid", "bad")
  <2> DEFINE h == NewHelper("serving", TRUE)
  <2>1. helpers' = WithHelper(h) /\ Goto("started")
    BY <1>4 DEF Start_Embedded
  <2>2. h \in Helper /\ h.phase = "serving" /\ h.caps = Granted(config) /\ h.embedded
    BY NewHelperType DEF HelperPhases
  <2> HIDE DEF h
  <2>3. HelpersStep /\ start \in DOMAIN helpers' /\ helpers'[start] = h
    BY <1>1, <2>1, <2>2, WithHelperStep
  <2>4. phase' = "started" /\ UNCHANGED <<launch, env, config, start, ended>>
    BY <2>1 DEF Goto
  <2>5. /\ TypeOK' /\ NothingLeft' /\ ConfigInv'
        /\ \A n \in DOMAIN helpers' : helpers'[n].phase = "spawned" => n = start'
    BY <1>1, <1>2, <2>3, <2>4, GoesOnInv DEF Phases
  <2>6. SpawnedInv' /\ SocketInv' /\ OwnHelper'
    BY <1>1, <2>2, <2>3, <2>4, <2>5 DEF SpawnedInv, SocketInv, OwnHelper, Starting, Granted
  <2>7. QED
    BY <2>5, <2>6 DEF LaunchInv, StartupInv
<1>5. QED
  BY <1>3, <1>4

(* A helper process is spawned, with no socket file left to mistake for its own. *)
LEMMA SubprocessInv ==
  ASSUME LaunchInv, Start_Subprocess
  PROVE  LaunchInv'
<1> DEFINE h == NewHelper("spawned", FALSE)
<1>1. /\ phase = "loaded" /\ socket' = NONE /\ deaths' = deaths
      /\ helpers' = WithHelper(h) /\ Goto("waiting")
  BY DEF Start_Subprocess
<1>2. deaths \in 0 .. MaxDeaths
  BY DEF LaunchInv, StartupInv, TypeOK
<1>3. h \in Helper /\ h.phase = "spawned" /\ h.caps = Granted(config) /\ ~h.embedded
  BY NewHelperType DEF HelperPhases
<1> HIDE DEF h
<1>4. HelpersStep /\ start \in DOMAIN helpers' /\ helpers'[start] = h
  BY <1>1, <1>3, WithHelperStep
<1>5. phase' = "waiting" /\ UNCHANGED <<launch, env, config, start, ended>>
  BY <1>1 DEF Goto
<1>6. /\ TypeOK' /\ NothingLeft' /\ ConfigInv'
      /\ \A n \in DOMAIN helpers' : helpers'[n].phase = "spawned" => n = start'
  BY <1>1, <1>2, <1>4, <1>5, GoesOnInv DEF Phases
<1>7. SpawnedInv' /\ SocketInv' /\ OwnHelper'
  BY <1>1, <1>3, <1>4, <1>5, <1>6 DEF SpawnedInv, SocketInv, OwnHelper, Starting, Granted
<1>8. QED
  BY <1>6, <1>7 DEF LaunchInv, StartupInv

(* A start gives up, and a helper process goes on. *)
LEMMA GivesUpInv ==
  ASSUME LaunchInv, phase # "off", Ends("failed"), helpers' = helpers, socket' \in {socket, NONE},
         deaths' = deaths
  PROVE  LaunchInv'
<1>1. HelpersStep
  BY DEF LaunchInv, StartupInv, TypeOK, SpawnedInv, HelpersStep, Helper
<1>2. deaths' \in 0 .. MaxDeaths
  BY DEF LaunchInv, StartupInv, TypeOK
<1>3. QED
  BY <1>1, <1>2, EndsInv DEF Endings

(* A start gets to its next phase. *)
LEMMA GotoInv ==
  ASSUME LaunchInv, NEW p \in Phases \ {"off", "loaded"}, Goto(p), UNCHANGED <<helpers, socket, deaths>>,
         phase \notin {"off", "loaded"}, (SocketInv /\ OwnHelper)'
  PROVE  LaunchInv'
<1>1. HelpersStep
  BY HelpersAlone
<1>2. phase' = p /\ UNCHANGED <<launch, env, config, start, ended>>
  BY DEF Goto
<1>3. deaths' \in 0 .. MaxDeaths
  BY DEF LaunchInv, StartupInv, TypeOK
<1>4. TypeOK' /\ NothingLeft' /\ ConfigInv'
  BY <1>1, <1>2, <1>3, GoesOnInv
<1>5. SpawnedInv'
  BY <1>2 DEF LaunchInv, SpawnedInv, Granted
<1>6. QED
  BY <1>4, <1>5 DEF LaunchInv, StartupInv

(* The start waits for its helper, connects and asks. *)
LEMMA WaitsInv ==
  ASSUME LaunchInv, Wait_Seen \/ Check_Connect \/ Check_Answer \/ New_Done
  PROVE  LaunchInv'
<1>1. CASE Wait_Seen
  <2>1. phase = "waiting" /\ socket # NONE /\ Goto("checking") /\ UNCHANGED <<helpers, socket, deaths>>
    BY <1>1 DEF Wait_Seen
  <2>2. phase' = "checking" /\ start' = start
    BY <2>1 DEF Goto
  <2>3. (SocketInv /\ OwnHelper)'
    BY <2>1, <2>2 DEF LaunchInv, SocketInv, OwnHelper, Starting
  <2>4. QED
    BY <2>1, <2>3, GotoInv DEF Phases
<1>2. CASE Check_Connect
  <2>1. phase = "checking" /\ UNCHANGED <<helpers, socket, deaths>>
    BY <1>2 DEF Check_Connect
  <2>2. CASE socket # NONE /\ helpers[socket].phase \in {"listening", "serving"}
    <3>1. Goto("asking")
      BY <1>2, <2>2 DEF Check_Connect
    <3>2. phase' = "asking" /\ start' = start
      BY <3>1 DEF Goto
    <3>3. (SocketInv /\ OwnHelper)'
      BY <2>1, <2>2, <3>2 DEF LaunchInv, SocketInv, OwnHelper, Starting
    <3>4. QED
      BY <2>1, <3>1, <3>3, GotoInv DEF Phases
  <2>3. CASE ~(socket # NONE /\ helpers[socket].phase \in {"listening", "serving"})
    <3>1. Ends("failed")
      BY <1>2, <2>3 DEF Check_Connect
    <3>2. QED
      BY <2>1, <3>1, GivesUpInv
  <2>4. QED
    BY <2>2, <2>3
<1>3. CASE Check_Answer
  <2>1. phase = "asking" /\ UNCHANGED <<helpers, socket, deaths>>
    BY <1>3 DEF Check_Answer
  <2>2. CASE helpers[socket].phase = "serving" /\ helpers[socket].uid = "own"
    <3>1. Goto("started")
      BY <1>3, <2>2 DEF Check_Answer
    <3>2. phase' = "started" /\ start' = start /\ config' = config
      BY <3>1 DEF Goto
    <3>3. socket = start /\ helpers[start].caps = Granted(config)
      BY <2>1 DEF LaunchInv, SocketInv, SpawnedInv
    <3>4. (SocketInv /\ OwnHelper)'
      BY <2>1, <2>2, <3>2, <3>3 DEF SocketInv, OwnHelper, Starting, Granted
    <3>5. QED
      BY <2>1, <3>1, <3>4, GotoInv DEF Phases
  <2>3. CASE ~(helpers[socket].phase = "serving" /\ helpers[socket].uid = "own")
    <3>1. Ends("failed")
      BY <1>3, <2>3 DEF Check_Answer
    <3>2. QED
      BY <2>1, <3>1, GivesUpInv
  <2>4. QED
    BY <2>2, <2>3
<1>4. CASE New_Done
  <2>1. phase = "started" /\ Goto("running") /\ UNCHANGED <<helpers, socket, deaths>>
    BY <1>4 DEF New_Done
  <2>2. phase' = "running" /\ start' = start /\ config' = config
    BY <2>1 DEF Goto
  <2>3. (SocketInv /\ OwnHelper)'
    BY <2>1, <2>2 DEF LaunchInv, SocketInv, OwnHelper, Starting, Granted
  <2>4. QED
    BY <2>1, <2>3, GotoInv DEF Phases
<1>5. QED
  BY <1>1, <1>2, <1>3, <1>4

(* The dashboard is dropped, with its helper, or killed. *)
LEMMA DroppedInv ==
  ASSUME LaunchInv, Dropped
  PROVE  LaunchInv'
<1> DEFINE hs == [helpers EXCEPT ![start] = [helpers[start] EXCEPT !.phase = "dead"]]
<1>1. /\ phase \in {"started", "running"} /\ helpers' = WithoutEmbedded(hs) /\ socket' = NONE
      /\ Ends("orderly") /\ deaths' = deaths
  BY DEF Dropped, Drop
<1>2. start \in DOMAIN helpers /\ \A n \in DOMAIN helpers : helpers[n] \in Helper
  BY <1>1 DEF LaunchInv, SpawnedInv, StartupInv, TypeOK, Helper
<1>3. /\ [helpers[start] EXCEPT !.phase = "dead"] \in Helper
      /\ [helpers[start] EXCEPT !.phase = "dead"].phase = "dead"
  BY <1>2 DEF Helper, HelperPhases
<1>4. /\ DOMAIN hs = DOMAIN helpers /\ hs[start].phase = "dead"
      /\ \A n \in DOMAIN hs : hs[n] \in Helper /\ (hs[n] = helpers[n] \/ hs[n].phase = "dead")
  BY <1>2, <1>3
<1> HIDE DEF hs
<1>5. HelpersStep
  BY <1>1, <1>4, WithoutEmbeddedStep
<1>6. start \in DOMAIN helpers' /\ helpers'[start].phase = "dead"
  <2>1. hs[start] \in Helper /\ start \in DOMAIN hs
    BY <1>2, <1>4
  <2>2. helpers'[start] = IF hs[start].embedded THEN [hs[start] EXCEPT !.phase = "dead"] ELSE hs[start]
    BY <1>1, <2>1 DEF WithoutEmbedded
  <2>3. [hs[start] EXCEPT !.phase = "dead"].phase = "dead"
    BY <2>1 DEF Helper
  <2>4. start \in DOMAIN helpers'
    BY <1>1, <2>1 DEF WithoutEmbedded
  <2>5. QED
    BY <1>4, <2>2, <2>3, <2>4
<1>7. deaths' \in 0 .. MaxDeaths
  BY <1>1 DEF LaunchInv, StartupInv, TypeOK
<1>8. QED
  BY <1>1, <1>5, <1>6, <1>7, EndsInv DEF Endings

(* A kill takes the embedded helpers along and leaves the processes. *)
LEMMA KilledInv ==
  ASSUME LaunchInv, Killed
  PROVE  LaunchInv'
<1>1. /\ phase # "off" /\ helpers' = WithoutEmbedded(helpers) /\ socket' = socket
      /\ Ends("killed") /\ deaths' = deaths
  BY DEF Killed
<1>2. \A n \in DOMAIN helpers : helpers[n] \in Helper
  BY DEF LaunchInv, StartupInv, TypeOK, Helper
<1>3. HelpersStep
  BY <1>1, <1>2, WithoutEmbeddedStep
<1>4. deaths' \in 0 .. MaxDeaths
  BY <1>1 DEF LaunchInv, StartupInv, TypeOK
<1>5. QED
  BY <1>1, <1>3, <1>4, EndsInv DEF Endings

(* A helper process gets on or dies. *)
LEMMA ChildInv ==
  ASSUME LaunchInv, NEW n \in DOMAIN helpers, Child(n) \/ Child_Dies(n)
  PROVE  LaunchInv'
<1>1. UNCHANGED <<launch, env, config, phase, start, ended>> /\ phase \in Phases
  BY DEF Child, Child_Binds, Child_Listens, Child_Serves, Child_Dies, LaunchInv, StartupInv, TypeOK
<1>2. deaths' \in 0 .. MaxDeaths
  BY StartupConstants
     DEF Child, Child_Binds, Child_Listens, Child_Serves, Child_Dies, LaunchInv, StartupInv, TypeOK
<1>3. PICK p \in HelperPhases \ {"spawned"} :
        /\ Becomes(n, p) /\ helpers[n].phase # "dead"
        /\ \/ helpers[n].phase = "spawned" /\ p = "bound" /\ socket' = n
           \/ socket' = socket /\ p \in {"listening", "serving", "dead"}
        /\ p = "dead" \/ helpers[n].phase \notin {"serving", "dead"}
        /\ p = "listening" => helpers[n].phase = "bound"
  <2>1. CASE Child_Binds(n)
    BY <2>1 DEF Child_Binds, HelperPhases
  <2>2. CASE Child_Listens(n)
    BY <2>2 DEF Child_Listens, HelperPhases
  <2>3. CASE Child_Serves(n)
    BY <2>3 DEF Child_Serves, HelperPhases
  <2>4. CASE Child_Dies(n)
    BY <2>4 DEF Child_Dies, HelperPhases
  <2>5. QED
    BY <2>1, <2>2, <2>3, <2>4 DEF Child
<1>4. /\ HelpersStep /\ DOMAIN helpers' = DOMAIN helpers /\ helpers'[n].phase = p
      /\ \A m \in DOMAIN helpers :
           /\ m # n => helpers'[m] = helpers[m]
           /\ helpers'[m].caps = helpers[m].caps /\ helpers'[m].uid = helpers[m].uid
           /\ helpers'[m].embedded = helpers[m].embedded
  BY <1>3, BecomesStep
<1>5. /\ TypeOK' /\ NothingLeft' /\ ConfigInv'
      /\ \A m \in DOMAIN helpers' : helpers'[m].phase = "spawned" => m = start'
  BY <1>1, <1>2, <1>4, GoesOnInv
<1>6. SpawnedInv'
  BY <1>1, <1>4, <1>5 DEF LaunchInv, SpawnedInv, Granted
<1>7. CASE phase \in {"off", "loaded"}
  <2>1. SocketInv' /\ OwnHelper'
    BY <1>1, <1>7 DEF SocketInv, OwnHelper, Starting
  <2>2. QED
    BY <1>5, <1>6, <2>1 DEF LaunchInv, StartupInv
<1>8. CASE phase \notin {"off", "loaded"}
  <2>1. start \in DOMAIN helpers /\ start # NONE /\ n # NONE
    BY <1>8, StartupConstants DEF LaunchInv, SpawnedInv, StartupInv, TypeOK
  <2>2. helpers[n].phase = "spawned" => n = start
    BY DEF LaunchInv, SpawnedInv
  <2>3. /\ helpers'[start].caps = helpers[start].caps /\ helpers'[start].uid = helpers[start].uid
        /\ helpers'[start].embedded = helpers[start].embedded
        /\ helpers'[start].phase = IF start = n THEN p ELSE helpers[start].phase
    BY <1>4, <2>1
  <2>4. SocketInv'
    BY <1>1, <1>3, <2>1, <2>2, <2>3 DEF LaunchInv, SocketInv, Starting
  <2>5. OwnHelper'
    BY <1>1, <1>3, <2>1, <2>2, <2>3 DEF LaunchInv, OwnHelper, SocketInv, Starting, Granted
  <2>6. QED
    BY <1>5, <1>6, <2>4, <2>5 DEF LaunchInv, StartupInv
<1>9. QED
  BY <1>7, <1>8

(* Every step. *)
LEMMA NextInv == LaunchInv /\ [Next]_vars => LaunchInv'
<1> SUFFICES ASSUME LaunchInv, [Next]_vars PROVE LaunchInv'
  OBVIOUS
<1>1. ASSUME NEW l \in Launches, Main(l) PROVE LaunchInv'
  BY <1>1, MainInv
<1>2. CASE New
  <2>1. CASE Start_Embedded \/ Start_Subprocess
    BY <2>1, EmbeddedInv, SubprocessInv
  <2>2. CASE Start_Fails
    BY <2>2, GivesUpInv DEF Start_Fails
  <2>3. CASE Wait_Timeout
    BY <2>3, GivesUpInv DEF Wait_Timeout
  <2>4. CASE Wait_Seen \/ Check_Connect \/ Check_Answer \/ New_Done
    BY <2>4, WaitsInv
  <2>5. QED
    BY <1>2, <2>1, <2>2, <2>3, <2>4 DEF New
<1>3. CASE Dropped \/ Killed
  BY <1>3, DroppedInv, KilledInv
<1>4. ASSUME NEW n \in DOMAIN helpers, Child(n) \/ Child_Dies(n) PROVE LaunchInv'
  BY <1>4, ChildInv
<1>5. CASE UNCHANGED vars
  <2>1. UNCHANGED <<launch, env, config, phase, start, helpers, socket, ended, deaths>>
    BY <1>5 DEF vars
  <2>2. TypeOK' /\ NothingLeft' /\ ConfigInv'
    BY <2>1 DEF LaunchInv, StartupInv, TypeOK, NothingLeft, ConfigInv
  <2>3. SpawnedInv' /\ SocketInv' /\ OwnHelper'
    BY <2>1 DEF LaunchInv, SpawnedInv, SocketInv, OwnHelper, Starting, Granted
  <2>4. QED
    BY <2>2, <2>3 DEF LaunchInv, StartupInv
<1>6. QED
  BY <1>1, <1>2, <1>3, <1>4, <1>5 DEF Next

-----------------------------------------------------------------------------
(* The properties *)

(* What every step of the dashboard and of the helpers keeps.               *)
THEOREM LaunchInvariantHolds == Spec => []LaunchInv
  BY InitInv, NextInv, PTL DEF Spec

(* A dashboard that ended in order leaves no helper and no socket file      *)
(* (HelperRuntime::drop), for any number of starts and deaths.             *)
THEOREM NothingStaysBehind == Spec => []StartupInv
<1>1. LaunchInv => StartupInv
  BY DEF LaunchInv
<1>2. QED
  BY LaunchInvariantHolds, <1>1, PTL

(* The socket leads to the helper of this start, with the capabilities of   *)
(* its configuration (start_embedded, start_subprocess).                   *)
THEOREM HelperIsOwn == Spec => []OwnHelper
<1>1. LaunchInv => OwnHelper
  BY DEF LaunchInv
<1>2. QED
  BY LaunchInvariantHolds, <1>1, PTL

(* Privilege, the role of an admin, publishing, anchoring and the identity  *)
(* needed in EVRUS mode are what the launch says, for all files and        *)
(* environments (load_profile_env, load_runtime_config).                   *)
THEOREM OnlyWhatWasAsked == Spec => []NothingUnasked
<1>1. LaunchInv => NothingUnasked
  <2> SUFFICES ASSUME LaunchInv, config # NONE
               PROVE  /\ config.privileged = Says(launch, "privileged", "on")
                      /\ config.role = "admin" =>
                           \/ Says(launch, "role", "admin")
                           \/ config.privileged /\ \A v \in Values.role : ~Says(launch, "role", v)
                      /\ config.connectors.publishing # "off" =>
                           Says(launch, "peerweave", "on") /\ Says(launch, "publish", "on")
                      /\ config.connectors.anchoring =>
                           Says(launch, "evrus", "on") /\ Says(launch, "anchor", "on")
                      /\ config.authMode = "evrus" =>
                           Says(launch, "evrus", "on") /\ Says(launch, "jwt", "given")
    BY DEF NothingUnasked
  <2>1. phase # "off"
    BY DEF LaunchInv, ConfigInv
  <2>2. config = Loaded(env) /\ ~LoadFails(env) /\ \A s, v : Is(env, s, v) <=> Says(launch, s, v)
    BY <2>1, EnvironmentSays DEF LaunchInv, ConfigInv
  <2>3. config.privileged = Says(launch, "privileged", "on")
    <3>1. config.privileged = Is(env, "privileged", "on")
      BY <2>2 DEF Loaded
    <3>2. Says(launch, "privileged", "on") <=> Is(env, "privileged", "on")
      BY <2>2
    <3>3. Is(env, "privileged", "on") \in BOOLEAN /\ Says(launch, "privileged", "on") \in BOOLEAN
      BY DEF Is, Says
    <3>4. QED
      BY <3>1, <3>2, <3>3
  <2>4. ASSUME config.role = "admin"
        PROVE  \/ Says(launch, "role", "admin")
               \/ config.privileged /\ \A v \in Values.role : ~Says(launch, "role", v)
    <3>1. Role(env) = "admin"
      BY <2>2, <2>4 DEF Loaded
    <3>2. CASE "role" \in DOMAIN env
      BY <2>2, <3>1, <3>2 DEF Role, Get, Is
    <3>3. CASE "role" \notin DOMAIN env
      <4>1. Is(env, "privileged", "on")
        BY <3>1, <3>3 DEF Role, Get
      <4>2. config.privileged
        BY <2>2, <4>1 DEF Loaded
      <4>3. \A v : ~Says(launch, "role", v)
        BY <2>2, <3>3 DEF Is
      <4>4. QED
        BY <4>2, <4>3
    <3>4. QED
      BY <3>2, <3>3
  <2>5. config.connectors = Connected(env) /\ config.authMode = Get(env, "authMode", "local")
    BY <2>2 DEF Loaded
  <2>6. ASSUME config.connectors.publishing # "off"
        PROVE  Says(launch, "peerweave", "on") /\ Says(launch, "publish", "on")
    <3>1. Is(env, "peerweave", "on") /\ Is(env, "publish", "on")
      BY <2>5, <2>6 DEF Connected
    <3>2. QED
      BY <2>2, <3>1
  <2>7. ASSUME config.connectors.anchoring
        PROVE  Says(launch, "evrus", "on") /\ Says(launch, "anchor", "on")
    <3>1. Connected(env).anchoring
      BY <2>5, <2>7
    <3>2. Is(env, "evrus", "on") /\ Is(env, "anchor", "on")
      BY <3>1 DEF Connected
    <3>3. QED
      BY <2>2, <3>2
  <2>8. ASSUME config.authMode = "evrus"
        PROVE  Says(launch, "evrus", "on") /\ Says(launch, "jwt", "given")
    <3>1. Connected(env).identity
      BY <2>2, <2>5, <2>8 DEF LoadFails
    <3>2. Is(env, "evrus", "on") /\ Is(env, "jwt", "given")
      BY <3>1 DEF Connected
    <3>3. QED
      BY <2>2, <3>2
  <2>9. QED
    BY <2>3, <2>4, <2>6, <2>7, <2>8
<1>2. QED
  BY LaunchInvariantHolds, <1>1, PTL

=============================================================================
