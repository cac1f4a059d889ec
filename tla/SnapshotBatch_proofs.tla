------------------------ MODULE SnapshotBatch_proofs ------------------------
(***************************************************************************)
(* What sorting a batch of datagrams into events and snapshots keeps, and  *)
(* what applying the two does, for batches of any length.                  *)
(***************************************************************************)
EXTENDS SnapshotBatch, SequenceTheorems, WellFoundedInduction, TLAPS

\* A set of numbers that is not empty has a least one.
LEMMA LeastNumber ==
    ASSUME NEW T \in SUBSET Nat, T # {}
    PROVE  \E x \in T : \A y \in T : x <= y
<1> DEFINE R == {ss \in Nat \X Nat : ss[1] < ss[2]}
<1>1. IsWellFoundedOn(R, Nat)
  BY NatLessThanWellFounded DEF OpToRel
<1> HIDE DEF R
<1>2. PICK x \in T : \A y \in T : ~ (<<y, x>> \in R)
  BY <1>1, WFMin
<1>3. \A y \in T : ~ (y < x)
  BY <1>2 DEF R
<1> QED BY <1>2, <1>3

\* Induction, said of a set: one that holds 0 and with every number below n the
\* next one too holds all numbers up to n.
LEMMA NumbersUpTo ==
    ASSUME NEW n \in Nat, NEW T, 0 \in T, \A k \in 0..(n - 1) : k \in T => k + 1 \in T
    PROVE  0..n \subseteq T
<1> SUFFICES ASSUME ~ (0..n \subseteq T) PROVE FALSE
  OBVIOUS
<1> DEFINE Missing == {k \in Nat : k <= n /\ k \notin T}
<1>1. Missing \in SUBSET Nat /\ Missing # {}
  OBVIOUS
<1>2. PICK x \in Missing : \A y \in Missing : x <= y
  BY <1>1, LeastNumber
<1>3. x # 0 /\ x - 1 \in 0..(n - 1) /\ (x - 1) + 1 = x
  BY <1>2
<1>4. x - 1 \in T
  BY <1>2, <1>3
<1> QED BY <1>2, <1>3, <1>4

\* The greatest of some positions of a sequence.
LEMMA MaxOfPositions ==
    ASSUME NEW n \in Nat, NEW P \in SUBSET (1..n), P # {}
    PROVE  Max(P) \in P /\ \A i \in P : i <= Max(P)
<1> DEFINE Above == {k \in Nat : \A i \in P : i <= k}
<1>1. n \in Above /\ Above \in SUBSET Nat
  OBVIOUS
<1>2. PICK m \in Above : \A k \in Above : m <= k
  BY <1>1, LeastNumber
<1>3. m \in P
  <2> SUFFICES ASSUME m \notin P PROVE FALSE
    OBVIOUS
  <2>1. \A i \in P : i <= m - 1
    BY <1>2
  <2>2. m - 1 \in Nat
    <3>1. PICK i \in P : i \in 1..n
      OBVIOUS
    <3> QED BY <2>1, <3>1, <1>2
  <2>3. m - 1 \in Above
    BY <2>1, <2>2
  <2> QED BY <1>2, <2>3
<1>4. \E x \in P : \A y \in P : x >= y
  BY <1>2, <1>3
<1>5. /\ Max(P) = CHOOSE x \in P : \A y \in P : x >= y
      /\ \A y \in P : y \in Int
  BY DEF Max
<1> QED BY <1>4, <1>5
-----------------------------------------------------------------------------
\* One round of the loop of Kept.
KeptStep(d, P, kept, n) == IF n \in P THEN Append(kept, d[n]) ELSE kept

\* kept[i] is what the loop has kept after i rounds, for the first n rounds.
KeepsUpTo(d, P, kept, n) ==
    /\ kept[0] = <<>>
    /\ \A i \in 1..n : kept[i] = KeptStep(d, P, kept[i - 1], i)

\* There is such a function: the recursive definition in Kept defines one.
LEMMA KeptIsLoop ==
    ASSUME NEW d, Len(d) \in Nat, NEW P
    PROVE  \E kept : KeepsUpTo(d, P, kept, Len(d)) /\ Kept(d, P) = kept[Len(d)]
<1> DEFINE N == Len(d)
           Body(f) == [n \in 0..N |-> IF n = 0 THEN <<>>
                                      ELSE IF n \in P THEN Append(f[n - 1], d[n])
                                      ELSE f[n - 1]]
           T == {n \in 0..N : \E f : KeepsUpTo(d, P, f, n)}
<1>1. 0 \in T
  <2>1. KeepsUpTo(d, P, [i \in 0..0 |-> <<>>], 0)
    BY DEF KeepsUpTo
  <2> QED BY <2>1
<1>2. ASSUME NEW n \in 0..(N - 1), n \in T PROVE n + 1 \in T
  <2>1. PICK f : KeepsUpTo(d, P, f, n)
    BY <1>2
  <2> DEFINE g == [i \in 0..(n + 1) |-> IF i = n + 1 THEN KeptStep(d, P, f[n], i)
                                        ELSE f[i]]
  <2>2. g[0] = <<>>
    BY <2>1 DEF KeepsUpTo
  <2>3. ASSUME NEW i \in 1..(n + 1) PROVE g[i] = KeptStep(d, P, g[i - 1], i)
    <3>1. g[i - 1] = f[i - 1]
      OBVIOUS
    <3>2. CASE i = n + 1
      BY <3>1, <3>2
    <3>3. CASE i # n + 1
      <4>1. i \in 1..n /\ g[i] = f[i]
        BY <3>3
      <4> QED BY <2>1, <3>1, <4>1 DEF KeepsUpTo
    <3> QED BY <3>2, <3>3
  <2> HIDE DEF g
  <2>4. KeepsUpTo(d, P, g, n + 1)
    BY <2>2, <2>3 DEF KeepsUpTo
  <2> QED BY <2>4
<1>3. PICK f : KeepsUpTo(d, P, f, N)
  <2> HIDE DEF T
  <2>1. 0..N \subseteq T
    BY <1>1, <1>2, NumbersUpTo
  <2>2. N \in T
    BY <2>1
  <2> QED BY <2>2 DEF T
<1> DEFINE h == [n \in 0..N |-> f[n]]
<1>4. h = Body(h)
  <2>1. \A n \in 0..N : h[n] = Body(h)[n]
    <3> SUFFICES ASSUME NEW n \in 0..N PROVE h[n] = Body(h)[n]
      OBVIOUS
    <3>1. CASE n = 0
      BY <1>3, <3>1 DEF KeepsUpTo
    <3>2. CASE n # 0
      <4>1. n \in 1..N /\ n - 1 \in 0..N
        BY <3>2
      <4>2. f[n] = KeptStep(d, P, f[n - 1], n)
        BY <1>3, <4>1 DEF KeepsUpTo
      <4> QED BY <4>1, <4>2 DEF KeptStep
    <3> QED BY <3>1, <3>2
  <2> QED BY <2>1
<1> DEFINE k == CHOOSE q : q = Body(q)
<1>5. k = Body(k)
  <2> HIDE DEF h, Body
  <2> QED BY <1>4
<1>6. Kept(d, P) = k[N]
  BY DEF Kept
<1> HIDE DEF k
<1>7. KeepsUpTo(d, P, k, N)
  <2>1. k[0] = <<>>
    BY <1>5
  <2>2. ASSUME NEW i \in 1..N PROVE k[i] = KeptStep(d, P, k[i - 1], i)
    <3>1. i \in 0..N /\ i # 0
      OBVIOUS
    <3>2. Body(k)[i] = IF i \in P THEN Append(k[i - 1], d[i]) ELSE k[i - 1]
      BY <3>1
    <3> QED BY <1>5, <3>2 DEF KeptStep
  <2> QED BY <2>1, <2>2 DEF KeepsUpTo
<1> QED BY <1>6, <1>7

\* kept is the packets of the first n rounds that are at positions in P, in their
\* order; the k-th of them comes from position from[k].
Selects(d, P, n, kept, from) ==
    /\ Len(kept) \in Nat
    /\ from \in [1..Len(kept) -> {i \in P : i <= n}]
    /\ \A k \in 1..Len(kept) : kept[k] = d[from[k]]
    /\ \A k, l \in 1..Len(kept) : k < l => from[k] < from[l]
    /\ \A i \in P : i <= n => \E k \in 1..Len(kept) : from[k] = i

\* One more round keeps that.
LEMMA SelectsNext ==
    ASSUME NEW S, NEW d \in Seq(S), NEW P \in SUBSET (1..Len(d)),
           NEW n \in 0..(Len(d) - 1), NEW kept \in Seq(S), NEW from,
           Selects(d, P, n, kept, from)
    PROVE  /\ KeptStep(d, P, kept, n + 1) \in Seq(S)
           /\ \E g : Selects(d, P, n + 1, KeptStep(d, P, kept, n + 1), g)
<1>1. n + 1 \in 1..Len(d) /\ d[n + 1] \in S /\ Len(kept) \in Nat
  BY LenProperties, ElementOfSeq
<1>2. CASE n + 1 \notin P
  <2>1. \A i \in P : i <= n + 1 <=> i <= n
    BY <1>1, <1>2
  <2>2. {i \in P : i <= n + 1} = {i \in P : i <= n}
    BY <2>1
  <2>3. Selects(d, P, n + 1, kept, from)
    BY <2>1, <2>2 DEF Selects
  <2> QED BY <1>2, <2>3 DEF KeptStep
<1>3. CASE n + 1 \in P
  <2> DEFINE m == Len(kept)
             r == Append(kept, d[n + 1])
             g == [k \in 1..(m + 1) |-> IF k = m + 1 THEN n + 1 ELSE from[k]]
  <2>1. /\ r \in Seq(S) /\ Len(r) = m + 1 /\ r[m + 1] = d[n + 1]
        /\ \A k \in 1..m : r[k] = kept[k]
    BY <1>1, AppendProperties
  <2>2. \A k \in 1..m : /\ g[k] = from[k] /\ from[k] \in P /\ from[k] <= n
                        /\ g[k] \in Int
    <3>1. \A k \in 1..m : g[k] = from[k] /\ from[k] \in P /\ from[k] <= n
      BY <1>1 DEF Selects
    <3>2. \A i \in P : i \in Int
      OBVIOUS
    <3> HIDE DEF g
    <3> QED BY <3>1, <3>2
  <2>3. g[m + 1] = n + 1
    BY <1>1
  <2>4. \A k \in 1..(m + 1) : k = m + 1 \/ k \in 1..m
    BY <1>1
  <2>5. g \in [1..(m + 1) -> {i \in P : i <= n + 1}]
    <3>1. DOMAIN g = 1..(m + 1) /\ g = [k \in DOMAIN g |-> g[k]]
      OBVIOUS
    <3>2. ASSUME NEW k \in 1..(m + 1) PROVE g[k] \in P /\ g[k] <= n + 1
      <4>1. CASE k = m + 1
        BY <1>1, <1>3, <2>3, <4>1
      <4>2. CASE k \in 1..m
        <5>1. g[k] \in P /\ g[k] <= n /\ g[k] \in Int
          BY <2>2, <4>2
        <5> HIDE DEF g
        <5> QED BY <5>1
      <4> QED BY <2>4, <4>1, <4>2
    <3> HIDE DEF g
    <3> QED BY <3>1, <3>2
  <2> HIDE DEF r, g
  <2>6. \A k \in 1..(m + 1) : r[k] = d[g[k]]
    <3>1. \A k \in 1..m : kept[k] = d[from[k]]
      BY DEF Selects
    <3> QED BY <2>1, <2>2, <2>3, <2>4, <3>1
  <2>7. \A k, l \in 1..(m + 1) : k < l => g[k] < g[l]
    <3>1. \A k, l \in 1..m : k < l => from[k] < from[l]
      BY DEF Selects
    <3>2. \A k, l \in 1..(m + 1) : k < l => k \in 1..m
      BY <1>1
    <3> SUFFICES ASSUME NEW k \in 1..(m + 1), NEW l \in 1..(m + 1), k < l
                 PROVE  g[k] < g[l]
      OBVIOUS
    <3>3. k \in 1..m /\ g[k] = from[k] /\ g[k] \in Int /\ g[k] <= n
      BY <2>2, <3>2
    <3>4. CASE l = m + 1
      BY <2>3, <3>3, <3>4
    <3>5. CASE l \in 1..m
      BY <2>2, <3>1, <3>3, <3>5
    <3> QED BY <2>4, <3>4, <3>5
  <2>8. \A i \in P : i <= n + 1 => \E k \in 1..(m + 1) : g[k] = i
    <3> SUFFICES ASSUME NEW i \in P, i <= n + 1
                 PROVE  \E k \in 1..(m + 1) : g[k] = i
      OBVIOUS
    <3>1. CASE i = n + 1
      BY <1>1, <2>3, <3>1
    <3>2. CASE i # n + 1
      <4>1. i <= n
        BY <1>1, <3>2
      <4>2. PICK k \in 1..m : from[k] = i
        BY <4>1 DEF Selects
      <4>3. k \in 1..(m + 1)
        BY <1>1
      <4> QED BY <2>2, <4>2, <4>3
    <3> QED BY <3>1, <3>2
  <2>9. Selects(d, P, n + 1, r, g)
    BY <1>1, <2>1, <2>5, <2>6, <2>7, <2>8 DEF Selects
  <2>10. KeptStep(d, P, kept, n + 1) = r
    BY <1>3 DEF KeptStep, r
  <2> QED BY <2>1, <2>9, <2>10
<1> QED BY <1>2, <1>3

\* Kept keeps the packets at the given positions, all of them and in their order.
LEMMA KeptSelects ==
    ASSUME NEW S, NEW d \in Seq(S), NEW P \in SUBSET (1..Len(d))
    PROVE  /\ Kept(d, P) \in Seq(S)
           /\ \E from : Selects(d, P, Len(d), Kept(d, P), from)
<1>1. Len(d) \in Nat
  BY LenProperties
<1>2. PICK kept : KeepsUpTo(d, P, kept, Len(d)) /\ Kept(d, P) = kept[Len(d)]
  BY <1>1, KeptIsLoop
<1> DEFINE T == {n \in 0..Len(d) : /\ kept[n] \in Seq(S)
                                   /\ \E from : Selects(d, P, n, kept[n], from)}
<1>3. 0 \in T
  <2>1. kept[0] = <<>> /\ <<>> \in Seq(S) /\ Len(<<>>) = 0
    BY <1>2 DEF KeepsUpTo
  <2>2. Selects(d, P, 0, <<>>, <<>>)
    BY <2>1 DEF Selects
  <2>3. kept[0] \in Seq(S) /\ Selects(d, P, 0, kept[0], <<>>)
    BY <2>1, <2>2
  <2> QED BY <1>1, <2>3
<1>4. ASSUME NEW n \in 0..(Len(d) - 1), n \in T PROVE n + 1 \in T
  <2>1. n + 1 \in 1..Len(d) /\ (n + 1) - 1 = n
    BY <1>1
  <2>2. kept[n + 1] = KeptStep(d, P, kept[n], n + 1)
    BY <1>2, <2>1 DEF KeepsUpTo
  <2>3. PICK from : Selects(d, P, n, kept[n], from)
    BY <1>4
  <2>4. /\ kept[n + 1] \in Seq(S)
        /\ \E g : Selects(d, P, n + 1, kept[n + 1], g)
    BY <1>4, <2>2, <2>3, SelectsNext
  <2> QED BY <2>1, <2>4
<1> HIDE DEF T
<1>5. 0..Len(d) \subseteq T
  BY <1>1, <1>3, <1>4, NumbersUpTo
<1>6. Len(d) \in T
  BY <1>1, <1>5
<1> QED BY <1>2, <1>6 DEF T

\* What holds of all packets kept holds of the elements of the result.
LEMMA KeptIn ==
    ASSUME NEW S, NEW d \in Seq(S), NEW P \in SUBSET (1..Len(d)),
           NEW Q, \A i \in P : d[i] \in Q
    PROVE  Kept(d, P) \in Seq(Q)
<1> DEFINE r == Kept(d, P)
<1>1. r \in Seq(S) /\ \E from : Selects(d, P, Len(d), r, from)
  BY KeptSelects
<1> HIDE DEF r
<1>2. PICK from : Selects(d, P, Len(d), r, from)
  BY <1>1
<1>3. /\ Len(r) \in Nat /\ DOMAIN r = 1..Len(r)
      /\ r \in [1..Len(r) -> S]
  BY <1>1, LenProperties
<1>4. \A k \in 1..Len(r) : r[k] \in Q
  BY <1>2 DEF Selects
<1>5. r \in [1..Len(r) -> Q]
  BY <1>3, <1>4
<1>6. r \in Seq(Q)
  BY <1>3, <1>5, SeqDef
<1> QED BY <1>6 DEF r

\* The only number of positions that no other exceeds.
LEMMA MaxIs ==
    ASSUME NEW n \in Nat, NEW P \in SUBSET (1..n), NEW m \in P, \A i \in P : i <= m
    PROVE  Max(P) = m
<1>1. Max(P) \in P /\ m <= Max(P)
  BY MaxOfPositions
<1>2. \A i \in P : i \in Int
  OBVIOUS
<1>3. Max(P) <= m /\ Max(P) \in Int /\ m \in Int
  BY <1>1, <1>2
<1> QED BY <1>1, <1>3

\* The last kept packet about a client is the last one among those to keep.
LEMMA KeptLast ==
    ASSUME NEW S, NEW d \in Seq(S), NEW P \in SUBSET (1..Len(d)), NEW c
    PROVE  LET r == Kept(d, P)
               A == {i \in P : d[i].clientId = c}
           IN  /\ About(r, c) = {} <=> A = {}
               /\ A # {} => r[Max(About(r, c))] = d[Max(A)]
               /\ \A k \in About(r, c) : \E i \in A : r[k] = d[i]
               /\ \A i \in A : \E k \in About(r, c) : r[k] = d[i]
<1> DEFINE r == Kept(d, P)
           A == {i \in P : d[i].clientId = c}
           B == About(r, c)
<1>1. r \in Seq(S) /\ \E from : Selects(d, P, Len(d), r, from)
  BY KeptSelects
<1> HIDE DEF r
<1>2. PICK from : Selects(d, P, Len(d), r, from)
  BY <1>1
<1>3. /\ Len(r) \in Nat /\ DOMAIN r = 1..Len(r) /\ Len(d) \in Nat
      /\ P \subseteq 1..Len(d)
  BY <1>1, LenProperties
<1>4. \A k \in 1..Len(r) : from[k] \in P /\ r[k] = d[from[k]]
  BY <1>2 DEF Selects
<1>5. \A i \in P : \E k \in 1..Len(r) : from[k] = i
  BY <1>2, <1>3 DEF Selects
<1>6. \A k, l \in 1..Len(r) : k < l => from[k] < from[l]
  BY <1>2 DEF Selects
<1>7. \A k \in B : k \in 1..Len(r) /\ from[k] \in A /\ r[k] = d[from[k]]
  BY <1>3, <1>4 DEF About
<1>8. \A i \in A : \E k \in B : from[k] = i /\ r[k] = d[i]
  BY <1>3, <1>4, <1>5 DEF About
<1> HIDE DEF B
<1>9. ASSUME A # {} PROVE r[Max(B)] = d[Max(A)]
  <2>1. A \subseteq 1..Len(d) /\ B \subseteq 1..Len(r) /\ B # {}
    BY <1>3, <1>7, <1>8, <1>9
  <2> HIDE DEF A
  <2>2. Max(B) \in B /\ \A k \in B : k <= Max(B)
    BY <1>3, <2>1, MaxOfPositions
  <2> DEFINE m == Max(B)
  <2> HIDE DEF m
  <2>3. m \in B /\ m \in 1..Len(r) /\ from[m] \in A /\ r[m] = d[from[m]]
    BY <1>7, <2>2 DEF m
  <2>4. ASSUME NEW i \in A PROVE i <= from[m]
    <3>1. PICK k \in B : from[k] = i
      BY <1>8
    <3>2. k \in 1..Len(r) /\ k <= m
      BY <1>7, <2>2 DEF m
    <3>3. i \in Int /\ from[m] \in Int
      <4>1. \A j \in A : j \in Int
        BY <2>1
      <4> QED BY <2>3, <4>1
    <3>4. CASE k = m
      BY <3>1, <3>3, <3>4
    <3>5. CASE k < m
      BY <1>6, <2>3, <3>1, <3>2, <3>3, <3>5
    <3> QED BY <2>3, <3>2, <3>4, <3>5
  <2>5. Max(A) = from[m]
    BY <1>3, <2>1, <2>3, <2>4, MaxIs
  <2> QED BY <2>3, <2>5 DEF m
<1> QED BY <1>7, <1>8, <1>9 DEF r, B
-----------------------------------------------------------------------------
\* The positions of the snapshots, and of the events, about client c.
SnapshotsAbout(d, c) ==
    {i \in 1..Len(d) : d[i].kind = "snapshot" /\ d[i].clientId = c}

EventsAbout(d, c) ==
    {i \in 1..Len(d) : d[i].kind = "serverEvent" /\ d[i].clientId = c}

\* The pose a batch leaves the actor of c in, said of the datagrams as they came.
LEMMA BatchOutcome ==
    ASSUME NEW S, NEW d \in Seq(S), NEW own, NEW poses,
           NEW c \in ClientIds, SpawnPose # None
    PROVE  LET next == AfterBatch(poses, own, EventsIn(d), SnapshotsIn(d, own))[c]
               snaps == SnapshotsAbout(d, c)
               events == EventsAbout(d, c)
           IN  /\ c = own => next = poses[c]
               /\ c # own /\ snaps # {} => next = d[Max(snaps)].pose
               /\ c # own /\ snaps = {} /\ events = {} => next = poses[c]
               /\ c # own /\ snaps = {} /\ events # {} =>
                     /\ next = None
                           <=> d[Max(events)].event = "clientDisconnected"
                     /\ next \in {None, SpawnPose, poses[c]}
                     /\ poses[c] # None
                        /\ (\A i \in events : d[i].event # "clientDisconnected")
                           => next = poses[c]
<1> DEFINE P == {i \in DOMAIN d : d[i].kind = "serverEvent"}
           Q == {i \in DOMAIN d : d[i].kind = "snapshot" /\ d[i].clientId # own}
           E == EventsIn(d)
           T == SnapshotsIn(d, own)
           snaps == SnapshotsAbout(d, c)
           events == EventsAbout(d, c)
           next == AfterBatch(poses, own, E, T)[c]
<1>1. DOMAIN d = 1..Len(d)
  BY LenProperties
<1>2. E = Kept(d, P) /\ T = Kept(d, Q)
  BY DEF EventsIn, SnapshotsIn
<1>3. P \in SUBSET (1..Len(d)) /\ Q \in SUBSET (1..Len(d))
  BY <1>1
<1>4. /\ {i \in P : d[i].clientId = c} = events
      /\ c # own => {i \in Q : d[i].clientId = c} = snaps
      /\ c = own => {i \in Q : d[i].clientId = c} = {}
  BY <1>1 DEF EventsAbout, SnapshotsAbout
<1> HIDE DEF P, Q
<1>5. /\ About(E, c) = {} <=> events = {}
      /\ events # {} => E[Max(About(E, c))] = d[Max(events)]
      /\ \A k \in About(E, c) : \E i \in events : E[k] = d[i]
      /\ \A i \in events : \E k \in About(E, c) : E[k] = d[i]
  <2>1. LET r == Kept(d, P)
            A == {i \in P : d[i].clientId = c}
        IN  /\ About(r, c) = {} <=> A = {}
            /\ A # {} => r[Max(About(r, c))] = d[Max(A)]
            /\ \A k \in About(r, c) : \E i \in A : r[k] = d[i]
            /\ \A i \in A : \E k \in About(r, c) : r[k] = d[i]
    BY <1>3, KeptLast
  <2> HIDE DEF events, E
  <2> QED BY <1>2, <1>4, <2>1
<1>6. LET A == {i \in Q : d[i].clientId = c}
      IN  /\ About(T, c) = {} <=> A = {}
          /\ A # {} => T[Max(About(T, c))] = d[Max(A)]
  <2>1. LET r == Kept(d, Q)
            A == {i \in Q : d[i].clientId = c}
        IN  /\ About(r, c) = {} <=> A = {}
            /\ A # {} => r[Max(About(r, c))] = d[Max(A)]
    BY <1>3, KeptLast
  <2> HIDE DEF T
  <2> QED BY <1>2, <2>1
<1>7. next = IF About(T, c) # {} THEN T[Max(About(T, c))].pose
             ELSE IF c = own THEN poses[c]
             ELSE AfterEvents(poses[c], E, c)
  BY DEF AfterBatch, LastPose
<1>8. AfterEvents(poses[c], E, c) =
        IF About(E, c) = {} THEN poses[c]
        ELSE IF Max(About(E, c)) \in Leaving(E, c) THEN None
        ELSE IF poses[c] = None \/ Leaving(E, c) # {} THEN SpawnPose
        ELSE poses[c]
  BY DEF AfterEvents
<1>9. events # {} => /\ Max(About(E, c)) \in Leaving(E, c)
                           <=> d[Max(events)].event = "clientDisconnected"
                     /\ (\A i \in events : d[i].event # "clientDisconnected")
                           => Leaving(E, c) = {}
  <2> SUFFICES ASSUME events # {}
               PROVE  /\ Max(About(E, c)) \in Leaving(E, c)
                           <=> d[Max(events)].event = "clientDisconnected"
                      /\ (\A i \in events : d[i].event # "clientDisconnected")
                           => Leaving(E, c) = {}
    OBVIOUS
  <2>1. E \in Seq(S)
    BY <1>2, <1>3, KeptSelects
  <2>2. Len(E) \in Nat /\ DOMAIN E = 1..Len(E)
    BY <2>1, LenProperties
  <2>3. About(E, c) \in SUBSET (1..Len(E)) /\ About(E, c) # {}
    BY <1>5, <2>2 DEF About
  <2>4. Max(About(E, c)) \in About(E, c)
    BY <2>2, <2>3, MaxOfPositions
  <2> HIDE DEF E, events
  <2> QED BY <1>5, <2>4 DEF Leaving
<1> HIDE DEF next, snaps, events, E, T
<1>10. c = own => next = poses[c]
  BY <1>4, <1>6, <1>7
<1>11. c # own /\ snaps # {} => next = d[Max(snaps)].pose
  BY <1>4, <1>6, <1>7
<1>12. c # own /\ snaps = {} => next = AfterEvents(poses[c], E, c)
  BY <1>4, <1>6, <1>7
<1>13. c # own /\ snaps = {} /\ events = {} => next = poses[c]
  BY <1>5, <1>8, <1>12
<1>14. ASSUME c # own, snaps = {}, events # {}
       PROVE  /\ next = None <=> d[Max(events)].event = "clientDisconnected"
              /\ next \in {None, SpawnPose, poses[c]}
              /\ poses[c] # None
                 /\ (\A i \in events : d[i].event # "clientDisconnected")
                    => next = poses[c]
  BY <1>5, <1>8, <1>9, <1>12, <1>14
<1> QED BY <1>10, <1>11, <1>13, <1>14 DEF next, snaps, events, E, T
-----------------------------------------------------------------------------
\* The packets about c in a sequence, by its head and its tail.
LEMMA AboutTail ==
    ASSUME NEW S, NEW s \in Seq(S), s # <<>>, NEW c
    PROVE  LET t == Tail(s)
               A == About(s, c)
               B == About(t, c)
           IN  /\ B = {} => A = IF Head(s).clientId = c THEN {1} ELSE {}
               /\ B # {} => /\ A # {} /\ s[Max(A)] = t[Max(B)]
                            /\ Max(A) \in A /\ Max(B) \in B
               /\ B = {} /\ A # {} => Max(A) = 1 /\ s[1] = Head(s)
               /\ \A i \in A : (i = 1 /\ s[i] = Head(s)) \/ \E k \in B : s[i] = t[k]
               /\ \A k \in B : \E i \in A : s[i] = t[k]
               /\ Head(s).clientId = c => 1 \in A /\ s[1] = Head(s)
<1> DEFINE t == Tail(s)
           A == About(s, c)
           B == About(t, c)
<1>1. /\ Len(s) \in Nat /\ Len(s) > 0 /\ Len(t) = Len(s) - 1 /\ Head(s) = s[1]
      /\ \A i \in 1..Len(t) : t[i] = s[i + 1]
      /\ t \in Seq(S)
  BY EmptySeq, LenProperties, HeadTailProperties
<1>2. DOMAIN s = 1..Len(s) /\ DOMAIN t = 1..Len(t)
  BY <1>1, LenProperties
<1> HIDE DEF t
<1>3. A = {i \in 1..Len(s) : s[i].clientId = c} /\ B = {i \in 1..Len(t) : t[i].clientId = c}
  BY <1>2 DEF About
<1> HIDE DEF A, B
<1>4. \A k \in B : k \in 1..Len(t) /\ k + 1 \in A /\ s[k + 1] = t[k]
  BY <1>1, <1>3
<1>5. ASSUME NEW i \in A PROVE i = 1 \/ (i - 1 \in B /\ s[i] = t[i - 1])
  <2>1. i \in 1..Len(s) /\ s[i].clientId = c
    BY <1>3
  <2>2. CASE i # 1
    <3>1. i - 1 \in 1..Len(t) /\ (i - 1) + 1 = i
      BY <1>1, <2>1, <2>2
    <3>2. t[i - 1] = s[i]
      BY <1>1, <3>1
    <3> QED BY <1>3, <2>1, <3>1, <3>2
  <2> QED BY <2>2
<1>6. 1 \in A <=> Head(s).clientId = c
  BY <1>1, <1>3
<1>7. B = {} => A = IF Head(s).clientId = c THEN {1} ELSE {}
  BY <1>5, <1>6
<1>8. A \in SUBSET (1..Len(s)) /\ B \in SUBSET (1..Len(t)) /\ Len(t) \in Nat
  BY <1>1, <1>3
<1>9. ASSUME B # {} PROVE A # {} /\ s[Max(A)] = t[Max(B)] /\ Max(A) \in A /\ Max(B) \in B
  <2>1. Max(B) \in B /\ \A k \in B : k <= Max(B)
    BY <1>8, <1>9, MaxOfPositions
  <2> DEFINE m == Max(B)
  <2>2. m \in 1..Len(t) /\ m + 1 \in A /\ s[m + 1] = t[m]
    BY <1>4, <2>1
  <2>3. ASSUME NEW i \in A PROVE i <= m + 1
    <3>1. i \in 1..Len(s)
      BY <1>8
    <3>2. CASE i = 1
      BY <2>2, <3>2
    <3>3. CASE i - 1 \in B
      <4>1. i - 1 <= m
        BY <2>1, <3>3
      <4> HIDE DEF m
      <4> QED BY <2>2, <3>1, <4>1
    <3> QED BY <1>5, <3>2, <3>3
  <2> HIDE DEF m
  <2>4. Max(A) = m + 1
    BY <1>1, <1>8, <2>2, <2>3, MaxIs
  <2> QED BY <2>1, <2>2, <2>4 DEF m
<1>10. ASSUME B = {}, A # {} PROVE Max(A) = 1 /\ s[1] = Head(s)
  <2>1. A = {1}
    BY <1>7, <1>10
  <2>2. 1 \in A /\ \A i \in A : i <= 1
    BY <2>1
  <2>3. Max(A) = 1
    BY <1>1, <1>8, <2>2, MaxIs
  <2> QED BY <1>1, <2>3
<1>11. \A i \in A : (i = 1 /\ s[i] = Head(s)) \/ \E k \in B : s[i] = t[k]
  BY <1>1, <1>5
<1> QED BY <1>1, <1>4, <1>6, <1>7, <1>9, <1>10, <1>11 DEF t, A, B

\* What one event makes of a pose.
AfterOne(pose, event) ==
    IF event.event = "clientDisconnected" THEN None
    ELSE IF pose = None THEN SpawnPose ELSE pose

\* Applying the events is applying the first and then the rest.
LEMMA AfterEventsHead ==
    ASSUME NEW S, NEW s \in Seq(S), s # <<>>, NEW c, NEW pose, SpawnPose # None
    PROVE  AfterEvents(pose, s, c) =
              AfterEvents(IF Head(s).clientId = c THEN AfterOne(pose, Head(s)) ELSE pose,
                          Tail(s), c)
<1> DEFINE t == Tail(s)
           A == About(s, c)
           B == About(t, c)
           Gone(e) == e.event = "clientDisconnected"
           first == IF Head(s).clientId = c THEN AfterOne(pose, Head(s)) ELSE pose
           all == AfterEvents(pose, s, c)
           rest == AfterEvents(first, t, c)
<1>1. /\ B = {} => A = IF Head(s).clientId = c THEN {1} ELSE {}
      /\ B # {} => /\ A # {} /\ s[Max(A)] = t[Max(B)]
                   /\ Max(A) \in A /\ Max(B) \in B
      /\ B = {} /\ A # {} => Max(A) = 1 /\ s[1] = Head(s)
      /\ \A i \in A : (i = 1 /\ s[i] = Head(s)) \/ \E k \in B : s[i] = t[k]
      /\ \A k \in B : \E i \in A : s[i] = t[k]
      /\ Head(s).clientId = c => 1 \in A /\ s[1] = Head(s)
  BY AboutTail
<1>2. /\ Leaving(s, c) = {i \in A : Gone(s[i])}
      /\ Leaving(t, c) = {i \in B : Gone(t[i])}
  BY DEF Leaving
<1>3. 1 \in A => Head(s).clientId = c /\ s[1] = Head(s)
  <2>1. Head(s) = s[1]
    BY HeadTailProperties
  <2> QED BY <2>1 DEF About
<1>4. /\ all =
            IF A = {} THEN pose
            ELSE IF Max(A) \in Leaving(s, c) THEN None
            ELSE IF pose = None \/ Leaving(s, c) # {} THEN SpawnPose
            ELSE pose
      /\ rest =
            IF B = {} THEN first
            ELSE IF Max(B) \in Leaving(t, c) THEN None
            ELSE IF first = None \/ Leaving(t, c) # {} THEN SpawnPose
            ELSE first
  BY DEF AfterEvents
<1> HIDE DEF t, A, B, all, rest
<1> SUFFICES all = rest
  BY DEF all, rest, t
<1>5. CASE B = {}
  <2>1. CASE Head(s).clientId = c
    <3>1. A = {1} /\ Max(A) = 1 /\ s[1] = Head(s)
      BY <1>1, <1>5, <2>1
    <3>2. Leaving(s, c) = IF Gone(Head(s)) THEN {1} ELSE {}
      BY <1>2, <3>1
    <3> QED BY <1>4, <1>5, <2>1, <3>1, <3>2 DEF AfterOne
  <2>2. CASE Head(s).clientId # c
    BY <1>1, <1>4, <1>5, <2>2
  <2> QED BY <2>1, <2>2
<1>6. CASE B # {}
  <2>1. Max(A) \in Leaving(s, c) <=> Max(B) \in Leaving(t, c)
    BY <1>1, <1>2, <1>6
  <2>2. Leaving(s, c) # {} <=> \/ Leaving(t, c) # {}
                               \/ Head(s).clientId = c /\ Gone(Head(s))
    BY <1>1, <1>2, <1>3
  <2>3. A # {}
    BY <1>1, <1>6
  <2>4. CASE Head(s).clientId = c
    <3>1. first = AfterOne(pose, Head(s))
      BY <2>4
    <3> HIDE DEF first
    <3> QED BY <1>4, <1>6, <2>1, <2>2, <2>3, <2>4, <3>1 DEF AfterOne
  <2>5. CASE Head(s).clientId # c
    BY <1>4, <1>6, <2>1, <2>2, <2>3, <2>5
  <2> QED BY <2>4, <2>5
<1> QED BY <1>5, <1>6

\* A batch takes effect event by event ...
LEMMA AfterBatchEvent ==
    ASSUME NEW S, NEW events \in Seq(S), events # <<>>, NEW poses, NEW own,
           NEW snapshots, SpawnPose # None, NEW next,
           \A c \in ClientIds : next[c] =
              IF c # own /\ Head(events).clientId = c THEN AfterOne(poses[c], Head(events))
              ELSE poses[c]
    PROVE  AfterBatch(next, own, Tail(events), snapshots)
              = AfterBatch(poses, own, events, snapshots)
<1>1. \A c \in ClientIds : c # own =>
         AfterEvents(next[c], Tail(events), c) = AfterEvents(poses[c], events, c)
  BY AfterEventsHead
<1>2. \A c \in ClientIds : c = own => next[c] = poses[c]
  OBVIOUS
<1> QED BY <1>1, <1>2 DEF AfterBatch

\* ... and then snapshot by snapshot.
LEMMA AfterBatchSnapshot ==
    ASSUME NEW S, NEW snapshots \in Seq(S), snapshots # <<>>, NEW poses, NEW own,
           NEW next,
           \A c \in ClientIds : next[c] =
              IF Head(snapshots).clientId = c THEN Head(snapshots).pose ELSE poses[c]
    PROVE  AfterBatch(next, own, <<>>, Tail(snapshots))
              = AfterBatch(poses, own, <<>>, snapshots)
<1>1. About(<<>>, own) = {} /\ \A c : About(<<>>, c) = {}
  BY DEF About
<1>2. \A c \in ClientIds : /\ AfterEvents(next[c], <<>>, c) = next[c]
                           /\ AfterEvents(poses[c], <<>>, c) = poses[c]
  BY <1>1 DEF AfterEvents
<1>3. /\ AfterBatch(next, own, <<>>, Tail(snapshots)) =
            [c \in ClientIds |->
               IF About(Tail(snapshots), c) # {} THEN LastPose(Tail(snapshots), c)
               ELSE next[c]]
      /\ AfterBatch(poses, own, <<>>, snapshots) =
            [c \in ClientIds |->
               IF About(snapshots, c) # {} THEN LastPose(snapshots, c) ELSE poses[c]]
  BY <1>2 DEF AfterBatch
<1>4. ASSUME NEW c \in ClientIds
      PROVE  (IF About(Tail(snapshots), c) # {} THEN LastPose(Tail(snapshots), c)
              ELSE next[c])
             = (IF About(snapshots, c) # {} THEN LastPose(snapshots, c) ELSE poses[c])
  <2> DEFINE A == About(snapshots, c)
             B == About(Tail(snapshots), c)
  <2>1. /\ B = {} => A = IF Head(snapshots).clientId = c THEN {1} ELSE {}
        /\ B # {} => /\ A # {} /\ snapshots[Max(A)] = Tail(snapshots)[Max(B)]
                     /\ Max(A) \in A /\ Max(B) \in B
        /\ B = {} /\ A # {} => Max(A) = 1 /\ snapshots[1] = Head(snapshots)
        /\ \A i \in A : \/ i = 1 /\ snapshots[i] = Head(snapshots)
                        \/ \E k \in B : snapshots[i] = Tail(snapshots)[k]
        /\ \A k \in B : \E i \in A : snapshots[i] = Tail(snapshots)[k]
        /\ Head(snapshots).clientId = c => 1 \in A /\ snapshots[1] = Head(snapshots)
    BY AboutTail
  <2>2. /\ LastPose(snapshots, c) = snapshots[Max(A)].pose
        /\ LastPose(Tail(snapshots), c) = Tail(snapshots)[Max(B)].pose
    BY DEF LastPose
  <2> HIDE DEF A, B
  <2>3. CASE B # {}
    BY <2>1, <2>2, <2>3 DEF A, B
  <2>4. CASE B = {} /\ Head(snapshots).clientId = c
    <3>1. A # {} /\ snapshots[Max(A)] = Head(snapshots)
      BY <2>1, <2>4
    <3> QED BY <2>2, <2>4, <3>1 DEF A, B
  <2>5. CASE B = {} /\ Head(snapshots).clientId # c
    <3>1. A = {}
      BY <2>1, <2>5
    <3> QED BY <2>5, <3>1 DEF A, B
  <2> QED BY <2>3, <2>4, <2>5
<1> QED BY <1>3, <1>4

\* Nothing comes of an empty batch.
LEMMA AfterNoBatch ==
    ASSUME NEW poses, NEW own, poses = [c \in ClientIds |-> poses[c]]
    PROVE  AfterBatch(poses, own, <<>>, <<>>) = poses
BY DEF AfterBatch, AfterEvents, About
=============================================================================
