------------------------ MODULE NetworkActors_proofs ------------------------
(***************************************************************************)
(* Theorems about the viewer's actor table, for every set of client ids,   *)
(* every set of poses and batches of any length.                           *)
(***************************************************************************)
EXTENDS NetworkActors, SnapshotBatch_proofs

Scenes ==
    [instances : Seq(Instances),
     actorStates : Seq(ActorStates),
     networkActorByClientId : [ClientIds -> Nat \cup {None}],
     playerIndex : Nat,
     lineData : Seq(Poses),
     lineGeometryDirty : BOOLEAN]

\* IndexTableExact, said of any scene.
Indexed(s) ==
    /\ Len(s.instances) = Len(s.actorStates)
    /\ \A c \in ClientIds :
          s.networkActorByClientId[c] # None =>
              /\ s.networkActorByClientId[c] \in 1..Len(s.instances)
              /\ s.instances[s.networkActorByClientId[c]].id = c
    /\ \A i \in 1..Len(s.instances) : s.networkActorByClientId[s.instances[i].id] = i
    /\ s.networkActorByClientId[Own] # None
    /\ s.playerIndex = s.networkActorByClientId[Own]

\* PlayerSpeedFollowsPlayer, said of any scene.
SpeedsFollow(s) ==
    \A i \in 1..Len(s.actorStates) :
        s.actorStates[i].moveSpeed = IF i = s.playerIndex THEN "player" ELSE "sparring"

\* The line geometry is that of the instances.
LinesBuilt(s) == s.lineData = Lines(s.instances)

\* The instances stand where their actors stand.
Placed(s) ==
    \A i \in 1..Len(s.instances) : s.instances[i].transform = s.actorStates[i].current

GoodScene(s) == s \in Scenes /\ Indexed(s) /\ SpeedsFollow(s) /\ LinesBuilt(s)

OwnPose(s) == s.actorStates[s.playerIndex].current

\* A function on 1..n is a sequence of length n.
LEMMA FunctionIsSeq ==
    ASSUME NEW S, NEW n \in Nat, NEW f \in [1..n -> S]
    PROVE  f \in Seq(S) /\ Len(f) = n
<1>1. f \in Seq(S)
  BY SeqDef
<1>2. 1..n = 1..Len(f) /\ Len(f) \in Nat
  BY <1>1, LenProperties
<1> QED BY <1>1, <1>2

\* What RemoveAt does to a sequence.
LEMMA RemoveAtElements ==
    ASSUME NEW S, NEW s \in Seq(S), NEW i \in 1..Len(s)
    PROVE  /\ RemoveAt(s, i) \in Seq(S)
           /\ Len(RemoveAt(s, i)) = Len(s) - 1
           /\ \A j \in 1..(Len(s) - 1) :
                 RemoveAt(s, i)[j] = IF j < i THEN s[j] ELSE s[j + 1]
<1> DEFINE front == SubSeq(s, 1, i - 1)
           back == SubSeq(s, i + 1, Len(s))
<1>1. Len(s) \in Nat /\ \A j \in 1..Len(s) : s[j] \in S
  BY LenProperties
<1>2. /\ front \in Seq(S) /\ Len(front) = i - 1
      /\ \A j \in 1..(i - 1) : front[j] = s[j]
  BY <1>1, SubSeqProperties
<1>3. /\ back \in Seq(S) /\ Len(back) = Len(s) - i
      /\ \A j \in 1..(Len(s) - i) : back[j] = s[i + j]
  BY <1>1, SubSeqProperties
<1> HIDE DEF front, back
<1>4. /\ front \o back \in Seq(S) /\ Len(front \o back) = Len(s) - 1
      /\ \A j \in 1..(Len(s) - 1) : (front \o back)[j] =
            IF j <= i - 1 THEN front[j] ELSE back[j - (i - 1)]
  <2>1. /\ front \o back \in Seq(S) /\ Len(front \o back) = Len(front) + Len(back)
        /\ \A j \in 1..(Len(front) + Len(back)) : (front \o back)[j] =
              IF j <= Len(front) THEN front[j] ELSE back[j - Len(front)]
    BY ONLY <1>2, <1>3, ConcatProperties
  <2>2. Len(front) = i - 1 /\ Len(front) + Len(back) = Len(s) - 1
    BY <1>1, <1>2, <1>3
  <2> QED BY <2>1, <2>2
<1>5. RemoveAt(s, i) = front \o back
  BY DEF RemoveAt, front, back
<1>6. ASSUME NEW j \in 1..(Len(s) - 1)
      PROVE  (front \o back)[j] = IF j < i THEN s[j] ELSE s[j + 1]
  <2>1. CASE j < i
    BY <1>1, <1>2, <1>4, <2>1
  <2>2. CASE ~ (j < i)
    <3>1. j - (i - 1) \in 1..(Len(s) - i) /\ i + (j - (i - 1)) = j + 1
      BY <1>1, <2>2
    <3>2. (front \o back)[j] = back[j - (i - 1)]
      BY <1>1, <1>4, <2>2
    <3> QED BY <1>3, <2>2, <3>1, <3>2
  <2> QED BY <2>1, <2>2
<1> HIDE DEF front, back
<1> QED BY <1>4, <1>5, <1>6

\* The lines of a sequence of instances are a sequence of poses.
LEMMA LinesType ==
    ASSUME NEW instances \in Seq(Instances)
    PROVE  /\ Lines(instances) \in Seq(Poses)
           /\ Len(Lines(instances)) = Len(instances)
           /\ \A i \in 1..Len(instances) : Lines(instances)[i] = instances[i].transform
<1>1. /\ Len(instances) \in Nat /\ DOMAIN instances = 1..Len(instances)
      /\ \A i \in 1..Len(instances) : instances[i] \in Instances
  BY LenProperties
<1>2. Lines(instances) \in [1..Len(instances) -> Poses]
  BY <1>1 DEF Lines, Instances
<1>3. \A i \in 1..Len(instances) : Lines(instances)[i] = instances[i].transform
  BY <1>1 DEF Lines
<1> QED BY <1>1, <1>2, <1>3, FunctionIsSeq

\* Applying the control profile to the actors sets every speed and nothing else.
LEMMA WithProfileActors ==
    ASSUME NEW actors \in Seq(ActorStates), NEW player
    PROVE  /\ WithProfile(actors, player) \in Seq(ActorStates)
           /\ Len(WithProfile(actors, player)) = Len(actors)
           /\ \A i \in 1..Len(actors) :
                 /\ WithProfile(actors, player)[i].current = actors[i].current
                 /\ WithProfile(actors, player)[i].moveSpeed =
                       IF i = player THEN "player" ELSE "sparring"
<1>1. /\ Len(actors) \in Nat /\ DOMAIN actors = 1..Len(actors)
      /\ \A i \in 1..Len(actors) : actors[i] \in ActorStates
  BY LenProperties
<1>2. WithProfile(actors, player) \in [1..Len(actors) -> ActorStates]
  BY <1>1 DEF WithProfile, ActorStates
<1>3. \A i \in 1..Len(actors) :
         /\ WithProfile(actors, player)[i].current = actors[i].current
         /\ WithProfile(actors, player)[i].moveSpeed =
               IF i = player THEN "player" ELSE "sparring"
  BY <1>1 DEF WithProfile, ActorStates
<1> QED BY <1>1, <1>2, <1>3, FunctionIsSeq

\* Creating an actor for a client that has none keeps the table exact.
LEMMA CreateActorGood ==
    ASSUME NEW s, GoodScene(s), NEW c \in ClientIds, s.networkActorByClientId[c] = None
    PROVE  /\ GoodScene(CreateActor(s, c))
           /\ Placed(s) => Placed(CreateActor(s, c))
           /\ CreateActor(s, c).networkActorByClientId[c] # None
           /\ OwnPose(CreateActor(s, c)) = OwnPose(s)
<1> DEFINE q == CreateActor(s, c)
           new == [id |-> c, transform |-> SpawnPose]
           actor == [previous |-> SpawnPose, current |-> SpawnPose, moveSpeed |-> "unset"]
           grown == Append(s.actorStates, actor)
           n == Len(s.instances)
<1>1. /\ s \in Scenes /\ Indexed(s) /\ n \in Nat /\ n > 0
      /\ Len(s.actorStates) = n /\ s.actorStates # <<>>
      /\ s.playerIndex \in 1..n
  BY OwnAssumption DEF GoodScene, Indexed, Scenes
<1>3. new \in Instances /\ actor \in ActorStates /\ new.id = c /\ new.transform = SpawnPose
      /\ actor.current = SpawnPose
  BY SpawnPoseAssumption DEF Instances, ActorStates
<1>2. /\ q.instances = Append(s.instances, new)
      /\ q.actorStates = WithProfile(grown, s.playerIndex)
      /\ q.networkActorByClientId = [s.networkActorByClientId EXCEPT ![c] = n + 1]
      /\ q.playerIndex = s.playerIndex
      /\ q.lineData = Lines(Append(s.instances, new))
      /\ q.lineGeometryDirty = TRUE
      /\ q = [instances |-> q.instances, actorStates |-> q.actorStates,
              networkActorByClientId |-> q.networkActorByClientId,
              playerIndex |-> q.playerIndex, lineData |-> q.lineData,
              lineGeometryDirty |-> q.lineGeometryDirty]
  <2>1. Len(Append(s.instances, new)) = n + 1
    BY <1>1, <1>3, AppendProperties DEF Scenes
  <2> HIDE DEF new, actor
  <2> QED BY <1>1, <2>1 DEF CreateActor, new, actor
<1> HIDE DEF q, new, actor
<1>4. /\ q.instances \in Seq(Instances) /\ Len(q.instances) = n + 1
      /\ \A i \in 1..n : q.instances[i] = s.instances[i]
      /\ q.instances[n + 1] = new
  BY <1>1, <1>2, <1>3, AppendProperties DEF Scenes
<1>5. /\ grown \in Seq(ActorStates) /\ Len(grown) = n + 1
      /\ \A i \in 1..n : grown[i] = s.actorStates[i]
      /\ grown[n + 1] = actor
  BY <1>1, <1>3, AppendProperties DEF Scenes, grown
<1> HIDE DEF grown
<1>6. /\ q.actorStates \in Seq(ActorStates) /\ Len(q.actorStates) = n + 1
      /\ \A i \in 1..(n + 1) :
            /\ q.actorStates[i].moveSpeed = IF i = s.playerIndex THEN "player" ELSE "sparring"
            /\ q.actorStates[i].current = grown[i].current
  BY <1>2, <1>5, WithProfileActors
<1>7. q.lineData = Lines(q.instances) /\ q.lineData \in Seq(Poses)
  BY <1>2, <1>4, LinesType
<1>8. q.networkActorByClientId \in [ClientIds -> Nat \cup {None}]
  BY <1>1, <1>2 DEF Scenes
<1>9. q \in Scenes
  BY <1>1, <1>2, <1>4, <1>6, <1>7, <1>8 DEF Scenes
<1>10. Indexed(q)
  <2>1. \A i \in 1..n : s.instances[i].id \in ClientIds /\ s.instances[i].id # c
    <3>1. \A i \in 1..n : s.instances[i] \in Instances
      BY <1>1, ElementOfSeq DEF Scenes
    <3>2. \A i \in 1..n : s.instances[i].id \in ClientIds
      BY <3>1 DEF Instances
    <3> QED BY <1>1, <3>2, NoneAssumption DEF Indexed
  <2>2. \A d \in ClientIds : q.networkActorByClientId[d] =
           IF d = c THEN n + 1 ELSE s.networkActorByClientId[d]
    BY <1>1, <1>2 DEF Scenes
  <2>3. \A i \in 1..(n + 1) : q.networkActorByClientId[q.instances[i].id] = i
    <3> SUFFICES ASSUME NEW i \in 1..(n + 1)
                 PROVE  q.networkActorByClientId[q.instances[i].id] = i
      OBVIOUS
    <3>1. CASE i = n + 1
      <4>1. q.instances[i].id = c
        BY <1>3, <1>4, <3>1
      <4> QED BY <2>2, <3>1, <4>1
    <3>2. CASE i # n + 1
      <4>1. i \in 1..n
        BY <1>1, <3>2
      <4>2. q.instances[i] = s.instances[i]
        BY <1>4, <4>1
      <4>3. s.networkActorByClientId[s.instances[i].id] = i
        BY <1>1, <4>1 DEF Indexed
      <4> QED BY <2>1, <2>2, <4>1, <4>2, <4>3
    <3> QED BY <3>1, <3>2
  <2>4. \A d \in ClientIds :
           q.networkActorByClientId[d] # None =>
              /\ q.networkActorByClientId[d] \in 1..(n + 1)
              /\ q.instances[q.networkActorByClientId[d]].id = d
    <3> SUFFICES ASSUME NEW d \in ClientIds, q.networkActorByClientId[d] # None
                 PROVE  /\ q.networkActorByClientId[d] \in 1..(n + 1)
                        /\ q.instances[q.networkActorByClientId[d]].id = d
      OBVIOUS
    <3>1. CASE d = c
      <4>1. q.networkActorByClientId[d] = n + 1
        BY <2>2, <3>1
      <4> QED BY <1>1, <1>3, <1>4, <3>1, <4>1
    <3>2. CASE d # c
      <4> DEFINE i == s.networkActorByClientId[d]
      <4>1. q.networkActorByClientId[d] = i
        BY <2>2, <3>2
      <4>2. i \in 1..n /\ s.instances[i].id = d
        BY <1>1, <4>1 DEF Indexed
      <4> HIDE DEF i
      <4>3. i \in 1..(n + 1) /\ q.instances[i] = s.instances[i]
        BY <1>1, <1>4, <4>2
      <4> QED BY <4>1, <4>2, <4>3
    <3> QED BY <3>1, <3>2
  <2>5. Own # c
    BY <1>1 DEF Indexed
  <2> QED BY <1>1, <1>2, <1>4, <1>6, <2>2, <2>3, <2>4, <2>5, OwnAssumption DEF Indexed
<1>11. Placed(s) => Placed(q)
  <2> SUFFICES ASSUME Placed(s), NEW i \in 1..(n + 1)
               PROVE  q.instances[i].transform = q.actorStates[i].current
    BY <1>4 DEF Placed
  <2>1. q.actorStates[i].current = grown[i].current
    BY <1>6
  <2>2. CASE i = n + 1
    BY <1>3, <1>4, <1>5, <2>1, <2>2
  <2>3. CASE i # n + 1
    <3>1. i \in 1..n
      BY <1>1, <2>3
    <3>2. q.instances[i] = s.instances[i] /\ grown[i] = s.actorStates[i]
      BY <1>4, <1>5, <3>1
    <3>3. s.instances[i].transform = s.actorStates[i].current
      BY <3>1 DEF Placed
    <3> QED BY <2>1, <3>2, <3>3
  <2> QED BY <2>2, <2>3
<1>12. q.networkActorByClientId[c] # None
  BY <1>1, <1>2, NoneAssumption DEF Scenes
<1>13. OwnPose(q) = OwnPose(s)
  BY <1>1, <1>2, <1>5, <1>6 DEF OwnPose
<1> QED BY <1>2, <1>6, <1>7, <1>9, <1>10, <1>11, <1>12, <1>13
           DEF GoodScene, SpeedsFollow, LinesBuilt, q

\* Erasing an actor keeps the table exact: every index above the gap has moved.
LEMMA RemoveActorGood ==
    ASSUME NEW s, GoodScene(s), NEW c \in ClientIds
    PROVE  /\ GoodScene(RemoveActor(s, c))
           /\ Placed(s) => Placed(RemoveActor(s, c))
           /\ OwnPose(RemoveActor(s, c)) = OwnPose(s)
<1>1. CASE c = Own \/ s.networkActorByClientId[c] = None
  BY <1>1 DEF RemoveActor
<1>2. CASE c # Own /\ s.networkActorByClientId[c] # None
  <2> DEFINE q == RemoveActor(s, c)
             gap == s.networkActorByClientId[c]
             n == Len(s.instances)
             Shifted(i) == IF i > gap THEN i - 1 ELSE i
  <2>1. /\ s \in Scenes /\ Indexed(s) /\ SpeedsFollow(s) /\ n \in Nat
        /\ Len(s.actorStates) = n /\ gap \in 1..n /\ s.instances[gap].id = c
        /\ s.playerIndex = s.networkActorByClientId[Own] /\ s.playerIndex \in 1..n
        /\ s.instances[s.playerIndex].id = Own
    BY <1>2, OwnAssumption DEF GoodScene, Indexed, Scenes
  <2>2. /\ q.instances = RemoveAt(s.instances, gap)
        /\ q.actorStates = RemoveAt(s.actorStates, gap)
        /\ q.networkActorByClientId =
              [d \in ClientIds |->
                 IF d = c \/ s.networkActorByClientId[d] = None THEN None
                 ELSE Shifted(s.networkActorByClientId[d])]
        /\ q.playerIndex = Shifted(s.playerIndex)
        /\ q.lineData = Lines(q.instances)
        /\ q.lineGeometryDirty = TRUE
        /\ q = [instances |-> q.instances, actorStates |-> q.actorStates,
                networkActorByClientId |-> q.networkActorByClientId,
                playerIndex |-> q.playerIndex, lineData |-> q.lineData,
                lineGeometryDirty |-> q.lineGeometryDirty]
    BY <1>2 DEF RemoveActor
  <2> HIDE DEF q
  <2>3. /\ q.instances \in Seq(Instances) /\ Len(q.instances) = n - 1
        /\ \A j \in 1..(n - 1) :
              q.instances[j] = IF j < gap THEN s.instances[j] ELSE s.instances[j + 1]
    BY <2>1, <2>2, RemoveAtElements DEF Scenes
  <2>4. /\ q.actorStates \in Seq(ActorStates) /\ Len(q.actorStates) = n - 1
        /\ \A j \in 1..(n - 1) : q.actorStates[j] =
              IF j < gap THEN s.actorStates[j] ELSE s.actorStates[j + 1]
    <3>1. s.actorStates \in Seq(ActorStates) /\ gap \in 1..Len(s.actorStates)
      BY <2>1 DEF Scenes
    <3> HIDE DEF gap
    <3>2. \A j \in 1..(n - 1) : RemoveAt(s.actorStates, gap)[j] =
              IF j < gap THEN s.actorStates[j] ELSE s.actorStates[j + 1]
      BY <2>1, <3>1, RemoveAtElements
    <3>3. /\ RemoveAt(s.actorStates, gap) \in Seq(ActorStates)
          /\ Len(RemoveAt(s.actorStates, gap)) = n - 1
      BY <2>1, <3>1, RemoveAtElements
    <3> QED BY <2>2, <3>2, <3>3
  <2>5. \A d \in ClientIds : s.networkActorByClientId[d] # None =>
           /\ s.networkActorByClientId[d] \in 1..n
           /\ s.instances[s.networkActorByClientId[d]].id = d
    BY <2>1 DEF Indexed
  <2>6. \A i \in 1..n : /\ s.instances[i].id \in ClientIds
                        /\ s.networkActorByClientId[s.instances[i].id] = i
                        /\ i # gap => s.instances[i].id # c
    <3>1. \A i \in 1..n : s.instances[i] \in Instances
      BY <2>1, ElementOfSeq DEF Scenes
    <3> QED BY <2>1, <3>1 DEF Indexed, Instances
  <2>7. \A d \in ClientIds :
           q.networkActorByClientId[d] # None =>
              /\ d # c /\ s.networkActorByClientId[d] # None
              /\ s.networkActorByClientId[d] \in 1..n
              /\ s.networkActorByClientId[d] # gap
              /\ q.networkActorByClientId[d] = Shifted(s.networkActorByClientId[d])
    BY <2>1, <2>2, <2>5
  <2>8. \A i \in 1..n : i # gap => /\ Shifted(i) \in 1..(n - 1)
                                   /\ q.instances[Shifted(i)] = s.instances[i]
    <3> SUFFICES ASSUME NEW i \in 1..n, i # gap
                 PROVE  /\ Shifted(i) \in 1..(n - 1)
                        /\ q.instances[Shifted(i)] = s.instances[i]
      OBVIOUS
    <3>1. CASE i < gap
      <4>1. i \in 1..(n - 1) /\ Shifted(i) = i
        BY <2>1, <3>1
      <4> QED BY <2>3, <3>1, <4>1
    <3>2. CASE i > gap
      <4>1. i - 1 \in 1..(n - 1) /\ Shifted(i) = i - 1 /\ ~ (i - 1 < gap) /\ (i - 1) + 1 = i
        BY <2>1, <3>2
      <4> QED BY <2>3, <4>1
    <3> QED BY <2>1, <3>1, <3>2
  <2>9. \A d \in ClientIds :
           q.networkActorByClientId[d] # None =>
              /\ q.networkActorByClientId[d] \in 1..(n - 1)
              /\ q.instances[q.networkActorByClientId[d]].id = d
    <3> HIDE DEF gap, Shifted
    <3> QED BY <2>5, <2>7, <2>8
  <2>10. \A j \in 1..(n - 1) : q.networkActorByClientId[q.instances[j].id] = j
    <3> SUFFICES ASSUME NEW j \in 1..(n - 1)
                 PROVE  q.networkActorByClientId[q.instances[j].id] = j
      OBVIOUS
    <3>1. PICK i \in 1..n : i # gap /\ Shifted(i) = j /\ q.instances[j] = s.instances[i]
      <4>1. CASE j < gap
        BY <2>1, <2>3, <4>1
      <4>2. CASE ~ (j < gap)
        <5>1. j + 1 \in 1..n /\ j + 1 # gap /\ Shifted(j + 1) = j
          BY <2>1, <4>2
        <5> QED BY <2>3, <4>2, <5>1
      <4> QED BY <4>1, <4>2
    <3>2. s.instances[i].id \in ClientIds /\ s.networkActorByClientId[s.instances[i].id] = i
      BY <2>1, <2>6, <3>1
    <3>4. s.instances[i].id # c
      BY <2>1, <2>6, <3>1
    <3> HIDE DEF Shifted, gap
    <3>3. i # None
      BY <2>1, <3>1, NoneAssumption
    <3> QED BY <2>2, <3>1, <3>2, <3>3, <3>4
  <2>11. /\ s.playerIndex # gap /\ s.playerIndex # None
         /\ q.networkActorByClientId[Own] = Shifted(s.playerIndex)
         /\ q.playerIndex \in 1..(n - 1)
    <3>1. s.playerIndex # gap /\ s.playerIndex # None
      BY <1>2, <2>1, NoneAssumption
    <3>2. Shifted(s.playerIndex) \in 1..(n - 1)
      BY <2>1, <2>8, <3>1
    <3> HIDE DEF gap, Shifted
    <3> QED BY <1>2, <2>1, <2>2, <3>1, <3>2, OwnAssumption
  <2>12. q.networkActorByClientId \in [ClientIds -> Nat \cup {None}]
    <3>1. \A d \in ClientIds : q.networkActorByClientId[d] \in Nat \cup {None}
      BY <2>1, <2>9
    <3> HIDE DEF gap, Shifted
    <3> QED BY <2>2, <3>1
  <2>13. q.lineData \in Seq(Poses)
    BY <2>2, <2>3, LinesType
  <2>14. q \in Scenes
    <3>1. q.playerIndex \in Nat
      BY <2>1, <2>11
    <3> HIDE DEF gap, Shifted
    <3> QED BY <2>2, <2>3, <2>4, <2>12, <2>13, <3>1 DEF Scenes
  <2>15. Indexed(q)
    <3>1. q.networkActorByClientId[Own] # None
      BY <2>1, <2>2, <2>11, NoneAssumption
    <3> HIDE DEF gap, Shifted
    <3> QED BY <2>2, <2>3, <2>4, <2>9, <2>10, <2>11, <3>1 DEF Indexed
  <2>16. SpeedsFollow(q)
    <3> SUFFICES ASSUME NEW j \in 1..(n - 1)
                 PROVE  q.actorStates[j].moveSpeed =
                           IF j = q.playerIndex THEN "player" ELSE "sparring"
      BY <2>4 DEF SpeedsFollow
    <3> DEFINE i == IF j < gap THEN j ELSE j + 1
    <3>1. i \in 1..n /\ q.actorStates[j] = s.actorStates[i]
      BY <2>1, <2>4
    <3>2. (i = s.playerIndex) <=> (j = q.playerIndex)
      BY <2>1, <2>2, <2>11
    <3> HIDE DEF i, gap
    <3> QED BY <2>1, <3>1, <3>2 DEF SpeedsFollow
  <2>17. Placed(s) => Placed(q)
    <3> SUFFICES ASSUME Placed(s), NEW j \in 1..(n - 1)
                 PROVE  q.instances[j].transform = q.actorStates[j].current
      BY <2>3 DEF Placed
    <3>1. CASE j < gap
      <4>1. j \in 1..n
        BY <2>1
      <4>2. s.instances[j].transform = s.actorStates[j].current
        BY <2>1, <4>1 DEF Placed
      <4>3. q.instances[j] = s.instances[j] /\ q.actorStates[j] = s.actorStates[j]
        BY <2>1, <2>3, <2>4, <3>1
      <4> QED BY <4>2, <4>3
    <3>2. CASE ~ (j < gap)
      <4>1. j + 1 \in 1..n
        BY <2>1
      <4>2. s.instances[j + 1].transform = s.actorStates[j + 1].current
        BY <2>1, <4>1 DEF Placed
      <4>3. q.instances[j] = s.instances[j + 1] /\ q.actorStates[j] = s.actorStates[j + 1]
        BY <2>1, <2>3, <2>4, <3>2
      <4> QED BY <4>2, <4>3
    <3> QED BY <3>1, <3>2
  <2>18. OwnPose(q) = OwnPose(s)
    <3>1. CASE s.playerIndex < gap
      BY <2>1, <2>2, <2>4, <3>1 DEF OwnPose
    <3>2. CASE s.playerIndex > gap
      <4>1. /\ q.playerIndex = s.playerIndex - 1 /\ s.playerIndex - 1 \in 1..(n - 1)
            /\ ~ (s.playerIndex - 1 < gap) /\ (s.playerIndex - 1) + 1 = s.playerIndex
        BY <2>1, <2>2, <3>2
      <4> QED BY <2>4, <4>1 DEF OwnPose
    <3> QED BY <2>1, <2>11, <3>1, <3>2
  <2> QED BY <2>2, <2>14, <2>15, <2>16, <2>17, <2>18 DEF GoodScene, LinesBuilt, q
<1> QED BY <1>1, <1>2

\* Copying the actors' transforms into the instances puts the instances in place.
LEMMA SyncedGood ==
    ASSUME NEW s, GoodScene(s)
    PROVE  /\ GoodScene(Synced(s)) /\ Placed(Synced(s))
           /\ Synced(s).lineGeometryDirty = TRUE
           /\ OwnPose(Synced(s)) = OwnPose(s)
<1> DEFINE q == Synced(s)
           n == Len(s.instances)
<1>1. /\ s \in Scenes /\ Indexed(s) /\ SpeedsFollow(s) /\ n \in Nat
      /\ Len(s.actorStates) = n /\ DOMAIN s.instances = 1..n
  BY LenProperties DEF GoodScene, Indexed, Scenes
<1>2. /\ \A i \in 1..n : s.instances[i] \in Instances
      /\ \A i \in 1..n : s.actorStates[i] \in ActorStates
  BY <1>1, ElementOfSeq DEF Scenes
<1>3. /\ q.instances = [i \in 1..n |->
                          [s.instances[i] EXCEPT !.transform = s.actorStates[i].current]]
      /\ q.actorStates = s.actorStates
      /\ q.networkActorByClientId = s.networkActorByClientId
      /\ q.playerIndex = s.playerIndex
      /\ q.lineData = Lines(q.instances)
      /\ q.lineGeometryDirty = TRUE
      /\ q = [instances |-> q.instances, actorStates |-> q.actorStates,
              networkActorByClientId |-> q.networkActorByClientId,
              playerIndex |-> q.playerIndex, lineData |-> q.lineData,
              lineGeometryDirty |-> q.lineGeometryDirty]
  <2> DEFINE instances == [i \in DOMAIN s.instances |->
                    [s.instances[i] EXCEPT !.transform = s.actorStates[i].current]]
  <2>1. q = [s EXCEPT !.instances = instances, !.lineData = Lines(instances),
                      !.lineGeometryDirty = TRUE]
    BY DEF Synced
  <2>2. instances = [i \in 1..n |->
                          [s.instances[i] EXCEPT !.transform = s.actorStates[i].current]]
    BY <1>1
  <2> HIDE DEF instances, q
  <2> QED BY <1>1, <2>1, <2>2 DEF Scenes
<1> HIDE DEF q
<1>4. q.instances \in [1..n -> Instances]
  BY <1>2, <1>3 DEF Instances, ActorStates
<1>5. /\ q.instances \in Seq(Instances) /\ Len(q.instances) = n
  BY <1>1, <1>4, FunctionIsSeq
<1>6. \A i \in 1..n : /\ q.instances[i].id = s.instances[i].id
                      /\ q.instances[i].transform = s.actorStates[i].current
  BY <1>2, <1>3 DEF Instances
<1>7. q.lineData \in Seq(Poses)
  BY <1>3, <1>5, LinesType
<1>8. q \in Scenes
  BY <1>1, <1>3, <1>5, <1>7 DEF Scenes
<1>9. Indexed(q) /\ SpeedsFollow(q) /\ LinesBuilt(q) /\ Placed(q)
  BY <1>1, <1>3, <1>5, <1>6 DEF Indexed, SpeedsFollow, LinesBuilt, Placed
<1> QED BY <1>3, <1>8, <1>9 DEF GoodScene, OwnPose, q

\* A change of the actors that keeps their number and their speeds keeps the
\* table exact.
LEMMA ActorsMoved ==
    ASSUME NEW s, GoodScene(s), NEW q, NEW actors \in [1..Len(s.instances) -> ActorStates],
           q = [s EXCEPT !.actorStates = actors],
           \A i \in 1..Len(s.instances) : actors[i].moveSpeed = s.actorStates[i].moveSpeed
    PROVE  GoodScene(q)
<1> DEFINE n == Len(s.instances)
<1>1. /\ s \in Scenes /\ Indexed(s) /\ SpeedsFollow(s) /\ LinesBuilt(s) /\ n \in Nat
      /\ Len(s.actorStates) = n
  BY LenProperties DEF GoodScene, Indexed, Scenes
<1>2. actors \in Seq(ActorStates) /\ Len(actors) = n
  BY <1>1, FunctionIsSeq
<1>3. /\ q.instances = s.instances /\ q.actorStates = actors
      /\ q.networkActorByClientId = s.networkActorByClientId
      /\ q.playerIndex = s.playerIndex /\ q.lineData = s.lineData
      /\ q.lineGeometryDirty = s.lineGeometryDirty
      /\ q \in Scenes
  BY <1>1, <1>2 DEF Scenes
<1> QED BY <1>1, <1>2, <1>3 DEF GoodScene, Indexed, SpeedsFollow, LinesBuilt

\* Applying a snapshot to an actor there is keeps the table exact.
LEMMA ShowSnapshotGood ==
    ASSUME NEW s, GoodScene(s), NEW c \in ClientIds, s.networkActorByClientId[c] # None,
           NEW pose \in Poses
    PROVE  /\ GoodScene(ShowSnapshot(s, c, pose))
           /\ c # Own => OwnPose(ShowSnapshot(s, c, pose)) = OwnPose(s)
<1> DEFINE n == Len(s.instances)
           index == s.networkActorByClientId[c]
           actor == s.actorStates[index]
           moved == [actor EXCEPT !.previous = actor.current, !.current = pose]
           actors == [s.actorStates EXCEPT ![index] = moved]
<1>1. /\ s \in Scenes /\ n \in Nat /\ Len(s.actorStates) = n /\ index \in 1..n
      /\ DOMAIN s.actorStates = 1..n
  BY LenProperties DEF GoodScene, Indexed, Scenes
<1>2. \A i \in 1..n : s.actorStates[i] \in ActorStates
  BY <1>1, ElementOfSeq DEF Scenes
<1>3. moved \in ActorStates /\ moved.moveSpeed = actor.moveSpeed
  BY <1>1, <1>2 DEF ActorStates
<1>4. s.actorStates \in [1..n -> ActorStates]
  BY <1>1, <1>2, SeqDef DEF Scenes
<1>5. ShowSnapshot(s, c, pose) = [s EXCEPT !.actorStates = actors]
  BY <1>1 DEF ShowSnapshot, Scenes
<1> HIDE DEF moved
<1>6. /\ actors \in [1..n -> ActorStates]
      /\ \A i \in 1..n : actors[i].moveSpeed = s.actorStates[i].moveSpeed
  BY <1>1, <1>2, <1>3, <1>4
<1>7. c # Own => /\ s.playerIndex \in 1..n /\ s.playerIndex # index
                 /\ actors[s.playerIndex] = s.actorStates[s.playerIndex]
  BY <1>1, OwnAssumption DEF GoodScene, Indexed
<1> HIDE DEF actors
<1>8. /\ ShowSnapshot(s, c, pose).actorStates = actors
      /\ ShowSnapshot(s, c, pose).playerIndex = s.playerIndex
  BY <1>1, <1>5 DEF Scenes
<1> QED BY <1>5, <1>6, <1>7, <1>8, ActorsMoved DEF OwnPose

\* A fixed tick keeps the table exact.
LEMMA TickedGood ==
    ASSUME NEW s, GoodScene(s), NEW pose \in Poses
    PROVE  /\ GoodScene(Ticked(s, pose))
           /\ Ticked(s, pose).lineGeometryDirty = s.lineGeometryDirty
           /\ Ticked(s, pose).lineData = s.lineData
           /\ pose = OwnPose(s) /\ Placed(s) => Placed(Ticked(s, pose))
<1> DEFINE n == Len(s.instances)
           actors == [i \in 1..n |->
                        [s.actorStates[i] EXCEPT
                            !.previous = s.actorStates[i].current,
                            !.current = IF i = s.playerIndex THEN pose ELSE @]]
<1>1. /\ s \in Scenes /\ n \in Nat /\ Len(s.actorStates) = n /\ DOMAIN s.actorStates = 1..n
  BY LenProperties DEF GoodScene, Indexed, Scenes
<1>2. \A i \in 1..n : s.actorStates[i] \in ActorStates
  BY <1>1, ElementOfSeq DEF Scenes
<1>3. /\ actors \in [1..n -> ActorStates]
      /\ \A i \in 1..n : actors[i].moveSpeed = s.actorStates[i].moveSpeed
  BY <1>2 DEF ActorStates
<1>4. Ticked(s, pose) = [s EXCEPT !.actorStates = actors]
  BY <1>1 DEF Ticked
<1>5. pose = OwnPose(s) => \A i \in 1..n : actors[i].current = s.actorStates[i].current
  BY <1>2 DEF ActorStates, OwnPose
<1> HIDE DEF actors
<1>6. /\ Ticked(s, pose).lineGeometryDirty = s.lineGeometryDirty
      /\ Ticked(s, pose).lineData = s.lineData
      /\ Ticked(s, pose).instances = s.instances
      /\ Ticked(s, pose).actorStates = actors
  BY <1>1, <1>4 DEF Scenes
<1> QED BY <1>3, <1>4, <1>5, <1>6, ActorsMoved DEF Placed
-----------------------------------------------------------------------------
\* The inductive invariant.  The instances stand where their actors stand except
\* between a snapshot of the pump and its end; the uploaded lines are the scene's
\* unless these are marked dirty, and drawFrame leaves nothing dirty.
ActorsInv ==
    /\ GoodScene(scene)
    /\ batch \in [events : Seq(EventPackets), snapshots : Seq(SnapshotPackets),
                  applied : BOOLEAN]
    /\ phase \in {"poll", "pump", "simulate", "draw"}
    /\ networkTransformApplied \in BOOLEAN
    /\ lineBuffer \in Seq(Poses)
    /\ ~ scene.lineGeometryDirty => lineBuffer = scene.lineData
    /\ phase = "poll" => ~ scene.lineGeometryDirty
    /\ Placed(scene) \/ (phase = "pump" /\ batch.applied)

\* One event of the batch keeps the table exact and moves no actor.
LEMMA AfterEventGood ==
    ASSUME NEW s, GoodScene(s), NEW event \in EventPackets
    PROVE  /\ GoodScene(AfterEvent(s, event))
           /\ Placed(s) => Placed(AfterEvent(s, event))
           /\ OwnPose(AfterEvent(s, event)) = OwnPose(s)
<1>1. event.clientId \in ClientIds
  BY DEF EventPackets
<1> QED BY <1>1, RemoveActorGood, CreateActorGood DEF AfterEvent, EnsureActor

\* A scene an event changes has dirty lines.
LEMMA AfterEventDirty ==
    ASSUME NEW s, GoodScene(s), NEW event \in EventPackets
    PROVE  AfterEvent(s, event) = s \/ AfterEvent(s, event).lineGeometryDirty
<1>1. s.actorStates # <<>>
  BY OwnAssumption DEF GoodScene, Indexed, Scenes
<1> QED BY <1>1 DEF AfterEvent, EnsureActor, RemoveActor, CreateActor

\* Ensuring an actor gives the client one.
LEMMA EnsureActorGood ==
    ASSUME NEW s, GoodScene(s), NEW c \in ClientIds
    PROVE  /\ GoodScene(EnsureActor(s, c))
           /\ EnsureActor(s, c).networkActorByClientId[c] # None
           /\ OwnPose(EnsureActor(s, c)) = OwnPose(s)
           /\ EnsureActor(s, c) = s \/ EnsureActor(s, c).lineGeometryDirty
<1>1. s.actorStates # <<>>
  BY OwnAssumption DEF GoodScene, Indexed, Scenes
<1>2. CreateActor(s, c).lineGeometryDirty
  BY <1>1 DEF CreateActor
<1> QED BY <1>2, CreateActorGood DEF EnsureActor

\* The constructor leaves the own actor, in place, with its lines uploaded.
LEMMA InitialSceneGood ==
    ActorsInit => ActorsInv
<1> DEFINE own == [id |-> Own, transform |-> SpawnPose]
           actor == [previous |-> SpawnPose, current |-> SpawnPose, moveSpeed |-> "player"]
           s == InitialScene
<1>1. own \in Instances /\ actor \in ActorStates
  BY OwnAssumption, SpawnPoseAssumption DEF Instances, ActorStates
<1>2. /\ s.instances = <<own>> /\ s.actorStates = <<actor>> /\ s.playerIndex = 1
      /\ s.networkActorByClientId = [c \in ClientIds |-> IF c = Own THEN 1 ELSE None]
      /\ s.lineData = <<SpawnPose>> /\ s.lineGeometryDirty = FALSE
  BY DEF InitialScene
<1>3. /\ <<own>> \in Seq(Instances) /\ Len(<<own>>) = 1 /\ <<own>>[1] = own
      /\ <<actor>> \in Seq(ActorStates) /\ Len(<<actor>>) = 1 /\ <<actor>>[1] = actor
      /\ <<SpawnPose>> \in Seq(Poses)
  BY <1>1, SpawnPoseAssumption
<1>4. Lines(<<own>>) = <<SpawnPose>>
  BY DEF Lines
<1>5. s \in Scenes
  BY <1>3 DEF Scenes, InitialScene
<1>6. Indexed(s) /\ SpeedsFollow(s) /\ LinesBuilt(s) /\ Placed(s)
  <2> HIDE DEF s
  <2>1. /\ own.id = Own /\ own.transform = SpawnPose /\ actor.current = SpawnPose
        /\ actor.moveSpeed = "player"
    OBVIOUS
  <2> HIDE DEF own, actor
  <2>2. Indexed(s)
    BY <1>2, <1>3, <2>1, OwnAssumption, NoneAssumption DEF Indexed
  <2>3. SpeedsFollow(s) /\ Placed(s)
    BY <1>2, <1>3, <2>1 DEF SpeedsFollow, Placed
  <2> QED BY <1>2, <1>4, <2>2, <2>3 DEF LinesBuilt
<1> HIDE DEF s
<1>7. NoBatch \in [events : Seq(EventPackets), snapshots : Seq(SnapshotPackets),
                   applied : BOOLEAN]
  BY DEF NoBatch
<1> QED BY <1>2, <1>3, <1>5, <1>6, <1>7 DEF ActorsInit, ActorsInv, GoodScene, s

\* receive sorts what it drains: events into the one vector, the snapshots of others
\* into the other.
LEMMA BatchTyped ==
    ASSUME NEW d \in Datagrams
    PROVE  /\ EventsIn(d) \in Seq(EventPackets)
           /\ SnapshotsIn(d, Own) \in Seq(SnapshotPackets)
           /\ SnapshotsIn(d, Own) \in Seq({p \in SnapshotPackets : p.clientId # Own})
<1> DEFINE Received == EventPackets \cup SnapshotPackets \cup OtherPackets
           Others == {p \in SnapshotPackets : p.clientId # Own}
           P == {i \in DOMAIN d : d[i].kind = "serverEvent"}
           Q == {i \in DOMAIN d : d[i].kind = "snapshot" /\ d[i].clientId # Own}
<1>1. d \in Seq(Received)
  BY DatagramsAssumption
<1>2. /\ DOMAIN d = 1..Len(d) /\ Len(d) \in Nat
      /\ \A i \in 1..Len(d) : d[i] \in Received
  BY <1>1, LenProperties, ElementOfSeq
<1>3. \A i \in 1..Len(d) : /\ d[i].kind = "serverEvent" => d[i] \in EventPackets
                           /\ d[i].kind = "snapshot" => d[i] \in SnapshotPackets
  BY <1>2 DEF EventPackets, SnapshotPackets, OtherPackets
<1>4. /\ P \in SUBSET (1..Len(d)) /\ \A i \in P : d[i] \in EventPackets
      /\ Q \in SUBSET (1..Len(d))
      /\ \A i \in Q : d[i] \in SnapshotPackets /\ d[i] \in Others
  BY <1>2, <1>3
<1>5. EventsIn(d) = Kept(d, P) /\ SnapshotsIn(d, Own) = Kept(d, Q)
  BY DEF EventsIn, SnapshotsIn
<1> HIDE DEF P, Q, Received, Others
<1>6. Kept(d, P) \in Seq(EventPackets)
  BY <1>1, <1>4, KeptIn
<1>7. Kept(d, Q) \in Seq(SnapshotPackets)
  BY <1>1, <1>4, KeptIn
<1>8. Kept(d, Q) \in Seq(Others)
  BY <1>1, <1>4, KeptIn
<1> QED BY <1>5, <1>6, <1>7, <1>8 DEF Others

\* Every step of a frame preserves the invariant.
LEMMA ActorsInvStep ==
    ActorsInv /\ [ActorsNext]_actorVars => ActorsInv'
<1> SUFFICES ASSUME ActorsInv, [ActorsNext]_actorVars PROVE ActorsInv'
  OBVIOUS
<1> USE DEF ActorsInv
<1>1. ASSUME NEW d \in Datagrams, Receive(d) PROVE ActorsInv'
  <2>1. EventsIn(d) \in Seq(EventPackets) /\ SnapshotsIn(d, Own) \in Seq(SnapshotPackets)
    BY BatchTyped
  <2> QED BY <1>1, <2>1 DEF Receive
<1>2. CASE HandleEvent
  <2>1. /\ Head(batch.events) \in EventPackets
        /\ Tail(batch.events) \in Seq(EventPackets)
    BY <1>2, HeadTailProperties DEF HandleEvent
  <2>2. /\ GoodScene(scene')
        /\ Placed(scene) => Placed(scene')
        /\ scene' = scene \/ scene'.lineGeometryDirty
    BY <1>2, <2>1, AfterEventGood, AfterEventDirty DEF HandleEvent
  <2>3. batch'.applied = batch.applied
        /\ batch' \in [events : Seq(EventPackets), snapshots : Seq(SnapshotPackets),
                       applied : BOOLEAN]
    BY <1>2, <2>1 DEF HandleEvent
  <2>4. /\ phase = "pump" /\ phase' = "pump"
        /\ networkTransformApplied' = networkTransformApplied
        /\ lineBuffer' = lineBuffer
    BY <1>2 DEF HandleEvent
  <2>5. ~ scene'.lineGeometryDirty => scene' = scene
    BY <2>2
  <2>6. Placed(scene') \/ (phase' = "pump" /\ batch'.applied)
    BY <2>2, <2>3, <2>4
  <2> QED BY <2>2, <2>3, <2>4, <2>5, <2>6
<1>3. CASE HandleSnapshot
  <2> DEFINE p == Head(batch.snapshots)
             s == EnsureActor(scene, p.clientId)
  <2>1. /\ p \in SnapshotPackets
        /\ Tail(batch.snapshots) \in Seq(SnapshotPackets)
    BY <1>3, HeadTailProperties DEF HandleSnapshot
  <2>2. p.clientId \in ClientIds /\ p.pose \in Poses
    BY <2>1 DEF SnapshotPackets
  <2>3. scene' = ShowSnapshot(s, p.clientId, p.pose)
    BY <1>3 DEF HandleSnapshot
  <2>4. /\ batch'.applied = TRUE
        /\ batch' \in [events : Seq(EventPackets), snapshots : Seq(SnapshotPackets),
                       applied : BOOLEAN]
    BY <1>3, <2>1 DEF HandleSnapshot
  <2> HIDE DEF p
  <2>5. /\ GoodScene(s) /\ s.networkActorByClientId[p.clientId] # None
        /\ s = scene \/ s.lineGeometryDirty
    BY <2>2, EnsureActorGood
  <2> HIDE DEF s
  <2>6. GoodScene(scene')
    BY <2>2, <2>3, <2>5, ShowSnapshotGood
  <2>7. scene'.lineGeometryDirty = s.lineGeometryDirty /\ scene'.lineData = s.lineData
    <3>1. s \in Scenes
      BY <2>5 DEF GoodScene
    <3> QED BY <2>3, <3>1 DEF ShowSnapshot, Scenes
  <2> QED BY <1>3, <2>4, <2>5, <2>6, <2>7 DEF HandleSnapshot
<1>4. CASE EndPump
  <2>1. NoBatch \in [events : Seq(EventPackets), snapshots : Seq(SnapshotPackets),
                     applied : BOOLEAN]
    BY DEF NoBatch
  <2>2. CASE batch.applied
    BY <1>4, <2>1, <2>2, SyncedGood DEF EndPump
  <2>3. CASE ~ batch.applied
    BY <1>4, <2>1, <2>3 DEF EndPump
  <2> QED BY <2>2, <2>3
<1>5. CASE SimulateNoTick
  BY <1>5 DEF SimulateNoTick
<1>6. ASSUME NEW pose \in Poses, SimulateTicks(pose) PROVE ActorsInv'
  <2> DEFINE ticked == Ticked(scene, pose)
             moved == pose # OwnPose(scene) \/ networkTransformApplied
  <2>1. /\ GoodScene(ticked) /\ ticked.lineGeometryDirty = scene.lineGeometryDirty
        /\ ticked.lineData = scene.lineData
        /\ ~ moved => Placed(ticked)
    BY <1>6, TickedGood DEF SimulateTicks
  <2>2. scene' = IF moved THEN Synced(ticked) ELSE ticked
    BY <1>6 DEF SimulateTicks, OwnPose
  <2> HIDE DEF ticked, moved
  <2>3. /\ GoodScene(scene') /\ Placed(scene')
        /\ ~ scene'.lineGeometryDirty => /\ ~ scene.lineGeometryDirty
                                         /\ scene'.lineData = scene.lineData
    BY <2>1, <2>2, SyncedGood
  <2> QED BY <1>6, <2>3 DEF SimulateTicks
<1>7. CASE DrawFrame
  <2>1. CASE scene.lineGeometryDirty
    <3>1. scene \in Scenes
      BY DEF GoodScene
    <3>2. scene' = [scene EXCEPT !.lineGeometryDirty = FALSE] /\ lineBuffer' = scene.lineData
      BY <1>7, <2>1 DEF DrawFrame
    <3>3. /\ scene'.instances = scene.instances /\ scene'.actorStates = scene.actorStates
          /\ scene'.networkActorByClientId = scene.networkActorByClientId
          /\ scene'.playerIndex = scene.playerIndex /\ scene'.lineData = scene.lineData
          /\ scene'.lineGeometryDirty = FALSE /\ scene' \in Scenes
          /\ scene.lineData \in Seq(Poses)
      BY <3>1, <3>2 DEF Scenes
    <3>4. GoodScene(scene') /\ (Placed(scene) => Placed(scene'))
      BY <3>3 DEF GoodScene, Indexed, SpeedsFollow, LinesBuilt, Placed
    <3> QED BY <1>7, <3>2, <3>3, <3>4 DEF DrawFrame
  <2>2. CASE ~ scene.lineGeometryDirty
    BY <1>7, <2>2 DEF DrawFrame
  <2> QED BY <2>1, <2>2
<1>8. CASE UNCHANGED actorVars
  BY <1>8 DEF actorVars
<1> QED BY <1>1, <1>2, <1>3, <1>4, <1>5, <1>6, <1>7, <1>8 DEF ActorsNext

\* The invariant holds in every state of the viewer.
THEOREM ActorsConsistent == ActorsSpec => []ActorsInv
<1> QED BY InitialSceneGood, ActorsInvStep, PTL DEF ActorsSpec

\* The vectors, the indexes and the batch have their types in every state.
THEOREM ActorsTypeCorrect == ActorsSpec => []ActorsTypeOK
<1>1. ActorsInv => ActorsTypeOK
  <2> SUFFICES ASSUME ActorsInv PROVE ActorsTypeOK
    OBVIOUS
  <2>1. scene \in Scenes /\ Indexed(scene)
    BY DEF ActorsInv, GoodScene
  <2>2. DOMAIN scene.instances = 1..Len(scene.instances)
    BY <2>1, LenProperties DEF Scenes
  <2>3. \A c \in ClientIds : scene.networkActorByClientId[c]
                                \in (DOMAIN scene.instances) \cup {None}
    BY <2>1, <2>2 DEF Indexed
  <2>4. scene.playerIndex \in DOMAIN scene.instances
    BY <2>1, <2>2, OwnAssumption DEF Indexed
  <2> QED BY <2>1, <2>3, <2>4 DEF ActorsInv, ActorsTypeOK, Scenes
<1> QED BY <1>1, ActorsConsistent, PTL

\* After any sequence of batches, of any length, every index of the viewer leads
\* to the instance and the actor it is the index of.
THEOREM IndexTableAlwaysExact == ActorsSpec => []IndexTableExact
<1>1. ActorsInv => IndexTableExact
  <2> SUFFICES ASSUME ActorsInv PROVE IndexTableExact
    OBVIOUS
  <2>1. scene \in Scenes /\ Indexed(scene)
    BY DEF ActorsInv, GoodScene
  <2>2. DOMAIN scene.instances = 1..Len(scene.instances)
    BY <2>1, LenProperties DEF Scenes
  <2> QED BY <2>1, <2>2 DEF Indexed, IndexTableExact, IndexOf
<1> QED BY <1>1, ActorsConsistent, PTL

\* The player's actor has the player's speed, and only it.
THEOREM PlayerSpeedAlwaysFollows == ActorsSpec => []PlayerSpeedFollowsPlayer
<1>1. ActorsInv => PlayerSpeedFollowsPlayer
  <2> SUFFICES ASSUME ActorsInv PROVE PlayerSpeedFollowsPlayer
    OBVIOUS
  <2>1. scene \in Scenes /\ SpeedsFollow(scene)
    BY DEF ActorsInv, GoodScene
  <2>2. DOMAIN scene.actorStates = 1..Len(scene.actorStates)
    BY <2>1, LenProperties DEF Scenes
  <2> QED BY <2>1, <2>2 DEF SpeedsFollow, PlayerSpeedFollowsPlayer
<1> QED BY <1>1, ActorsConsistent, PTL

\* Between two frames the uploaded line geometry is that of the actors.
THEOREM DrawnLinesAlwaysCurrent == ActorsSpec => []DrawnLinesAreCurrent
<1>1. ActorsInv => DrawnLinesAreCurrent
  <2> SUFFICES ASSUME ActorsInv, phase = "poll"
               PROVE  lineBuffer = [i \in DOMAIN scene.actorStates |->
                                       scene.actorStates[i].current]
    BY DEF DrawnLinesAreCurrent
  <2>1. /\ scene \in Scenes /\ Len(scene.instances) = Len(scene.actorStates)
        /\ lineBuffer = Lines(scene.instances) /\ Placed(scene)
    BY DEF ActorsInv, GoodScene, Indexed, LinesBuilt
  <2>2. /\ DOMAIN scene.actorStates = 1..Len(scene.instances)
        /\ DOMAIN scene.instances = 1..Len(scene.instances)
    BY <2>1, LenProperties DEF Scenes
  <2> QED BY <2>1, <2>2 DEF Lines, Placed
<1> QED BY <1>1, ActorsConsistent, PTL

\* The pump leaves the own actor where it is: receive keeps no snapshot of the own
\* id, and neither an event nor another's snapshot moves the own actor.
THEOREM NetworkNeverMovesOwn == ActorsSpec => NetworkNeverMovesOwnActor
<1> DEFINE Others == batch.snapshots \in Seq({p \in SnapshotPackets : p.clientId # Own})
           Stays == OwnPose(scene') = OwnPose(scene)
<1>1. ActorsInit => Others
  BY DEF ActorsInit, NoBatch
<1>2. ActorsInv /\ Others /\ [ActorsNext]_actorVars => Others'
  <2> SUFFICES ASSUME Others, [ActorsNext]_actorVars PROVE Others'
    OBVIOUS
  <2>1. ASSUME NEW d \in Datagrams, Receive(d) PROVE Others'
    BY <2>1, BatchTyped DEF Receive
  <2>2. CASE HandleEvent
    BY <2>2 DEF HandleEvent
  <2>3. CASE HandleSnapshot
    BY <2>3, HeadTailProperties DEF HandleSnapshot
  <2>4. CASE EndPump
    BY <2>4 DEF EndPump, NoBatch
  <2>5. CASE SimulateNoTick \/ DrawFrame \/ \E pose \in Poses : SimulateTicks(pose)
    BY <2>5 DEF SimulateNoTick, DrawFrame, SimulateTicks
  <2>6. CASE UNCHANGED actorVars
    BY <2>6 DEF actorVars
  <2> QED BY <2>1, <2>2, <2>3, <2>4, <2>5, <2>6 DEF ActorsNext
<1>3. ActorsInv /\ Others /\ [ActorsNext]_actorVars =>
         [phase = "pump" => scene'.actorStates[scene'.playerIndex].current
                               = scene.actorStates[scene.playerIndex].current]_actorVars
  <2> SUFFICES ASSUME ActorsInv, Others, ActorsNext, phase = "pump" PROVE Stays
    BY DEF OwnPose
  <2>1. GoodScene(scene) /\ batch.events \in Seq(EventPackets)
    BY DEF ActorsInv
  <2>2. CASE HandleEvent
    <3>1. Head(batch.events) \in EventPackets
      BY <2>1, <2>2, HeadTailProperties DEF HandleEvent
    <3> QED BY <2>1, <2>2, <3>1, AfterEventGood DEF HandleEvent
  <2>3. CASE HandleSnapshot
    <3> DEFINE p == Head(batch.snapshots)
               s == EnsureActor(scene, p.clientId)
    <3>1. p \in SnapshotPackets /\ p.clientId # Own
      BY <2>3, HeadTailProperties DEF HandleSnapshot
    <3>2. scene' = ShowSnapshot(s, p.clientId, p.pose)
      BY <2>3 DEF HandleSnapshot
    <3>3. p.clientId \in ClientIds /\ p.pose \in Poses
      BY <3>1 DEF SnapshotPackets
    <3> HIDE DEF p
    <3>4. /\ GoodScene(s) /\ s.networkActorByClientId[p.clientId] # None
          /\ OwnPose(s) = OwnPose(scene)
      BY <2>1, <3>3, EnsureActorGood
    <3> HIDE DEF s
    <3> QED BY <3>1, <3>2, <3>3, <3>4, ShowSnapshotGood
  <2>4. CASE EndPump
    BY <2>1, <2>4, SyncedGood DEF EndPump
  <2>5. CASE \/ SimulateNoTick \/ DrawFrame \/ \E pose \in Poses : SimulateTicks(pose)
             \/ \E d \in Datagrams : Receive(d)
    BY <2>5 DEF SimulateNoTick, DrawFrame, SimulateTicks, Receive
  <2> QED BY <2>2, <2>3, <2>4, <2>5 DEF ActorsNext
<1> QED BY <1>1, <1>2, <1>3, ActorsConsistent, PTL DEF ActorsSpec, NetworkNeverMovesOwnActor
-----------------------------------------------------------------------------
\* The poses on the screen, of any scene.
Shown(s) ==
    [c \in ClientIds |->
        IF s.networkActorByClientId[c] = None THEN None
        ELSE s.actorStates[s.networkActorByClientId[c]].current]

\* Where the index of a client leads.
LEMMA IndexLeads ==
    ASSUME NEW s, GoodScene(s), NEW c \in ClientIds, s.networkActorByClientId[c] # None
    PROVE  /\ s.networkActorByClientId[c] \in 1..Len(s.actorStates)
           /\ s.instances[s.networkActorByClientId[c]].id = c
           /\ s.actorStates[s.networkActorByClientId[c]] \in ActorStates
           /\ s.actorStates[s.networkActorByClientId[c]].current \in Poses
<1>1. s.networkActorByClientId[c] \in 1..Len(s.actorStates)
  BY DEF GoodScene, Indexed
<1>2. s.actorStates[s.networkActorByClientId[c]] \in ActorStates
  BY <1>1, ElementOfSeq DEF GoodScene, Scenes
<1> QED BY <1>1, <1>2 DEF GoodScene, Indexed, ActorStates

\* Removing an actor takes it, and only it, off the screen.
LEMMA ShownRemove ==
    ASSUME NEW s, GoodScene(s), NEW c \in ClientIds, NEW d \in ClientIds
    PROVE  Shown(RemoveActor(s, c))[d] =
              IF d = c /\ c # Own THEN None ELSE Shown(s)[d]
<1>1. CASE c = Own \/ s.networkActorByClientId[c] = None
  BY <1>1 DEF RemoveActor, Shown
<1>2. CASE c # Own /\ s.networkActorByClientId[c] # None
  <2> DEFINE q == RemoveActor(s, c)
             gap == s.networkActorByClientId[c]
             i == s.networkActorByClientId[d]
             Shifted(j) == IF j > gap THEN j - 1 ELSE j
  <2>1. /\ q.actorStates = RemoveAt(s.actorStates, gap)
        /\ q.networkActorByClientId[d] = IF d = c \/ i = None THEN None ELSE Shifted(i)
    BY <1>2 DEF RemoveActor
  <2>2. GoodScene(q)
    BY RemoveActorGood
  <2> HIDE DEF q
  <2>3. CASE d = c \/ i = None
    BY <1>2, <2>1, <2>3 DEF Shown, q
  <2>4. CASE d # c /\ i # None
    <3>1. /\ gap \in 1..Len(s.actorStates) /\ i \in 1..Len(s.actorStates) /\ i # gap
          /\ s.actorStates \in Seq(ActorStates) /\ Len(s.actorStates) \in Nat
      BY <1>2, <2>4, IndexLeads, LenProperties DEF GoodScene, Scenes
    <3>2. /\ Shifted(i) \in 1..(Len(s.actorStates) - 1)
          /\ IF Shifted(i) < gap THEN Shifted(i) = i ELSE Shifted(i) + 1 = i
      BY <3>1
    <3> HIDE DEF gap, i
    <3>3. \A j \in 1..(Len(s.actorStates) - 1) : RemoveAt(s.actorStates, gap)[j] =
             IF j < gap THEN s.actorStates[j] ELSE s.actorStates[j + 1]
      BY <3>1, RemoveAtElements
    <3> DEFINE k == Shifted(i)
    <3>4. RemoveAt(s.actorStates, gap)[k] = s.actorStates[i]
      <4> HIDE DEF k
      <4> QED BY <3>2, <3>3 DEF k
    <3>5. Shifted(i) # None /\ q.networkActorByClientId[d] = Shifted(i)
      BY <2>1, <2>4, <3>2, NoneAssumption
    <3>6. Shown(q)[d] = q.actorStates[k].current
      <4>1. Shown(q)[d] = IF q.networkActorByClientId[d] = None THEN None
                          ELSE q.actorStates[q.networkActorByClientId[d]].current
        BY DEF Shown
      <4> HIDE DEF Shifted
      <4> QED BY <3>5, <4>1
    <3>7. Shown(s)[d] = s.actorStates[i].current
      BY <2>4 DEF Shown, i
    <3> HIDE DEF k
    <3> QED BY <2>1, <2>4, <3>4, <3>6, <3>7 DEF q
  <2> QED BY <2>3, <2>4
<1> QED BY <1>1, <1>2

\* Creating an actor puts it, and only it, on the screen, in the spawn pose.
LEMMA ShownCreate ==
    ASSUME NEW s, GoodScene(s), NEW c \in ClientIds, s.networkActorByClientId[c] = None,
           NEW d \in ClientIds
    PROVE  Shown(CreateActor(s, c))[d] = IF d = c THEN SpawnPose ELSE Shown(s)[d]
<1> DEFINE q == CreateActor(s, c)
           actor == [previous |-> SpawnPose, current |-> SpawnPose, moveSpeed |-> "unset"]
           new == [id |-> c, transform |-> SpawnPose]
           grown == Append(s.actorStates, actor)
           n == Len(s.actorStates)
           i == s.networkActorByClientId[d]
<1>1. /\ s \in Scenes /\ n \in Nat /\ n > 0 /\ s.actorStates # <<>>
      /\ Len(s.instances) = n /\ s.actorStates \in Seq(ActorStates)
  BY OwnAssumption DEF GoodScene, Indexed, Scenes
<1>2. actor \in ActorStates /\ new \in Instances /\ actor.current = SpawnPose
  BY SpawnPoseAssumption DEF ActorStates, Instances
<1>3. Len(Append(s.instances, new)) = n + 1
  BY <1>1, <1>2, AppendProperties DEF Scenes
<1>4. /\ q.actorStates = WithProfile(grown, s.playerIndex)
      /\ q.networkActorByClientId[d] = IF d = c THEN n + 1 ELSE i
  <2> HIDE DEF new, actor
  <2> QED BY <1>1, <1>3 DEF CreateActor, Scenes, new, actor
<1> HIDE DEF q, actor, new
<1>5. /\ grown \in Seq(ActorStates) /\ Len(grown) = n + 1 /\ grown[n + 1] = actor
      /\ \A j \in 1..n : grown[j] = s.actorStates[j]
  BY <1>1, <1>2, AppendProperties
<1> HIDE DEF grown
<1>6. \A j \in 1..(n + 1) : q.actorStates[j].current = grown[j].current
  BY <1>4, <1>5, WithProfileActors
<1>7. Shown(q)[d] = IF q.networkActorByClientId[d] = None THEN None
                    ELSE q.actorStates[q.networkActorByClientId[d]].current
  BY DEF Shown
<1>8. CASE d = c
  <2>1. q.networkActorByClientId[d] = n + 1 /\ n + 1 # None /\ n + 1 \in 1..(n + 1)
    BY <1>1, <1>4, <1>8, NoneAssumption
  <2> QED BY <1>2, <1>5, <1>6, <1>7, <1>8, <2>1 DEF q
<1>9. CASE d # c
  <2>1. CASE i = None
    BY <1>4, <1>7, <1>9, <2>1 DEF q, Shown
  <2>2. CASE i # None
    <3>1. i \in 1..n
      BY <2>2, IndexLeads
    <3> HIDE DEF i
    <3>2. i \in 1..(n + 1) /\ grown[i] = s.actorStates[i]
      BY <1>1, <1>5, <3>1
    <3>3. Shown(s)[d] = s.actorStates[i].current
      BY <2>2 DEF Shown, i
    <3> QED BY <1>4, <1>6, <1>7, <1>9, <2>2, <3>2, <3>3 DEF q
  <2> QED BY <2>1, <2>2
<1> QED BY <1>8, <1>9

\* A snapshot moves the actor of its client, and only it.
LEMMA ShownSnapshot ==
    ASSUME NEW s, GoodScene(s), NEW c \in ClientIds, s.networkActorByClientId[c] # None,
           NEW pose, NEW d \in ClientIds
    PROVE  Shown(ShowSnapshot(s, c, pose))[d] = IF d = c THEN pose ELSE Shown(s)[d]
<1> DEFINE q == ShowSnapshot(s, c, pose)
           index == s.networkActorByClientId[c]
           i == s.networkActorByClientId[d]
           actor == s.actorStates[index]
           moved == [actor EXCEPT !.previous = actor.current, !.current = pose]
<1>1. /\ s \in Scenes /\ DOMAIN s.actorStates = 1..Len(s.actorStates)
      /\ index \in 1..Len(s.actorStates) /\ actor \in ActorStates
      /\ s.instances[index].id = c
  BY IndexLeads, LenProperties DEF GoodScene, Scenes
<1>2. moved.current = pose
  BY <1>1 DEF ActorStates
<1>3. q = [s EXCEPT !.actorStates = [s.actorStates EXCEPT ![index] = moved]]
  BY <1>1 DEF ShowSnapshot, Scenes
<1> HIDE DEF moved, q
<1>4. /\ q.networkActorByClientId = s.networkActorByClientId
      /\ q.actorStates = [s.actorStates EXCEPT ![index] = moved]
  BY <1>1, <1>3 DEF Scenes
<1>5. Shown(q)[d] = IF i = None THEN None ELSE q.actorStates[i].current
  BY <1>4 DEF Shown
<1>6. Shown(s)[d] = IF i = None THEN None ELSE s.actorStates[i].current
  BY DEF Shown
<1>7. CASE i = None
  BY <1>5, <1>6, <1>7 DEF q
<1>8. CASE i # None
  <2>1. i \in 1..Len(s.actorStates) /\ s.instances[i].id = d
    BY <1>8, IndexLeads
  <2> HIDE DEF i, index
  <2>2. CASE i = index
    <3>1. d = c
      BY <1>1, <2>1, <2>2
    <3> QED BY <1>1, <1>2, <1>4, <1>5, <1>8, <2>1, <2>2, <3>1 DEF q
  <2>3. CASE i # index
    <3>1. d # c
      BY <2>3 DEF i, index
    <3> QED BY <1>1, <1>4, <1>5, <1>6, <1>8, <2>1, <2>3, <3>1 DEF q
  <2> QED BY <2>2, <2>3
<1> QED BY <1>7, <1>8

\* What an event does to the screen.
LEMMA ShownEvent ==
    ASSUME NEW s, GoodScene(s), NEW event \in EventPackets, NEW d \in ClientIds
    PROVE  Shown(AfterEvent(s, event))[d] =
              IF d # Own /\ event.clientId = d THEN AfterOne(Shown(s)[d], event)
              ELSE Shown(s)[d]
<1>1. event.clientId \in ClientIds
  BY DEF EventPackets
<1>2. Shown(s)[d] = None <=> s.networkActorByClientId[d] = None
  BY IndexLeads, NoneAssumption DEF Shown
<1>3. CASE event.event = "clientDisconnected"
  BY <1>1, <1>3, ShownRemove DEF AfterEvent, AfterOne
<1>4. CASE event.event # "clientDisconnected"
  <2>1. CASE event.clientId = Own
    BY <1>4, <2>1 DEF AfterEvent
  <2>2. CASE event.clientId # Own
    <3>1. CASE s.networkActorByClientId[event.clientId] = None
      BY <1>1, <1>2, <1>4, <2>2, <3>1, ShownCreate DEF AfterEvent, EnsureActor, AfterOne
    <3>2. CASE s.networkActorByClientId[event.clientId] # None
      BY <1>2, <1>4, <2>2, <3>2 DEF AfterEvent, EnsureActor, AfterOne
    <3> QED BY <3>1, <3>2
  <2> QED BY <2>1, <2>2
<1> QED BY <1>3, <1>4

\* What ensuring an actor and giving it the pose of a snapshot does to the screen.
LEMMA ShownHandled ==
    ASSUME NEW s, GoodScene(s), NEW c \in ClientIds, NEW pose, NEW d \in ClientIds
    PROVE  Shown(ShowSnapshot(EnsureActor(s, c), c, pose))[d] =
              IF d = c THEN pose ELSE Shown(s)[d]
<1> DEFINE e == EnsureActor(s, c)
<1>1. GoodScene(e) /\ e.networkActorByClientId[c] # None
  BY EnsureActorGood
<1>2. d # c => Shown(e)[d] = Shown(s)[d]
  BY ShownCreate DEF EnsureActor
<1> HIDE DEF e
<1>3. Shown(ShowSnapshot(e, c, pose))[d] = IF d = c THEN pose ELSE Shown(e)[d]
  BY <1>1, ShownSnapshot
<1> QED BY <1>2, <1>3 DEF e

\* Copying transforms into the instances, or clearing the dirty mark, changes no pose.
LEMMA ShownSynced ==
    ASSUME NEW s, GoodScene(s)
    PROVE  Shown(Synced(s)) = Shown(s)
<1>1. /\ Synced(s).actorStates = s.actorStates
      /\ Synced(s).networkActorByClientId = s.networkActorByClientId
  <2> DEFINE instances == [i \in DOMAIN s.instances |->
                    [s.instances[i] EXCEPT !.transform = s.actorStates[i].current]]
  <2>1. Synced(s) = [s EXCEPT !.instances = instances, !.lineData = Lines(instances),
                              !.lineGeometryDirty = TRUE]
    BY DEF Synced
  <2> HIDE DEF instances
  <2> QED BY <2>1 DEF GoodScene, Scenes
<1> QED BY <1>1 DEF Shown

\* A fixed tick moves the own actor, and only it.
LEMMA ShownTicked ==
    ASSUME NEW s, GoodScene(s), NEW pose
    PROVE  Shown(Ticked(s, pose)) = [Shown(s) EXCEPT ![Own] = pose]
<1> DEFINE q == Ticked(s, pose)
<1>1. /\ s \in Scenes /\ DOMAIN s.actorStates = 1..Len(s.actorStates)
      /\ \A i \in 1..Len(s.actorStates) : s.actorStates[i] \in ActorStates
  BY LenProperties, ElementOfSeq DEF GoodScene, Scenes
<1>2. /\ q.networkActorByClientId = s.networkActorByClientId
      /\ q.actorStates = [i \in 1..Len(s.actorStates) |->
                            [s.actorStates[i] EXCEPT
                                !.previous = s.actorStates[i].current,
                                !.current = IF i = s.playerIndex THEN pose ELSE @]]
  BY <1>1 DEF Ticked, Scenes
<1> HIDE DEF q
<1>3. \A i \in 1..Len(s.actorStates) : q.actorStates[i].current =
         IF i = s.playerIndex THEN pose ELSE s.actorStates[i].current
  <2> SUFFICES ASSUME NEW i \in 1..Len(s.actorStates)
               PROVE  q.actorStates[i].current =
                         IF i = s.playerIndex THEN pose ELSE s.actorStates[i].current
    OBVIOUS
  <2> DEFINE actor == s.actorStates[i]
  <2>1. q.actorStates[i] = [actor EXCEPT !.previous = actor.current,
                                         !.current = IF i = s.playerIndex THEN pose ELSE @]
    BY <1>2
  <2>2. actor \in ActorStates
    BY <1>1
  <2> HIDE DEF actor
  <2>3. q.actorStates[i].current = IF i = s.playerIndex THEN pose ELSE actor.current
    BY <2>1, <2>2 DEF ActorStates
  <2> QED BY <2>3 DEF actor
<1>4. ASSUME NEW d \in ClientIds
      PROVE  Shown(q)[d] = IF d = Own THEN pose ELSE Shown(s)[d]
  <2> DEFINE i == s.networkActorByClientId[d]
  <2>1. /\ Shown(q)[d] = IF i = None THEN None ELSE q.actorStates[i].current
        /\ Shown(s)[d] = IF i = None THEN None ELSE s.actorStates[i].current
    BY <1>2 DEF Shown
  <2>2. /\ s.playerIndex = s.networkActorByClientId[Own]
        /\ s.networkActorByClientId[Own] # None
    BY DEF GoodScene, Indexed
  <2>3. CASE i = None
    BY <2>1, <2>2, <2>3
  <2>4. CASE i # None
    <3>1. i \in 1..Len(s.actorStates) /\ s.instances[i].id = d
      BY <2>4, IndexLeads
    <3>2. s.instances[s.playerIndex].id = Own
      BY <2>2, IndexLeads, OwnAssumption
    <3>3. i = s.playerIndex <=> d = Own
      BY <2>2, <3>1, <3>2
    <3> HIDE DEF i
    <3> QED BY <1>3, <2>1, <2>4, <3>1, <3>3
  <2> QED BY <2>3, <2>4
<1>5. Shown(q) = [d \in ClientIds |-> Shown(q)[d]] /\ Shown(s) = [d \in ClientIds |-> Shown(s)[d]]
  BY DEF Shown
<1> QED BY <1>4, <1>5 DEF q

\* A batch is only there while it is applied.
Idle == phase # "pump" => batch.events = <<>> /\ batch.snapshots = <<>>

LEMMA AlwaysIdle == ActorsSpec => []Idle
<1>1. ActorsInit => Idle
  BY DEF ActorsInit, Idle, NoBatch
<1>2. ActorsInv /\ Idle /\ [ActorsNext]_actorVars => Idle'
  <2> SUFFICES ASSUME ActorsInv, Idle, [ActorsNext]_actorVars PROVE Idle'
    OBVIOUS
  <2>1. CASE \/ HandleEvent \/ HandleSnapshot \/ \E d \in Datagrams : Receive(d)
    BY <2>1 DEF HandleEvent, HandleSnapshot, Receive, Idle
  <2>2. CASE EndPump
    BY <2>2 DEF EndPump, NoBatch, Idle
  <2>3. CASE SimulateNoTick \/ DrawFrame \/ \E pose \in Poses : SimulateTicks(pose)
    BY <2>3 DEF SimulateNoTick, DrawFrame, SimulateTicks, Idle
  <2>4. CASE UNCHANGED actorVars
    BY <2>4 DEF actorVars, Idle
  <2> QED BY <2>1, <2>2, <2>3, <2>4 DEF ActorsNext
<1> QED BY <1>1, <1>2, ActorsConsistent, PTL DEF ActorsSpec

\* ShownAfterBatch, by the poses on the screen.
LEMMA ShownAfterBatchIs ==
    ShownAfterBatch = AfterBatch(Shown(scene), Own, batch.events, batch.snapshots)
BY DEF ShownAfterBatch, Shown, PoseOf, IndexOf

\* The instance of SnapshotBatch in ViewerRoster is the one used here.
LEMMA RosterPump ==
    ASSUME NEW d,
           ShownAfterBatch' = AfterBatch(ShownAfterBatch, Own, EventsIn(d), SnapshotsIn(d, Own))
    PROVE  Roster!Pump(d)
<1>1. \A q, P : Roster!Kept(q, P) = Kept(q, P)
  BY DEF Roster!Kept, Kept
<1>2. /\ Roster!EventsIn(d) = EventsIn(d)
      /\ Roster!SnapshotsIn(d, Own) = SnapshotsIn(d, Own)
  BY <1>1 DEF Roster!EventsIn, Roster!SnapshotsIn, EventsIn, SnapshotsIn
<1>3. \A poses, events, snapshots :
         Roster!AfterBatch(poses, Own, events, snapshots)
            = AfterBatch(poses, Own, events, snapshots)
  <2>1. \A q, c : Roster!About(q, c) = About(q, c)
    BY DEF Roster!About, About
  <2>2. \A P : Roster!Max(P) = Max(P)
    BY DEF Roster!Max, Max
  <2>3. \A q, c : Roster!Leaving(q, c) = Leaving(q, c)
    BY <2>1 DEF Roster!Leaving, Leaving
  <2>4. \A q, c : Roster!LastPose(q, c) = LastPose(q, c)
    BY <2>1, <2>2 DEF Roster!LastPose, LastPose
  <2>5. \A pose, q, c : Roster!AfterEvents(pose, q, c) = AfterEvents(pose, q, c)
    BY <2>1, <2>2, <2>3 DEF Roster!AfterEvents, AfterEvents
  <2> QED BY <2>1, <2>4, <2>5 DEF Roster!AfterBatch, AfterBatch
<1> QED BY <1>2, <1>3 DEF Roster!Pump

\* Every step of the detailed viewer is a step of the roster, or none.
LEMMA StepImplementsRoster ==
    ActorsInv /\ Idle /\ Idle' /\ [ActorsNext]_actorVars => [Roster!Next]_ShownAfterBatch
<1> SUFFICES ASSUME ActorsInv, Idle, Idle', [ActorsNext]_actorVars
             PROVE  Roster!Next \/ ShownAfterBatch' = ShownAfterBatch
  BY DEF Roster!Next
<1> DEFINE before == Shown(scene)
           after == Shown(scene')
<1>1. /\ GoodScene(scene) /\ SpawnPose # None
      /\ batch \in [events : Seq(EventPackets), snapshots : Seq(SnapshotPackets),
                    applied : BOOLEAN]
  BY SpawnPoseAssumption, NoneAssumption DEF ActorsInv
<1>2. /\ ShownAfterBatch = AfterBatch(before, Own, batch.events, batch.snapshots)
      /\ ShownAfterBatch' = AfterBatch(after, Own, batch'.events, batch'.snapshots)
  <2>1. ShownAfterBatch' = AfterBatch(Shown(scene'), Own, batch'.events, batch'.snapshots)
    BY DEF ShownAfterBatch, Shown, PoseOf, IndexOf
  <2> QED BY <2>1, ShownAfterBatchIs
<1>3. before = [c \in ClientIds |-> before[c]] /\ after = [c \in ClientIds |-> after[c]]
  BY DEF Shown
<1>4. phase # "pump" => ShownAfterBatch = before
  BY <1>2, <1>3, AfterNoBatch DEF Idle
<1>5. phase' # "pump" => ShownAfterBatch' = after
  BY <1>2, <1>3, AfterNoBatch DEF Idle
<1>6. ASSUME NEW d \in Datagrams, Receive(d) PROVE Roster!Next
  <2>1. /\ phase # "pump" /\ scene' = scene
        /\ batch'.events = EventsIn(d) /\ batch'.snapshots = SnapshotsIn(d, Own)
    BY <1>6 DEF Receive
  <2>2. ShownAfterBatch' = AfterBatch(ShownAfterBatch, Own, EventsIn(d), SnapshotsIn(d, Own))
    BY <1>2, <1>4, <2>1
  <2>3. Roster!Pump(d)
    BY <2>2, RosterPump
  <2> QED BY <2>3 DEF Roster!Next
<1>7. CASE HandleEvent
  <2> DEFINE event == Head(batch.events)
  <2>1. /\ batch.events # <<>> /\ batch.events \in Seq(EventPackets)
        /\ scene' = AfterEvent(scene, event)
        /\ batch'.events = Tail(batch.events) /\ batch'.snapshots = batch.snapshots
    BY <1>1, <1>7 DEF HandleEvent
  <2>2. event \in EventPackets
    BY <2>1, HeadTailProperties
  <2>3. \A c \in ClientIds : after[c] =
           IF c # Own /\ event.clientId = c THEN AfterOne(before[c], event) ELSE before[c]
    BY <1>1, <2>1, <2>2, ShownEvent
  <2>4. AfterBatch(after, Own, Tail(batch.events), batch.snapshots)
           = AfterBatch(before, Own, batch.events, batch.snapshots)
    <3> HIDE DEF after, before
    <3> QED BY <1>1, <2>1, <2>3, AfterBatchEvent
  <2> QED BY <1>2, <2>1, <2>4
<1>8. CASE HandleSnapshot
  <2> DEFINE p == Head(batch.snapshots)
  <2>1. /\ batch.snapshots # <<>> /\ batch.snapshots \in Seq(SnapshotPackets)
        /\ scene' = ShowSnapshot(EnsureActor(scene, p.clientId), p.clientId, p.pose)
        /\ batch'.snapshots = Tail(batch.snapshots)
        /\ batch.events = <<>> /\ batch'.events = <<>>
    BY <1>1, <1>8 DEF HandleSnapshot
  <2>2. p \in SnapshotPackets /\ p.clientId \in ClientIds
    <3>1. p \in SnapshotPackets
      BY <2>1, HeadTailProperties
    <3> QED BY <3>1 DEF SnapshotPackets
  <2>3. \A c \in ClientIds : after[c] = IF p.clientId = c THEN p.pose ELSE before[c]
    BY <1>1, <2>1, <2>2, ShownHandled
  <2>4. AfterBatch(after, Own, <<>>, Tail(batch.snapshots))
           = AfterBatch(before, Own, <<>>, batch.snapshots)
    <3> HIDE DEF after, before
    <3> QED BY <2>1, <2>3, AfterBatchSnapshot
  <2> QED BY <1>2, <2>1, <2>4
<1>9. CASE EndPump
  <2>1. /\ batch.events = <<>> /\ batch.snapshots = <<>> /\ phase' # "pump"
        /\ scene' = Synced(scene) \/ scene' = scene
    BY <1>9 DEF EndPump
  <2>2. after = before
    BY <1>1, <2>1, ShownSynced
  <2>3. ShownAfterBatch = before
    BY <1>2, <1>3, <2>1, AfterNoBatch
  <2> QED BY <1>5, <2>1, <2>2, <2>3
<1>10. CASE SimulateNoTick \/ DrawFrame
  <2>1. scene' = scene \/ scene' = [scene EXCEPT !.lineGeometryDirty = FALSE]
    BY <1>10 DEF SimulateNoTick, DrawFrame
  <2>2. after = before
    BY <1>1, <2>1 DEF Shown, GoodScene, Scenes
  <2>3. phase # "pump" /\ phase' # "pump"
    BY <1>10 DEF SimulateNoTick, DrawFrame
  <2> QED BY <1>4, <1>5, <2>2, <2>3
<1>11. ASSUME NEW pose \in Poses, SimulateTicks(pose) PROVE Roster!Next
  <2>1. /\ phase # "pump" /\ phase' # "pump"
        /\ scene' = Synced(Ticked(scene, pose)) \/ scene' = Ticked(scene, pose)
    BY <1>11 DEF SimulateTicks
  <2>2. after = [before EXCEPT ![Own] = pose]
    BY <1>1, <2>1, TickedGood, ShownTicked, ShownSynced
  <2>3. ShownAfterBatch' = [ShownAfterBatch EXCEPT ![Own] = pose]
    BY <1>4, <1>5, <2>1, <2>2
  <2>4. Roster!MoveOwn(pose)
    BY <2>3 DEF Roster!MoveOwn
  <2> QED BY <2>4 DEF Roster!Next
<1>12. CASE UNCHANGED actorVars
  BY <1>2, <1>12 DEF actorVars
<1> QED BY <1>6, <1>7, <1>8, <1>9, <1>10, <1>11, <1>12 DEF ActorsNext

\* The vectors and indexes implement the roster: whatever the batches, of any length,
\* every client id has the actor and the pose that applying the batch in one step
\* gives it, and no other step but a fixed tick's changes any.
THEOREM ActorsImplementRoster == ActorsSpec => ImplementsRoster
<1>1. ActorsInit => Roster!Init
  <2> SUFFICES ASSUME ActorsInit PROVE Roster!Init
    OBVIOUS
  <2>1. /\ scene = InitialScene /\ batch.events = <<>> /\ batch.snapshots = <<>>
    BY DEF ActorsInit, NoBatch
  <2>2. Shown(scene) = [c \in ClientIds |-> Shown(scene)[c]]
    BY DEF Shown
  <2>3. ShownAfterBatch = Shown(scene)
    BY <2>1, <2>2, ShownAfterBatchIs, AfterNoBatch
  <2>4. Shown(scene) = [c \in ClientIds |-> IF c = Own THEN SpawnPose ELSE None]
    BY <2>1, NoneAssumption DEF InitialScene, Shown
  <2> QED BY <2>3, <2>4 DEF Roster!Init
<1> QED BY <1>1, StepImplementsRoster, ActorsConsistent, AlwaysIdle, PTL
           DEF ActorsSpec, ImplementsRoster, Roster!Spec
=============================================================================
