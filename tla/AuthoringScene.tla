----------------------------- MODULE AuthoringScene -----------------------------
(***************************************************************************)
(* Authored scenes (src/content/authoring_scene.cpp): what is validated,   *)
(* what a valid scene is compiled to, and the file a scene is saved to and *)
(* loaded from, by processes that may end between any two writes.          *)
(*                                                                         *)
(* An id is a number in the order of the strings, 0 the empty one.  Of a   *)
(* value the model keeps its quality: whether the validator takes it, and  *)
(* whether it is a number at all, which JSON cannot say (it is written as  *)
(* null, and null is no number when it is read).                           *)
(***************************************************************************)
EXTENDS Naturals, FiniteSets, Sequences

CONSTANTS
    Documents,  \* the JSON documents that are written by hand
    Edits,      \* the scenes an editor may make of one
    None

Qualities == {"good", "bad", "notANumber"}

HeaderFields == {"schemaVersion", "assetGuid", "logicalId", "unitsPerMeter", "worldBounds"}

Objects == [id : Nat, parent : Nat \cup {None}, transform : Qualities, primitive : Qualities,
            material : Qualities, collider : [quality : Qualities, mask : Seq(Nat)] \cup {None}]

SpawnPoints == [id : Nat, enabled : BOOLEAN, place : Qualities, tags : Seq(Nat)]

Scenes == [header : [HeaderFields -> Qualities],
           objects : Seq(Objects), spawnPoints : Seq(SpawnPoints)]

\* What a document may have in the place of each.
Written == {"good", "bad", "null"}

WrittenObjects ==
    [id : Nat \cup {None}, parent : Nat \cup {None}, transform : Written \cup {None},
     primitive : Written \cup {None}, material : Written \cup {None},
     collider : [quality : Written \cup {None}, mask : Seq(Nat)] \cup {None}]

WrittenSpawns ==
    [id : Nat \cup {None}, enabled : BOOLEAN \cup {None}, place : Written \cup {None},
     tags : Seq(Nat)]

ASSUME EditsAssumption == Edits \subseteq Scenes
ASSUME DocumentsAssumption ==
    Documents \subseteq [header : [HeaderFields -> Written \cup {None}],
                        objects : Seq(WrittenObjects), spawnPoints : Seq(WrittenSpawns)]
ASSUME NoneAssumption ==
    /\ None \notin Nat /\ None \notin BOOLEAN /\ None \notin Written \cup Qualities
    /\ None \notin [quality : Written \cup Qualities \cup {None}, mask : Seq(Nat)]
    /\ None \notin Scenes \cup Documents

VARIABLES
    scene,     \* the scene in memory, None before one is loaded
    document,  \* the JSON document of a save that is under way, or None
    file,      \* the file: a document, and whether all of it is there
    saved,     \* history: the scene of the document that was last written whole
    loaded     \* whether scene is as it was read from the file

contentVars == <<scene, document, file, saved, loaded>>

Items(list) == {list[i] : i \in DOMAIN list}

\* The orders std::sort may leave a list in by its keys: items of equal keys in any.
Orders(keys) ==
    {o \in [DOMAIN keys -> DOMAIN keys] :
        /\ Items(o) = DOMAIN keys
        /\ \A i, j \in DOMAIN keys : i < j => keys[o[i]] <= keys[o[j]]}

Arranged(list, keys) == {[i \in DOMAIN list |-> list[o[i]]] : o \in Orders(keys)}

Sortings(list) == Arranged(list, [i \in DOMAIN list |-> list[i].id])

\* sortedStringArray.
SortedStrings(strings) == CHOOSE sorted \in Arranged(strings, strings) : TRUE

\* What a loop that keeps the items at some places makes of a list.
Subsequence(list, places) ==
    LET order == CHOOSE o \in [1..Cardinality(places) -> places] :
                    /\ Items(o) = places
                    /\ \A i, j \in DOMAIN o : i < j => o[i] < o[j]
    IN  [k \in 1..Cardinality(places) |-> list[order[k]]]
-----------------------------------------------------------------------------
(* validateAuthoringScene: a diagnostic is its code and its object.        *)

\* finiteVec3, positiveVec3, validScale, validColor, worldBoundsValid.
Valid(quality) == quality = "good"

HeaderErrors(s) == {<<"header", field>> : field \in {f \in HeaderFields : ~Valid(s.header[f])}}

Repeated(list) ==
    {list[i].id : i \in {j \in DOMAIN list : \E k \in 1..(j - 1) : list[k].id = list[j].id}}

\* Objects without an id are no parents.
ObjectIds(s) == {object.id : object \in Items(s.objects)} \ {0}

\* A parent must be there; nobody asks whether the parents go round.
Faults(s, object) ==
    {code \in {"missing_parent", "invalid_transform", "invalid_primitive", "invalid_material",
               "invalid_collider"} :
        CASE code = "missing_parent" -> object.parent \notin ObjectIds(s) \cup {None}
          [] code = "invalid_transform" -> ~Valid(object.transform)
          [] code = "invalid_primitive" -> ~Valid(object.primitive)
          [] code = "invalid_material" -> ~Valid(object.material)
          [] code = "invalid_collider" -> object.collider # None /\ ~Valid(object.collider.quality)}

ObjectErrors(s) ==
    {<<"missing_object_id", 0>> : object \in {o \in Items(s.objects) : o.id = 0}}
    \cup {<<"duplicate_object_id", id>> : id \in Repeated(s.objects) \ {0}}
    \cup UNION {Faults(s, object) \X {object.id} : object \in Items(s.objects)}

\* A spawn point without an id is not looked at further, but it counts as enabled.
SpawnErrors(s) ==
    {<<"missing_spawn_id", 0>> : spawn \in {p \in Items(s.spawnPoints) : p.id = 0}}
    \cup {<<"duplicate_spawn_id", id>> : id \in Repeated(s.spawnPoints) \ {0}}
    \cup {<<"invalid_spawn_point", spawn.id>> :
              spawn \in {p \in Items(s.spawnPoints) : p.id # 0 /\ ~Valid(p.place)}}
    \cup (IF \E spawn \in Items(s.spawnPoints) : spawn.enabled THEN {}
          ELSE {<<"missing_spawn_points", 0>>})

ValidateAuthoringScene(s) == HeaderErrors(s) \cup ObjectErrors(s) \cup SpawnErrors(s)
-----------------------------------------------------------------------------
(* compileRuntimeWorld.                                                    *)

\* MUTANT of Entities: in the order of the document.
Entities_Unsorted(s) == s.objects

\* The runtime id of an entity is its place.  Ids are unique in a valid scene.
Entities(s) == CHOOSE sorted \in Sortings(s.objects) : TRUE

\* A collider names its entity by the runtime id.
Colliders(s) ==
    LET entities == Entities(s)
        colliding == {i \in DOMAIN entities : entities[i].collider # None}
        RuntimeId(object) == CHOOSE i \in DOMAIN entities : entities[i].id = object.id
    IN  {[entityId |-> RuntimeId(entities[i]), collider |-> entities[i].collider] :
            i \in colliding}

EnabledSpawns(s) ==
    LET sorted == CHOOSE spawns \in Sortings(s.spawnPoints) : TRUE
    IN  Subsequence(sorted, {i \in DOMAIN sorted : sorted[i].enabled})

\* The world of a scene with errors stays empty.
NoWorld == [entities |-> <<>>, colliders |-> {}, spawnPoints |-> <<>>]

CompileRuntimeWorld(s) ==
    IF ValidateAuthoringScene(s) # {} THEN NoWorld
    ELSE [entities |-> [i \in DOMAIN s.objects |-> Entities(s)[i].id],
          colliders |-> Colliders(s), spawnPoints |-> EnabledSpawns(s)]
-----------------------------------------------------------------------------
(* toCanonicalJson, authoringSceneFromJson.  A document has the fields of   *)
(* a scene; in one written by hand a field may be missing, or of another   *)
(* shape, which is None.                                                   *)

\* dump() writes a number that is none as null.
Dumped(quality) == IF quality = "notANumber" THEN "null" ELSE quality

DumpedCollider(collider) ==
    IF collider = None THEN None
    ELSE [quality |-> Dumped(collider.quality), mask |-> SortedStrings(collider.mask)]

DumpedObject(object) ==
    [object EXCEPT !.transform = Dumped(@), !.primitive = Dumped(@), !.material = Dumped(@),
                   !.collider = DumpedCollider(@)]

\* MUTANT of DumpedSpawn: whether a spawn point is enabled is not written.
DumpedSpawn_WithoutEnabled(spawn) ==
    [spawn EXCEPT !.place = Dumped(@), !.tags = SortedStrings(@), !.enabled = None]

DumpedSpawn(spawn) == [spawn EXCEPT !.place = Dumped(@), !.tags = SortedStrings(@)]

\* The documents a scene may be written as.
CanonicalJson(s) ==
    {[header |-> [f \in HeaderFields |-> Dumped(s.header[f])],
      objects |-> [i \in DOMAIN objects |-> DumpedObject(objects[i])],
      spawnPoints |-> [i \in DOMAIN spawns |-> DumpedSpawn(spawns[i])]] :
        objects \in Sortings(s.objects), spawns \in Sortings(s.spawnPoints)}

\* get<float>() throws where a document has null.
HasNull(doc) ==
    \/ \E f \in HeaderFields : doc.header[f] = "null"
    \/ \E o \in Items(doc.objects) : \/ "null" \in {o.transform, o.primitive, o.material}
                                     \/ o.collider # None /\ o.collider.quality = "null"
    \/ \E p \in Items(doc.spawnPoints) : p.place = "null"

\* Whatever is missing has a default, which may be one the validator refuses: no schema
\* version is version zero, no shape is an unknown one, no team is an empty one.
Default == [schemaVersion |-> "bad", assetGuid |-> "bad", logicalId |-> "bad",
            unitsPerMeter |-> "good", worldBounds |-> "good",
            transform |-> "good", primitive |-> "bad", material |-> "good",
            collider |-> "bad", place |-> "bad", enabled |-> TRUE, id |-> 0]

Read(value, default) == IF value = None THEN default ELSE value

ReadCollider(collider) ==
    IF collider = None THEN None
    ELSE [collider EXCEPT !.quality = Read(@, Default.collider)]

ReadObject(object) ==
    [object EXCEPT
        !.id = Read(@, Default.id), !.transform = Read(@, Default.transform),
        !.primitive = Read(@, Default.primitive), !.material = Read(@, Default.material),
        !.collider = ReadCollider(@)]

ReadSpawn(spawn) ==
    [spawn EXCEPT !.id = Read(@, Default.id), !.enabled = Read(@, Default.enabled),
                  !.place = Read(@, Default.place)]

AuthoringSceneFromJson(doc) ==
    [header |-> [f \in HeaderFields |-> Read(doc.header[f], Default[f])],
     objects |-> [i \in DOMAIN doc.objects |-> ReadObject(doc.objects[i])],
     spawnPoints |-> [i \in DOMAIN doc.spawnPoints |-> ReadSpawn(doc.spawnPoints[i])]]
-----------------------------------------------------------------------------
ContentInit ==
    /\ file \in [doc : Documents, whole : {TRUE}]
    /\ saved = AuthoringSceneFromJson(file.doc)
    /\ scene = None /\ document = None /\ loaded = FALSE

\* An editor changes the scene in memory, to one that no file could hold too.
Edit(s) ==
    /\ document = None
    /\ scene' = s /\ loaded' = FALSE
    /\ UNCHANGED <<document, file, saved>>

\* saveAuthoringScene opens the file itself, which truncates it.
OpenForWrite ==
    /\ document = None /\ scene # None
    /\ document' \in CanonicalJson(scene)
    /\ file' = [doc |-> None, whole |-> FALSE]
    /\ UNCHANGED <<scene, saved, loaded>>

\* The stream writes a part of the document, or the rest of it.
WritePart ==
    /\ document # None /\ file.doc = None
    /\ file' = [doc |-> document, whole |-> FALSE]
    /\ UNCHANGED <<scene, document, saved, loaded>>

WriteRest ==
    /\ document # None
    /\ file' = [doc |-> document, whole |-> TRUE]
    /\ saved' = scene
    /\ document' = None
    /\ UNCHANGED <<scene, loaded>>

\* The disk is full; nothing asks the stream, and the save returns.
WriteFallsShort ==
    /\ document # None
    /\ document' = None
    /\ UNCHANGED <<scene, file, saved, loaded>>

\* The process ends or is killed, in the middle of a save too; another one starts.
Restart ==
    /\ scene # None
    /\ scene' = None /\ document' = None /\ loaded' = FALSE
    /\ UNCHANGED <<file, saved>>

\* The parser needs the closing brace, which is written last.
Parses == file.whole

\* loadAuthoringScene.  Where it throws, nothing changes.
Load ==
    /\ document = None /\ Parses /\ ~HasNull(file.doc)
    /\ scene' = AuthoringSceneFromJson(file.doc) /\ loaded' = TRUE
    /\ UNCHANGED <<document, file, saved>>

ContentNext ==
    \/ \E s \in Edits : Edit(s)
    \/ OpenForWrite
    \/ WritePart
    \/ WriteRest
    \/ WriteFallsShort
    \/ Restart
    \/ Load

ContentSpec == ContentInit /\ [][ContentNext]_contentVars
-----------------------------------------------------------------------------
(* Properties.                                                             *)

\* A world without the order of the strings of a mask or of tags, which a save sorts.
Meaning(world) ==
    [entities |-> world.entities,
     colliders |-> {<<c.entityId, c.collider.quality, SortedStrings(c.collider.mask)>> :
                        c \in world.colliders},
     spawnPoints |-> [i \in DOMAIN world.spawnPoints |-> DumpedSpawn(world.spawnPoints[i])]]

\* docs/action_combat_engine_editor_design.md: "Save/reload a scene with every component
\* and compare semantic equality".  Whatever ends a save, a scene that can be loaded is
\* the one whose save was the last to be written whole: it has its errors, it compiles to
\* what that compiles to, and it is saved as the same document again.
LoadsWhatWasSaved ==
    loaded => /\ ValidateAuthoringScene(scene) = ValidateAuthoringScene(saved)
              /\ Meaning(CompileRuntimeWorld(scene)) = Meaning(CompileRuntimeWorld(saved))
              /\ CanonicalJson(scene) = CanonicalJson(saved)

\* The world of a valid scene says what the scene says, in whatever order the document
\* has it (compileRuntimeWorld): the runtime ids number the objects by their authored ids,
\* every collider names the entity of its object and no other, and the spawn points are
\* the enabled ones by their ids.
CompiledWorldResolves ==
    scene # None =>
        LET world == CompileRuntimeWorld(scene)
        IN  world # NoWorld =>
                /\ \A object \in Items(scene.objects) :
                      LET before == {o \in Items(scene.objects) : o.id <= object.id}
                      IN  /\ world.entities[Cardinality(before)] = object.id
                          /\ {c.collider : c \in {d \in world.colliders :
                                                     d.entityId = Cardinality(before)}}
                               = {object.collider} \ {None}
                /\ Items(world.spawnPoints) = {p \in Items(scene.spawnPoints) : p.enabled}
                /\ \A i, j \in DOMAIN world.spawnPoints :
                      i < j => world.spawnPoints[i].id < world.spawnPoints[j].id
=============================================================================
