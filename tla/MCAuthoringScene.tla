---------------------------- MODULE MCAuthoringScene ----------------------------
(* An instance of AuthoringScene for TLC. *)
EXTENDS AuthoringScene

Header(quality) == [f \in HeaderFields |-> IF f = "worldBounds" THEN quality ELSE "good"]

Object(id, parent, transform, collider) ==
    [id |-> id, parent |-> parent, transform |-> transform, collider |-> collider,
     primitive |-> "good", material |-> None]

Spawn(id, enabled, place) ==
    [id |-> id, enabled |-> enabled, place |-> place, tags |-> <<2, 1>>]

Collider == [quality |-> "good", mask |-> <<2, 1>>]

\* Objects that are right, and objects in which one thing is not.
Right == {Object(id, parent, "good", collider) :
              id \in 1..3, parent \in {None, 1}, collider \in {None, Collider}}
Wrong == {Object(None, None, "good", None), Object(1, 0, "good", None),
          Object(2, 2, None, None), Object(1, None, "bad", None), Object(2, None, "null", None),
          [Object(1, None, "good", None) EXCEPT !.primitive = None],
          Object(2, None, "good", [Collider EXCEPT !.quality = None])}

SpawnLists == {<<>>, <<Spawn(1, None, "good")>>,
               <<Spawn(2, TRUE, "good"), Spawn(1, TRUE, "good")>>,
               <<Spawn(3, FALSE, "good"), Spawn(2, TRUE, "good"), Spawn(1, FALSE, "good")>>,
               <<Spawn(None, TRUE, "bad"), Spawn(1, FALSE, "good")>>,
               <<Spawn(1, TRUE, "good"), Spawn(1, TRUE, None)>>}

Document(quality, objects, spawns) ==
    [objects |-> objects, header |-> Header(quality), spawnPoints |-> spawns]

MCDocuments ==
    {Document(quality, objects, spawns) :
        quality \in {None, "null"},
        objects \in UNION {[1..n -> Right \cup Wrong] : n \in 0..2},
        spawns \in SpawnLists}
    \cup {Document("good", objects, <<Spawn(1, TRUE, "good")>>) : objects \in [1..3 -> Right]}

\* Two objects in the wrong order; a place that is no number; nothing.  (TLC's
\* workers share these records, so their fields are in the order in which TLC keeps them.)
Painted(id, parent, collider) ==
    [id |-> id, parent |-> parent, transform |-> "good", collider |-> collider,
     primitive |-> "good", material |-> "good"]
Shown(objects, place) ==
    [objects |-> objects, header |-> Header("good"),
     spawnPoints |-> <<Spawn(1, TRUE, place)>>]
MCEdits ==
    {Shown(<<Painted(2, None, Collider), Painted(1, 2, None)>>, "good"),
     Shown(<<Painted(1, None, None)>>, "notANumber"),
     Shown(<<>>, "bad")}
=============================================================================
