-------------------------- MODULE MCViewerControls --------------------------
(***************************************************************************)
(* An instance of ViewerControls: a file that may hold two profiles with   *)
(* different limits, radii and keys, and a text that names an unknown key. *)
(***************************************************************************)
EXTENDS ViewerControls

MCKeys == {"tab", "caps", "escape"}

MCPolls == {{}, {"backward", "sprint"}, {"tab"}, {"click"}, {"forward", "closeButton"},
            {"escape"}}

Movement(inset, radius) ==
    [run |-> 2, sprintScale |-> 2, backpedalDivisor |-> 2, inset |-> inset,
     radius |-> radius]

Profile(movement, toggle) ==
    [parses |-> TRUE, movement |-> movement,
     bindings |-> [toggle |-> toggle, close |-> "escape"]]

MCWide == Profile(Movement(0, 0), "tab")
MCNarrow == Profile(Movement(1, 1), "caps")
MCUnknownKey == Profile(Movement(1, 0), "nokey")

MCContents == {MCWide, MCNarrow, MCUnknownKey}

MCRays == {3}

\* A frame shorter than a tick, and one longer than the ticks it may catch up with.
MCFrameTimes == {1, 6}
=============================================================================
