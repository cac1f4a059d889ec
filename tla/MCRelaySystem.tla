--------------------------- MODULE MCRelaySystem ---------------------------
(* Instances of RelaySystem for TLC. *)
EXTENDS RelaySystem, TLC

CONSTANTS alice, bob, carol

MCTwo == {alice, bob}
MCTwoFacing == alice :> 0 @@ bob :> 1
MCThree == {alice, bob, carol}
MCThreeFacing == alice :> 0 @@ bob :> 1 @@ carol :> 2

MCIds == 1..2
MCSequences == 0..2

Setting(idOf, faults, modulus, lastTick, inFlight) ==
    [idOf |-> idOf, faults |-> faults, modulus |-> modulus,
     lastTick |-> lastTick, inFlight |-> inFlight]

\* Three processes that fail, of which bob and carol are started with the same client
\* id; two with ids of their own that fail too, on a network that disturbs; and two that
\* publish more than once.
MCFailing == {
    Setting(alice :> 1 @@ bob :> 2 @@ carol :> 2, {"crash", "stop"}, 3, 1, 2),
    Setting(alice :> 1 @@ bob :> 2 @@ carol :> None,
            {"duplicate", "reorder", "crash", "stop"}, 3, 1, 1),
    Setting(alice :> 1 @@ bob :> 2 @@ carol :> None, {"crash", "stop"}, 3, 2, 2)}

\* Two processes started with the same client id, on a network that loses nothing; and
\* two with ids of their own that publish for ever, on one that loses and reorders.
MCServed == {
    Setting(alice :> 2 @@ bob :> 2, {}, 3, 2, 3),
    Setting(alice :> 1 @@ bob :> 2, {"lose", "reorder"}, 1, 1, 1)}

\* Two viewers with ids of their own, and nothing that goes wrong.
MCUndisturbed == {Setting(alice :> 1 @@ bob :> 2, {}, 3, 1, 2)}
=============================================================================
