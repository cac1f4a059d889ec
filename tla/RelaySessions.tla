---------------------------- MODULE RelaySessions ----------------------------
(***************************************************************************)
(* What SnapshotRelay promises its callers, without its three maps: every  *)
(* client id is owned by at most one endpoint, every endpoint owns at most *)
(* one client id, and the world keeps the last snapshot each owner has     *)
(* published since it joined.                                              *)
(***************************************************************************)
CONSTANTS Endpoints, ClientIds, Snapshots, None

VARIABLES
    owner,  \* the endpoint that owns a client id, or None
    world   \* the last snapshot published for a client id, or None

vars == <<owner, world>>

Init ==
    /\ owner = [c \in ClientIds |-> None]
    /\ world = [c \in ClientIds |-> None]

\* e claims c: whoever owned c loses it, and e gives up what it owned.
Join(e, c) ==
    LET Evicted(d) == d = c \/ owner[d] = e
    IN  /\ owner[c] # e
        /\ owner' = [d \in ClientIds |->
                        IF d = c THEN e ELSE IF Evicted(d) THEN None ELSE owner[d]]
        /\ world' = [d \in ClientIds |-> IF Evicted(d) THEN None ELSE world[d]]

Leave(c) ==
    /\ owner[c] # None
    /\ owner' = [owner EXCEPT ![c] = None]
    /\ world' = [world EXCEPT ![c] = None]

Publish(c, s) ==
    /\ owner[c] # None /\ s.clientId = c
    /\ world' = [world EXCEPT ![c] = s]
    /\ UNCHANGED owner

Next ==
    \E c \in ClientIds :
        \/ \E e \in Endpoints : Join(e, c)
        \/ Leave(c)
        \/ \E s \in Snapshots : Publish(c, s)

Spec == Init /\ [][Next]_vars
=============================================================================
