----------------------------- MODULE MCHostProcess -----------------------------
(* An instance of HostProcess for TLC. *)
EXTENDS HostProcess

MCDashed == {"--result-file", "--scene", "--frames", "--headless", "--orbit-camera", "--bogus"}
MCPlain == {"3", "out.json", ""}
MCTakes(option, value) ==
    option \in {"--frames", "--ticks", "--seed", "--net-client-id"} => value = "3"
=============================================================================
