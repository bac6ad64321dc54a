------------------------------ MODULE MCTunnels ------------------------------
(* Small instances of Tunnels for TLC. *)
EXTENDS Tunnels, TLC

CONSTANTS n1, n2, k1, k2, p1

\* A tunnel with an endpoint, and one in mode "none" for another cluster.
Socks    == [port |-> p1, cmd |-> "a", contexts |-> {k1}]
Vpn      == [port |-> NoPort, cmd |-> "v", contexts |-> {k2}]

OneDefinition == {Socks}
PortAndVpn == {Socks, Vpn}

Symmetry == Permutations(Runs) \cup Permutations(Procs) \cup Permutations(Clients)
==============================================================================
