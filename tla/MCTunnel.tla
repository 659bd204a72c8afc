------------------------------ MODULE MCTunnel ------------------------------
(***************************************************************************)
(* Instances of Tunnel for TLC.                                            *)
(***************************************************************************)
EXTENDS Tunnel, TLC

ConnSymmetry == Permutations(Conns)

\* A second Start is explored while no SOCKS connection has been accepted.
Focus == gen > 1 => \A c \in Conns : pc[c] = "off"
=============================================================================
