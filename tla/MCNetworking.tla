----------------------------- MODULE MCNetworking -----------------------------
(***************************************************************************)
(* The networking plugin on a small instance: a physical interface and a   *)
(* name that may be a bridge, and two request threads.                     *)
(***************************************************************************)
EXTENDS Networking

CONSTANTS t1, t2

TwoThreads == {t1, t2}
Tlc == INSTANCE TLC
ThreadSymmetry == Tlc!Permutations(TwoThreads)

Names == {"eth0", "br0"}
Up == [kind |-> "physical", master |-> None]
Updates == {[link |-> Up], [net |-> "lan"],
            [link |-> [Up EXCEPT !.kind = "wireguard"], peers |-> {}]}
Routes == {[dev |-> None, via |-> "lan"]}
Systems == {[interfaces |-> << >>, routes |-> {}],
            [interfaces |-> "eth0" :> [Blank EXCEPT !.net = "lan"], routes |-> Routes]}
Member == [interfaces |-> "eth0" :> [Blank EXCEPT !.master = "br0"]
                       @@ "br0" :> [Blank EXCEPT !.kind = "bridge", !.net = "lan"],
           routes |-> Routes, aliases |-> "eth0" :> "eth0" @@ "br0" :> "br0"]
Tunnel == [interfaces |-> "eth0" :> [Blank EXCEPT !.kind = "wireguard",
                                                  !.peers = {<<"key", "endpoint">>}],
           routes |-> {}, aliases |-> "eth0" :> "eth0"]
NetEarlier == {Member, Tunnel}
=============================================================================
