------------------------------ MODULE MCNetwork ------------------------------
(* An instance of Network: networks of 8, 4 and 2 addresses of a space of 8;  *)
(* two VMs, one of them with an automatic ID.                                 *)
EXTENDS Network, TLC

CONSTANTS v1, v2, q1, q2

MCWanted == v1 :> {0, 3} @@ v2 :> {3}
MCExisting == {[ip |-> 1, size |-> 8], [ip |-> 4, size |-> 2]}
MCAdditions == {[cidr |-> [ip |-> 1, size |-> 4], id |-> 0, count |-> 1]}
MCUsers ==
  {[root |-> TRUE, tools |-> {}], [root |-> FALSE, tools |-> {"sudo"}],
   [root |-> FALSE, tools |-> {"sudo", "doas", "please"}]}
=============================================================================
