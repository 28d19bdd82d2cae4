---------------------------- MODULE MCBuildCache ----------------------------
(* Two hosts, a base image of one layer that is later built upon, and two     *)
(* build IDs.                                                                 *)
EXTENDS BuildCache, TLC

CONSTANTS h1, h2, i1, i2

MCBaseImages == {<<1>>, <<1, 2>>}
MCForeign == {[ids |-> <<1>>, hist |-> i1, built |-> FALSE]}
Request(i, p, n) == [id |-> i, push |-> p, nocache |-> n]
MCRequests ==
  {Request(i1, TRUE, FALSE), Request(i2, TRUE, TRUE), Request(NoID, TRUE, FALSE),
   Request(i1, FALSE, FALSE)}
HostSymmetry == Permutations({h1, h2})
=============================================================================
