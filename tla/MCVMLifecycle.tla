--------------------------- MODULE MCVMLifecycle ---------------------------
(* Instances of VMLifecycle: two VMs, one of them with an extra disk.      *)
EXTENDS VMLifecycle, TLC

CONSTANTS v1, v2, boot1, boot2, ci1, ci2, disk1, q1, q2

MCVM == {v1, v2}
MCVol == {boot1, boot2, ci1, ci2, disk1}
MCBoot == v1 :> boot1 @@ v2 :> boot2
MCCIData == v1 :> ci1 @@ v2 :> ci2
MCDisks == v1 :> {disk1} @@ v2 :> {}

\* Both VMs may ask for the same IDs, for one of their own, or for any.
MCWantedSame == v1 :> {2, 3} @@ v2 :> {2, 3}
MCWantedOwn == v1 :> {2} @@ v2 :> {3}
MCWantedAny == v1 :> {0, 2} @@ v2 :> {0, 2}

ProcSymmetry == Permutations({q1, q2})
=============================================================================
