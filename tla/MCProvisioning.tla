--------------------------- MODULE MCProvisioning ---------------------------
(* Instances of Provisioning.                                              *)
EXTENDS Provisioning

\* One step of each kind.
MCSteps == <<"shell", "container", "rsync">>
=============================================================================
