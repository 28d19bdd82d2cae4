------------------------ MODULE LayerStoreRefinement ------------------------
(* The image store as its users see it: LayerStore implements ImageStore.   *)
EXTENDS LayerStore

\* A tag volume is an image, a boot volume a disk; a layer counts once its
\* volume holds what its name says.
StandsOn(v) == IF v \in pool THEN backing[v] ELSE None

Abstract == INSTANCE ImageStore WITH
  images <- [t \in Tag |-> StandsOn(t)],
  disks  <- [v \in VM |-> StandsOn(v)],
  layers <- {d \in pool \cap Layer : content[d] = d}

\* Every libvirt call of pull, load, rm, prune, vm run, vm rm and vm commit is
\* one step of the abstract store or none: at no point of their sequences of
\* calls does an image, a disk or a layer stand on something that is missing or
\* half written, and a VM starts on what its image is at that moment.
ImplementsImageStore == Abstract!Spec
=============================================================================
