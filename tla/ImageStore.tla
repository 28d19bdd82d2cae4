----------------------------- MODULE ImageStore -----------------------------
(***************************************************************************)
(* What the image store promises: images and boot disks stand on layers,   *)
(* and every layer they need, directly or through other layers, is there   *)
(* and complete.  A layer appears once its parent is there, and goes only  *)
(* when nothing stands on it.  Volumes that are being filled, buffers and  *)
(* the walks that look for unused layers do not show.  Module LayerStore   *)
(* implements this specification when invocations do not overlap (module   *)
(* LayerStoreRefinement).                                                  *)
(***************************************************************************)
CONSTANTS
  Tag,        \* image names
  VM,         \* VM names
  Layer,      \* digests
  None,
  Parent      \* Parent[d]: the layer that d stands on, or None

VARIABLES
  images,     \* images[t]: the top layer of image t, None if there is none
  disks,      \* disks[v]: the layer that the boot disk of v stands on
  layers      \* the complete layers

vars == <<images, disks, layers>>

Init ==
  /\ images = [t \in Tag |-> None]
  /\ disks = [v \in VM |-> None]
  /\ layers = {}

\* Something stands on layer d.
Used(d) ==
  \/ \E t \in Tag : images[t] = d
  \/ \E v \in VM : disks[v] = d
  \/ \E e \in layers : Parent[e] = d

\* A layer is imported or committed.
AddLayer(d) ==
  /\ d \notin layers
  /\ Parent[d] \in layers \cup {None}
  /\ layers' = layers \cup {d}
  /\ UNCHANGED <<images, disks>>

\* A layer that nothing stands on is removed.
DropLayer(d) ==
  /\ d \in layers
  /\ ~Used(d)
  /\ layers' = layers \ {d}
  /\ UNCHANGED <<images, disks>>

\* A name is given to an image; a name that is in use is taken back first.
Name(t, d) ==
  /\ images[t] = None
  /\ d \in layers
  /\ images' = [images EXCEPT ![t] = d]
  /\ UNCHANGED <<disks, layers>>

Unname(t) ==
  /\ images[t] # None
  /\ images' = [images EXCEPT ![t] = None]
  /\ UNCHANGED <<disks, layers>>

\* A VM gets a boot disk that stands on an image.
Boot(v, t) ==
  /\ disks[v] = None
  /\ images[t] # None
  /\ disks' = [disks EXCEPT ![v] = images[t]]
  /\ UNCHANGED <<images, layers>>

Discard(v) ==
  /\ disks[v] # None
  /\ disks' = [disks EXCEPT ![v] = None]
  /\ UNCHANGED <<images, layers>>

Next ==
  \/ \E d \in Layer : AddLayer(d) \/ DropLayer(d)
  \/ \E t \in Tag, d \in Layer : Name(t, d)
  \/ \E t \in Tag : Unname(t)
  \/ \E v \in VM, t \in Tag : Boot(v, t)
  \/ \E v \in VM : Discard(v)

Spec == Init /\ [][Next]_vars

-----------------------------------------------------------------------------
\* Images and boot disks stand on layers that are there, and so do the layers.
Complete ==
  /\ \A t \in Tag : images[t] \in layers \cup {None}
  /\ \A v \in VM : disks[v] \in layers \cup {None}
  /\ \A d \in layers : Parent[d] \in layers \cup {None}
=============================================================================
