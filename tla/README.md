# A TLA+ model of virter

virter runs virtual machines from images with libvirt. It keeps no state of its
own: everything is in libvirt (one storage pool, one access network, domains),
every invocation of the command is a process that makes one libvirt call after
the other, and nothing but the single call is atomic. There is no lock and no
transaction. What can go wrong is therefore what happens between two calls:
another invocation, an error, the end of the process.

## Inventory

| Component | State | Operations | What makes it correct |
|---|---|---|---|
| Image store (`internal/virter/layer.go`, `image.go`, `cmd/image_*.go`) | qcow2 volumes: tags, digest-named layers, work volumes; their backing files | pull, load, rm, prune; ToVolumeLayer, MakeImage, DeleteAllIfUnused | no volume loses its backing file; a layer holds what its digest says; nothing unused remains; commands end |
| VM life cycle (`vm.go`, `image.go` ImageBuild, `cmd/vm_*.go`, `cmd/image_build.go`) | domain, boot/cloud-init/disk volumes, DHCP entry of each VM | run, rm, commit, build | nothing of a VM gets out of reach of `vm rm`; a running VM is complete; a commit sees a VM that has shut down |
| DHCP entries and IDs (`dhcp.go`, `cmd/network_host_*.go`) | entries of the network: MAC to IP, both determined by an ID | GetVMID, AddDHCPHost, removal, host add/rm | an ID is used once; static entries are the user's |
| Networks (`network.go`, `cmd/network_add.go`, `network_rm.go`) | libvirt networks, their DHCP entries and leases | add, rm, list | an entry lies in its network; a VM gets the address of its ID whatever leases are left |
| Provisioning (`container.go`, `provision.go`, exec functions of `vm.go`) | containers, SSH sessions | container, shell, rsync, copy steps, in parallel over VMs | every container is removed, every error reported, retries end |
| Waiting (`pkg/actualtime`) | – | Ping, connectSSHRetry | bounded number of attempts, cancellation |
| Build cache and push (`cmd/image_build.go`, `image_push.go`) | registry images and their history | build with `--push` and `--build-id`, provisionStepsUnchanged, push | the history is true; an image is reused only for the same base and build ID, and then always |
| Saving (`cmd/image_save.go`) | a squashed volume | save | the volume is removed (not modelled) |
| Device names (`pkg/driveletter`, `libvirtxml.go`) | a counter per bus | Inc, String | no two disks have one name |
| Registry file, pull policies, SSH keys, configuration, listings, XML and cloud-init documents | files, none | lookup, parsing, formatting | – (not modelled: I/O and formatting) |

The components meet in libvirt only: `vm run` bases a boot volume on the top
layer of an image, `vm commit` and `image build` turn a boot volume into a layer
and a tag, `vm rm` deletes the boot volume with DeleteAllIfUnused and so perhaps
layers of an image that was removed earlier. `vm run --count` runs several VMRun
in goroutines of one process; for libvirt that is no different from several
processes. The network is the third meeting place: VMs are attached to it by
name, while an invocation keeps the handle it has looked up at its start. Hosts
meet in the container registry, which `image build` uses as a cache.

Hard behaviours: interleaved invocations, a process that ends between two calls
(`log.Fatal`, a signal), a call that fails after others have succeeded, lists
that are stale when used, waiting for a guest. `PROJECT.json` lists them as
hazards with their lines.

## Modules

* `LayerStore` – the image store. `pool`, `backing` and `content` are the volumes
  of the storage pool, their backing files and what they hold; a content is
  identified with its digest, `None` is the content of a fresh volume. `Parent`
  gives the backing file in the qcow2 header of each content and `Anc` the
  layers of the image it is the top of. The remaining variables are the local
  variables of each invocation and its program counter `pc`, whose value names
  the next libvirt call. One action is one libvirt call and what the code does
  up to the next one.
* `ImageStore` – the abstract specification of the store: images and disks stand
  on layers, layers on layers, and a layer appears when its parent is there and
  goes when nothing stands on it. Six actions, no program counters, no work
  volumes.
* `LayerStoreRefinement` – LayerStore implements ImageStore: a tag volume is an
  image, the boot volume of a VM a disk, and a layer volume a layer from the
  moment it holds what its name says.
* `MCLayerStore` – the instances: the layer a, b on a, c on b, d on a.
* `LayerStoreProofs`, `LayerStoreRaceProofs` – theorems about `LayerStore`, with
  one invocation at a time and with any number of them.
* `LayerStoreRefinementProofs` – the theorem that LayerStore implements ImageStore,
  and what holds where nothing fails.
* `VMLifecycle` – a VM as domain (`dom`, `mac`), volumes (`vols`) and DHCP
  entries (`hosts`), and the commands run, build, rm, commit, host add and host
  rm. Both addresses of an entry are functions of the ID, so an entry is an ID.
  `phase` tells the three uses of VMRm apart: `vm rm`, inside VMCommit (which
  spares the boot volume) and after a failed build.
* `MCVMLifecycle` – the instances: two VMs, one with an extra disk.
* `VMLifecycleProofs` – theorems about `VMLifecycle`.
* `Addressing` – the arithmetic that turns an ID into a MAC address and an IP
  address and back (QemuMAC, AddToMAC, IDFromMAC, AddDHCPHost), the range that
  GetVMID searches, and the DHCP range and entries of `network add`. Widths are
  constants; conversions between uint and int wrap as they do in Go.
* `Network` – the access network with the addresses of Addressing: `net` is the
  network that has the name at the moment, with its UUID, entries (`hosts`) and
  libvirt's active and persistent flags; `leases` what its DHCP server has given
  away; `plug` the network a VM is attached to. `handle` is what an invocation
  has looked up. Commands: `vm run` and `vm rm` with everything they do to the
  network, `network add`, `network rm`. `strays` is a ghost variable for one
  property.
* `MCNetwork` – the instance.
* `NetworkProofs` – lemmas about the arithmetic of `Addressing` and theorems about
  `Network`.
* `BuildCache` – `image build --push --build-id`, `image push`, `image pull` and
  `image rm` of one image on several hosts. `remote` is the image in the
  registry, `local` the image in each pool, `made` the record of what was really
  provisioned on what and with which ID; the other variables are those of
  `imageBuildCommand`. `built` in an image says that image build has pushed it, and
  `overwritten` records for each host that somebody has pushed since it read the
  target.
* `MCBuildCache` – the instance: two hosts, two build IDs, and a base image that
  exists in two versions.
* `BuildCacheProofs` – theorems about `BuildCache`.
* `Provisioning` – `vm wait-ready`, `vm exec` and `vm run` with provisioning: the
  main goroutine (`pc`, `step`), one goroutine per VM (`g`) in an errgroup (`err`,
  `gctx`), the command's context (`ctx`), the container and the channels of its
  Wait (`cont`, `statusCh`, `watch`), and guests that answer or do not (`up`). An
  attempt of Ping is a connection (`Ping`) and a script (`Probe`); an rsync that is
  killed leaves its ssh process behind (`CopyKill`), which CombinedOutput waits for
  (`CopyDrained`).
  `began`, `finished` and `failed` record what has happened, for the properties.
* `MCProvisioning` – the instance: one step of each kind.
* `ProvisioningProofs` – theorems about `Provisioning`.

Definitions called "Mutant" are wrong variants of the definition that follows
them. They are used by no specification; replacing the definition by the mutant
makes the property it stands for in `PROJECT.json` fail, which shows that the
property depends on that code.

### Abstractions

LayerStore: data of a layer is one value; XML, progress bars and media types are
left out. Volumes not created by virter do not occur. The pull policy decides
only whether a pull happens. `vm run`, `vm rm` and `vm commit` appear with the
boot volume alone; VMLifecycle has the rest. `image prune` is one command with
two entries, with and without `--delete-unused`; which images are old is chosen
freely. An interrupted transfer leaves the volume with `None`. Registry and URL
errors before the first libvirt call are the command not being given.

VMLifecycle: the chain below a boot volume is left out, so that deleting it is
deleting one volume and CommitLayer is one step for what LayerStore does in
many. Domains are persistent, as all domains virter defines are. There is one
network and all extra disks are in one pool. Provisioning, and the reset of the
machine ID before a commit, are steps that need the running VM, may fail, and may
never end. Addresses and leases are in Network. At most one command at a time works
on a VM.

Network: one name; networks of other names do not interact with it. NetworkDefineXML
of a name that exists is refused, as libvirt refuses another UUID. Volumes are left
out, provisioning too. The DHCP server gives a VM the address of its entry unless
another MAC address has a lease for it, else a free address of its range; leases
end with the network and not otherwise, unless dhcp_release works, which it does
for root. Where the code calls something by a handle, the call fails if the network
with that UUID is gone. NetworkSetAutostart is one step with the definition. Masks
are contiguous (the size of a network divides the number of addresses), networks
are IPv4 and have DHCP, with a range that libvirt accepts: it holds neither the
first nor the last address. A MAC address that overflows ends `network add` with an
error and `vm run` with a panic, both before anything is changed. `static_dhcp` is in
VMLifecycle. Nobody else works on the same VM or asks for the same explicit ID at the
same time; that race is in VMLifecycle.

BuildCache: import, build of the VM and removal are single steps, LayerStore and
VMLifecycle having the rest. A layer determines those below it
(`BuildCacheAssumption`), since its digest covers the qcow2 header, which names the
backing file, and backing files are named by digest. What differs in the
provisioning is the build ID's business: the model records the ID that a layer was
provisioned with, not the steps. A registry write is one step, because the manifest
comes last. On a host one command at a time works on the target image, except for
`image rm`, which may come at any time.

Provisioning: one process at a time. Lookups in libvirt change nothing and are one
step that may fail, VMRun likewise (VMLifecycle has it). DialContext fails once the
context is cancelled. The container daemon is modelled from how containerRun uses
it: a name can be used once, Wait reports exits that come after it, a cancelled
call may have been carried out, streams and Wait end with their context, and
streams also with an error of their reader (`StreamBreaks`). An rsync
step has something to copy. The build's provisioning is the same loop with one VM
and without copying out.

Bounds: `MaxFaults` bounds the faults of a behaviour; the sets of names are
constants. Commands are given again and again, so behaviours are not bounded in
length.

## Runs

| Run | Instance | Result |
|---|---|---|
| LayerStoreSerial | one invocation at a time, 4 layers, 2 tags, no fault, fairness | the calls implement ImageStore; no garbage, sources copied, commands end |
| LayerStoreCrash | one at a time, 3 layers, one crash / failed transfer / failed lookup | backing files are never lost; a layer is right or empty; prune removes all that a command which died left unused |
| LayerStoreRace | pull and prune, two at a time, 2 layers, a failed deletion, fairness | a layer never has wrong content or a wrong parent; pull and prune end |
| VMLifecycleSerial | one at a time, any command, two failed calls or crashes, automatic and equal IDs, fairness | no disk or entry out of reach, running VMs complete, commits shut down, commands end or wait for a guest |
| VMLifecycleParallel | two at a time, run, rm, build and commit, one fault of any kind, two IDs that both VMs may ask for | disks and entries within reach; a running VM loses its entry only to one with the same MAC address |
| VMLifecycleStatic | two at a time, run, rm, host add and host rm with static_dhcp, one failed call, fairness | an entry changes only when a host command has come to its ID; boot volumes within reach; commands end |
| NetworkAll | two at a time, run, rm, network add and network rm, any number of failed calls, networks of 8, 4 and 2 addresses, fairness | entries inside their network, VMs have the address of their ID, automatic IDs legal, commands end |
| BuildCacheAll | two hosts, two builds, builds with and without ID, `--push` and `--no-cache`, pushes, pulls, removals, any number of failures | histories true, decision to reuse right, the image compared is the one pulled unless somebody pushed, no needless build |
| ProvisioningAll | three steps on two VMs, all commands, two faults, a signal at any time, fairness | steps in order, success means all was done, container removed, exit status kept; waiting, signals, rsync failures and container exits end what they should |
| LayerStoreRollback | violation of ReplaceKeepsImage | going back to an ancestor removes the image |
| LayerStoreInterrupted | violation of ImageComplete | an empty layer volume is reused |
| VMLifecycleAutoID | violation of AutoIDUnused | the automatic ID may be in use |

ImplementsImageStore includes what ImageComplete and NoDangling say in that run, and
more: that at every single call images and disks stand on complete layers and that
layers are only dropped when nothing stands on them. PruneComplete is checked with
crashes, because without them NoGarbage leaves the loop over the layers nothing to do.

The violations are explained, with the text they contradict, under "findings" in
`PROJECT.json`.

### Assumptions the properties need

Each passing run leaves out something under which its properties do not hold.
The following can be seen by changing a configuration:

* NoDangling needs one invocation at a time (`Procs`): DeleteIfUnused lists the
  volumes, reads their backing files one by one and then deletes (layer.go:528-559),
  and a volume created on the layer in between dangles.
* CommitShutsDown needs polls that do not fail (`"poll"`): a failed DomainIsActive
  ends the wait as if the guest had stopped (vm.go:564), and VMRm powers it off.
* NoDangling needs deletions that do not fail (`"delete"` not in `Faults`). When
  deleting the work volume fails, ToVolumeLayer deletes the layer volume in
  return (layer.go:374), also if it had found it rather than created it.
* SourceCopied needs downloads and lookups that do not fail (`"download"`,
  `"lookup"`): the error of a download is only logged (layer.go:254), any
  failed lookup counts as an existing layer (layer.go:359), and in both cases the
  source is deleted.
* RunningComplete needs VMs with different IDs when commands overlap: the MAC check
  and the definition are separate calls (vm.go:194-222), two runs may define VMs with
  one MAC address, and removing the VM that lost the race removes the DHCP entry of the
  other by their common address (dhcp.go:203). VMLifecycleParallel lets VMs ask for the
  same ID (`MCWantedSame`), and OnlyTwinTakesEntry says that nothing worse happens.
* NoLeakedEntry and OnlyTwinTakesEntry are about entries of virter's own: they need
  that nobody uses `network host add` and `network host rm` respectively.
* CommandsEnd of VMLifecycle leaves out commands that have come to the reset of the
  machine ID or to provisioning: connectSSHRetry tries until the command is cancelled
  (vm.go:924-939), ExecScript takes no context, so that a guest may keep them for ever.
* CancelEnds and RsyncFailureEnds except a guest that hangs (`Hung`): the context kills
  rsync and not the ssh process that rsync has started, and CombinedOutput, without a
  WaitDelay, reads on until that process closes the pipe (netcopy.go:95-103).
* RunningComplete needs volume names of different VMs to differ: the disk `b` of
  VM `a` and the boot volume of VM `a-b` have the same name, and `vm rm` of a
  half-created `a` (vm.go:385) deletes the boot volume of `a-b`.
* ImplementsImageStore needs what NoDangling needs, and no crash: an empty layer
  volume that is reused (LayerStoreInterrupted) is an image on a layer that is not
  there.
* NoLeftoverBoot needs commands other than build: VMCommit removes the domain before
  it converts the boot volume, so that the clean-up of ImageBuild finds no domain if
  the conversion fails (image.go:596-600), although the comment says "from here on
  it is safe to rm the VM". The boot volume stays, and no command removes it.
* ExitStatusKept is about `vm exec`: `vm run` ends with log.Fatal, exit code 1, when
  a step fails (vm_run.go:260), where doc/provisioning.md:19 promises the exit code
  of the script.
* VMAddress excludes networks on which a VM was started that is entered in another
  one (`strays`). AddDHCPHost uses the handle from the start of the invocation,
  DomainCreate attaches by name: if the network is replaced in between, the VM
  runs without an entry and may take the address of another.
* EntriesInside needs a `--dhcp-count` that fits, since buildNetworkDHCP does not
  compare with the end of the range (network_add.go:160). A `--dhcp-id` that is not
  the offset of the first address of the range gives entries other than those of
  the IDs, since they begin at that address whatever the ID is; virter's
  README.md:25-27 says that the ID is the index into the addresses of the network.
  VMAddress holds all the same, as `VMsHaveTheirAddress` shows, because libvirt
  refuses the second entry that `vm run` asks for. An entry for ID 0, the default
  of `--dhcp-id`, makes every search for an automatic ID fail, because GetVMID asks
  for the entry of wantedID, which is 0 (dhcp.go:392).
* AutoIDLegal and VMAddress need networks of at least two addresses (for one address
  `end` wraps around to 2^64-1) and the host at its first address. IDs of 2^63 and more are
  negative numbers to cidr.Host and AddToMAC.
* CacheHit allows that the target is pushed between the check and the pull, which
  fetches it again by name (image_build.go:153-168): then the build ends with an image
  that it has not compared (`overwritten`). It also needs a target pushed by image
  build: `image push` drops the history, but others may write what they like.
* HistoryTrue needs one command at a time on the image of a host: FindImage looks
  the result of the build up by its name (image_build.go:229), and another build or
  a pull of that name in between gets pushed with the wrong build ID.
* LayersSound with overlapping commands needs each work volume to be one
  command's: buffers named after a digest are, VMs and uploads by name are not.

Why the bounds are enough: the walks of the store distinguish a layer that is
shared, one that is not, one in the middle of a chain and one at its end, which
four layers and two tags provide; the races found need two invocations and one
layer. A VM interacts with another one only through an equal ID or an equal
volume name, so two VMs show what there is. Two faults are needed for a command
that fails half way and a clean-up that fails too.

Network has 8 addresses, 9 MAC addresses and 18 values of uint, so that every
conversion and every wrap-around of the code can happen, and the networks at the
beginning are one with room for automatic IDs and one of two addresses where there
is none. The one that replaces them has another size and one entry. `MaxGen` = 2
networks are enough for a handle that is out of date. In BuildCache two builds
(`MaxBuilds`) are enough for one host to find, overwrite or reuse the work of another;
the theorems below need no bound.

Fairness (`FairSpec`): an invocation that is under way makes its next call at
some time (weak fairness of `Step(p)`), which holds for a process that is
scheduled and a libvirtd that answers. Nothing is assumed of users, who need not
give commands, nor of guests, which need not stop or answer: that a commit ends is
due to the timeout of vmShutdown, which makes its polling step always possible, and
the two calls that talk to the guest over SSH (`Waiting`: "provision" and
"commit_reset") are not fair. In
Provisioning the goroutines of the process are fair, guests, containers, rsync and
users are not; scripts, the one that looks for the result of cloud-init included, are
assumed to end, because ExecScript takes no context and
a signal is caught: a script that hangs keeps the command from ending. The ssh process
of a killed rsync ends while its guest answers, since its standard input is closed;
nothing is assumed of it while the guest does not.

In Network the same holds of `Step(p)`; the DHCP server and failures are not fair.

## Proofs

Every safety property that a passing run checks is also a theorem: the invariants, the
properties of steps (StaticEntriesKept, OnlyTwinTakesEntry, SourceCopied) and the refinement. TLAPS checks
them for all values of the constants that satisfy the assumption of their module and
the hypotheses named below. An invariant of an
invocation is stated for one `p` (`ControlAt(p)`, `WorkAt(p)`, ...) and its proof
distinguishes the step of `p` itself, one case per action, from the step of another
invocation, for which a frame lemma (`OnlyOf`, `StepOnlyOf`) says what it leaves alone.
TLC has checked the invariants on the instances before they were proved.

### LayerStore

From the assumptions of LayerStore on its constants (disjoint kinds of volumes, below
each layer a fixed chain without cycles or strangers, a buffer per pull, load and fetch):

* `TypeCorrect`: `TypeOK` and a control invariant that says which local variables
  are set at which program counter. Any number of invocations, any fault.
* `SerialNoDangling`, `SerialPruneComplete`, `SerialLayersSound`: with one
  invocation at a time and deletions that do not fail, but with crashes, failed
  transfers and failed lookups at any point, as in LayerStoreCrash. The section above
  says why
  NoDangling needs both assumptions.
* `ConcurrentLayersSound` (`LayerStoreRaceProofs`): with any number of invocations
  of pull, rm, prune, vm run and vm rm and any fault, deletions included. Load,
  the pull of a URL and commit are excluded because two invocations can share
  their work volume under one name while they mean different contents.

The inductive invariant of the serial theorems adds to the properties what the
walk knows at each of its calls: at `del_scan`, every volume that has been
scanned is not based on `cur`, so that at `del_delete` nothing is; for prune,
every layer that is neither on the list nor ahead of the walk is in use, which
is what "following the chain after a deletion" preserves. The concurrent theorem
cannot rely on what an invocation has seen; its invariant says instead that a
buffer `import-<digest>` only ever holds nothing or the content of that digest
(`BuffersSound`), and that an invocation converts the buffer of the digest it is
working on (`PullLocal`), so that whoever fills a layer volume, and whenever, puts
the same thing in. Each proof has one step per action.

`LayerStoreRefinementProofs`, on top of the serial invariant:

| Theorem | Property | Hypotheses |
|---|---|---|
| `Refinement` | ImplementsImageStore | Alone; OwnBuffers; no fault but failed lookups |
| `ImagesAreComplete` | ImageComplete | the same |
| `SourceIsCopied` | SourceCopied | Alone; OwnBuffers; no faults |
| `NoGarbageLeft` | NoGarbage | Alone; OwnBuffers; no faults |

`Alone`: one invocation at a time. `OwnBuffers`: no VM is named like the buffer of a
pull, `import-<digest>`; a boot volume is a disk of ImageStore, a buffer is not. The
faults that are excluded are those under which the properties fail: a crash
and a failed upload or download leave an empty volume under the name of a layer, which
the next invocation takes for that layer, a failed deletion removes one
that others stand on, and a failed upload leaves the layers below it without a user.

For the refinement, `StoreInv` says what the invocation relies on from one call to the
next, above all that a layer volume is empty only while ToVolumeLayer is filling it,
and that nothing stands on it then; an empty layer is not yet a layer of ImageStore. `Hidden`,
`Deleted`, `Created` and `Same` say what the removal or creation of a volume is in
ImageStore, depending on its kind, and `CallRefines` goes through the calls: each is one
of the six actions of ImageStore or a stutter, and the guard of that action, such as
"nothing stands on the layer" in DropLayer, is what the invariant provides at that
call. `ImagesAreComplete` follows from the refinement alone: the actions of ImageStore
keep the chain below every layer whole (`WholeKept`), because AddLayer needs the parent
and DropLayer takes nothing that is stood on. ImageComplete is the property that
LayerStoreInterrupted finds violated after a crash.

For the other two, `CleanInv` says that no work volumes are left but those of the
invocation under way (`BuffersAt`), that no call of an import whose buffer has been
created can fail (`CleanAt`: names are free, the parent is there), so that no import
ends half way, and which layers may be without a user while it is at work (`UsedAt`,
`Spared`: the layer just made, and the one the deletion of unused layers looks at
next). At the end of the command nothing is spared.

### BuildCache

`BuildCacheProofs` proves all four properties of its run for any
number of hosts, build IDs, base images and builds, from `BuildCacheAssumption`:
`TypeCorrect`, `HistoryAlwaysTrue`, `CacheHitCorrect` and `NoBuildNeedless`. None of
them is inductive. The invariant `Inv` adds `Control`, what an invocation knows at
each point (at "pull" and "cached" that the comparison has succeeded, at "provision"
that it has not), and `Provenance`: every image that carries a build ID, in the
registry, in `existingTargetImage`, between the end of the build and the lookup, and
between the lookup and the push, was provisioned with it. `UnchangedMade` connects
the two: the comparison of the last history entry and of the layer below the top,
which is all that provisionStepsUnchanged looks at, decides whether an image was
provisioned on this base image with this ID. It rests on the assumption that a
layer determines those below it. For the second half of CacheHit `Control` says that,
from the check to the pull, what the invocation has seen is what the registry has,
unless `overwritten`.

### VMLifecycle

`VMLifecycleProofs`, for any number of commands on any VMs, any failed call and any
crash:

| Theorem | Property | Hypotheses |
|---|---|---|
| `TypeCorrect` | TypeOK | none |
| `NoDisksLeft` | NoLeftoverDisks | OwnVolumes |
| `NoBootVolumeLeft` | NoLeftoverBoot | OwnVolumes; neither build nor commit |
| `CommitWaits` | CommitShutsDown | no failing poll |
| `StaticEntriesStay` | StaticEntriesKept (a property of steps) | none |
| `NoEntryLeaks` | NoLeakedEntry | no host add |
| `OnlyTwinsTakeEntries` | OnlyTwinTakesEntry (a property of steps) | no host rm |
| `RunningIsComplete` | RunningComplete | OwnVolumes; Alone or OwnIDs; no static_dhcp; no host rm |

`OwnVolumes`: volume names of different VMs and of one VM differ. `Alone`: one
command at a time; `OwnIDs`: the VMs ask for different explicit IDs. Each hypothesis
excludes something described above under "Assumptions the properties need", or
entries that the user makes and removes by hand. NoEntryLeaks and OnlyTwinsTakeEntries
hold whatever IDs the VMs ask for, the race between two runs included.

The common invariant is `Sound`: types, what is set at which call (`ControlOK`) and
that a VM has one command at a time (`OneOwner`). On top of it each theorem has the
part it needs: `Work` (which domain and volumes there are while a command is under
way on a VM), `Stopped` (VMRm inside a commit finds the domain off), `Asked` and
`Clear` (no two VMs have one MAC address, `UniqueMAC`, and the ID that an invocation is
about to define is nobody's: because no other VM asks for it, or because nobody was
there since getDomainForMAC), `Take` (VMRm is about to remove no entry but that of its
own VM), `Kept` and `Start` (the entry is there when DomainCreate is called). `Kept`
says that each entry has some VM of its ID whose removal still has the entry before it:
`GoneAt`, it is on VMRm's list if it is there, and not there once VMRm goes on to the
volumes. With two VMs of one ID it cannot say which, and need not: a removal that takes
the entry takes it from both. Only RunningIsComplete needs UniqueMAC.

### Provisioning

`ProvisioningProofs` proves `TypeCorrect`, `StepsAreInOrder`, `SuccessIsComplete`,
`ContainerIsRemoved` and `ExitStatusIsKept` with no hypotheses: any VMs, any sequence
of steps, any number of attempts and faults. The invariant `Inv` has `Control` (which
commands and kinds of goroutines can be under way at each point of the main goroutine,
and that no step begins after an error), `Progress` (between the steps every VM has done
all the steps before; while goroutines are at work one that rests has done its step,
unless the group has an error), `Ends` (the two properties of an ended command),
`Leftover` (a container that was created is there only where Remove is still ahead) and
`Status` (without faults and signal, where a failed script is on its way from the
container's Wait or the goroutine of its VM to the exit code).

### Network

`NetworkProofs`, for any number of invocations and VMs and integers of any width:

| Theorem | Property | Hypotheses |
|---|---|---|
| `TypeCorrect` | TypeOK | none |
| `EntriesLieInside` | EntriesInside | EntriesFit: the entries of `--dhcp-count` fit in the network |
| `AutoIDsAreLegal` | AutoIDLegal | NoSingle: no network of a single address |
| `VMsHaveTheirAddress` | VMAddress | NoSingle; Alone, or every run asks for an ID |

First come facts about the arithmetic: `Remainder` and `Division` (the network address
of an address in a network is its own, and all of the network lies in the address
space), `HostInside` (cidr.Host is an address of the network or an error),
`IDFromQemuMAC` and `IDInjective` (IDFromMAC is the inverse of QemuMAC, for all IDs for
which the latter does not panic, whatever the widths), `RangeInside`. The invariant
follows an address from where it is computed: what `ips` holds at "add_host" is the
address of the ID in the network with the UUID of the handle (`Addresses`); if the
handle is alive then that is the network there is, because no UUID is used twice
(`gen`); so the entry lies in it (`Entries`), and belongs to the ID of the MAC address
(`VMEntries`). `Search` bounds `id` from above and below while GetVMID counts down,
which keeps the unsigned subtraction from wrapping around. `FreeMACs` says that a MAC
address that was found free stays free until the definition. `Attached` and `Leased`
carry the result over to the DHCP server: on a network that is not in `strays` a
running VM has the entry of its ID, and so a lease of its MAC address is for the
address of that entry, also if it was left over from another VM with that ID.
The last theorem's second hypothesis excludes that somebody asks for the ID that
another invocation has just found for itself; in NetworkAll, where explicit and
automatic IDs are mixed, the two cannot be equal.

### Only model-checked

* Liveness (CommandsEnd, WaitEnds, CancelEnds and the others under `FairSpec`): proofs
  under fairness need ENABLED, which the prover does not handle.
* `VMAddress` where explicit and automatic IDs are mixed (NetworkAll).
* The properties of the runs that expect a violation.

## Not modelled

* `image save` (Squashed): a temporary volume and its removal by a defer, which
  log.Fatal skips, so that a failed save leaves it (image_save.go:96).
* The transfer of single layers to a registry (ToRegistryLayer): an error of the
  download is only logged (layer.go:252), as SourceCopied has it for imports.
* SSH keys (keystore.go): files, with a race of two first invocations that may store
  the private key of one with the public key of the other.
* The registry file (cmd/registry.go): a download that fails half way leaves a
  truncated file that counts as there from then on.
* Device letters, parsing of disks, mounts and provisioning files, configuration,
  listings, XML and cloud-init documents: functions of their input without state of
  their own, which unit tests reach. The VNC port of `vm run --count`, fixed by the
  first ID for all VMs (vm_run.go:188), is among them.
* Interactive sessions (`vm ssh`), snapshots (rmSnapshots), and commands on the same
  VM at the same time.

## Plan

1. Done: LayerStore, its abstract specification, runs and theorems; VMLifecycle and
   Provisioning and their runs; Addressing and Network; BuildCache, its run and its
   theorems.
2. Done: theorems about VMLifecycle, Provisioning and Network.
3. Done: NoGarbage, SourceCopied and ImageComplete of LayerStore and the refinement of
   ImageStore, all with one invocation at a time.
   Next: VMAddress with mixed IDs; NoGarbage with failed lookups.
4. Perhaps: VMs as atomic objects that VMLifecycle implements; the build as a
   composition of Provisioning and VMLifecycle; image save.
