---------------------------- MODULE Provisioning ----------------------------
(***************************************************************************)
(* Waiting for VMs and provisioning them: WaitVmReady, VMExecContainer,    *)
(* VMExecShell, VMExecRsync of internal/virter/vm.go, containerRun of      *)
(* container.go, Ping of pkg/actualtime, and the commands vm wait-ready,   *)
(* vm exec and vm run --provision.                                         *)
(*                                                                         *)
(* One process at a time works on all of its VMs: a main goroutine that    *)
(* goes through the steps, and one goroutine per VM in an errgroup.  A     *)
(* signal cancels its context.  Guests come up and go down as they like,   *)
(* scripts and containers end when they like, calls fail.                  *)
(***************************************************************************)
EXTENDS Integers, Sequences

CONSTANTS
  VM,         \* the VMs of the command
  Steps,      \* the steps of the provisioning file, in order
  Copy,       \* container steps have a copy section
  Retries,    \* VmReadyConfig.Retries
  Cmds,       \* the commands that are given
  MaxFaults   \* bound on failed calls and lost connections

ASSUME ProvisioningAssumption ==
  /\ Steps \in Seq({"container", "shell", "rsync"})
  /\ Copy \in BOOLEAN
  /\ Retries \in Nat \ {0}
  /\ Cmds \subseteq {"wait", "exec", "run"}
  /\ MaxFaults \in Nat

VARIABLES
  up,         \* up[v]: the guest answers on its SSH port
  cont,       \* the container of the command's name
  statusCh,   \* what Wait has sent: nothing, status zero or another
  watch,      \* Wait has been called for the container
  excused,    \* the daemon did not answer Create, or did not do Remove
  ctx,        \* the context of the command is cancelled
  cmd,        \* the command
  pc,         \* where the main goroutine is
  step,       \* the step it is at
  g,          \* g[v]: where the goroutine of v is
  gctx,       \* the context of the errgroup is cancelled
  tries,      \* tries[v]: i of Ping
  err,        \* the first error: a script's exit status or another
  exit,       \* the exit code: zero, that of the script, or one
  began,      \* began[v]: the last step begun on v
  finished,   \* finished[v]: the last step done on v, -1 before it is ready
  failed,     \* a script has ended with a non-zero status
  faults      \* faults so far

daemon == <<cont, statusCh, watch, excused>>
group == <<g, gctx, tries>>
history == <<began, finished, failed>>
vars == <<up, daemon, ctx, cmd, pc, step, group, err, exit, history, faults>>

Labels == {"idle", "exited", "ready", "step", "join", "create", "watch", "start",
           "logs", "stream", "await", "copy", "stop", "remove"}

\* An orphan is the ssh child of an rsync that has been killed.
AtWork == {"ready_ips", "ping", "probe", "tick", "dial", "backoff", "script", "copy_ips",
           "rsync", "orphan"}

Init ==
  /\ up = [v \in VM |-> FALSE]
  /\ cont = "none" /\ statusCh = "empty" /\ watch = FALSE /\ excused = FALSE
  /\ ctx = FALSE
  /\ cmd = "none" /\ pc = "idle" /\ step = 1
  /\ g = [v \in VM |-> "rest"] /\ gctx = FALSE /\ tries = [v \in VM |-> 0]
  /\ err = "none" /\ exit = "none"
  /\ began = [v \in VM |-> 0] /\ finished = [v \in VM |-> 0] /\ failed = FALSE
  /\ faults = 0

Fault == faults < MaxFaults /\ faults' = faults + 1

-----------------------------------------------------------------------------
(* The end of goroutines and of the command.                               *)

\* The goroutine of v returns the error e; the group keeps the first.
Return(v, e) ==
  /\ g' = [g EXCEPT ![v] = "rest"]
  /\ err' = IF err = "none" THEN e ELSE err

\* logProvisioningErrorAndExit of vm exec; vm run and vm wait-ready exit with
\* log.Fatal.
Exit(e) ==
  /\ pc' = "exited"
  /\ err' = e
  /\ exit' = IF e = "none" THEN "zero"
             ELSE IF cmd = "exec" /\ e = "status" THEN "script" ELSE "one"

\* The main goroutine starts the group's goroutines at l and waits for them.
Go(l) ==
  /\ g' = [v \in VM |-> l]
  /\ gctx' = FALSE
  /\ tries' = [v \in VM |-> 0]

\* A command is given.
Command(c) ==
  /\ pc \in {"idle", "exited"}
  /\ cmd' = c
  /\ ctx' = FALSE
  /\ step' = 1
  /\ err' = "none" /\ exit' = "none"
  /\ began' = [v \in VM |-> 0]
  /\ failed' = FALSE
  /\ IF c = "exec"
     THEN /\ pc' = "step"
          /\ finished' = [v \in VM |-> 0]
          /\ UNCHANGED group
     ELSE /\ pc' = "ready"
          /\ finished' = [v \in VM |-> -1]
          /\ Go("ready_ips")
  /\ UNCHANGED <<up, daemon, faults>>

-----------------------------------------------------------------------------
(* WaitVmReady and Ping.                                                   *)

\* Addresses, host keys and user name of v are looked up in libvirt; for vm
\* run, VMRun comes first.
ReadyLookup(v) ==
  /\ g[v] = "ready_ips"
  /\ \/ /\ g' = [g EXCEPT ![v] = "ping"]
        /\ UNCHANGED <<err, faults>>
     \/ Fault /\ Return(v, "other")
  /\ UNCHANGED <<up, daemon, ctx, cmd, pc, step, gctx, tries, exit, history>>

\* DialContext gets through.
Reachable(v) == up[v] /\ ~ctx

\* Mutant: i < count, one attempt too many.
AttemptFailedOneMore(v) ==
  IF tries[v] < Retries
  THEN /\ g' = [g EXCEPT ![v] = "tick"]
       /\ tries' = [tries EXCEPT ![v] = @ + 1]
       /\ UNCHANGED err
  ELSE Return(v, "other") /\ UNCHANGED tries

\* Mutant: attempts are not counted.
AttemptFailedForever(v) ==
  /\ g' = [g EXCEPT ![v] = "tick"]
  /\ UNCHANGED <<tries, err>>

\* What Ping does with an error of readyFunc: the last one is returned.
AttemptFailed(v) ==
  IF tries[v] < Retries - 1
  THEN /\ g' = [g EXCEPT ![v] = "tick"]
       /\ tries' = [tries EXCEPT ![v] = @ + 1]
       /\ UNCHANGED err
  ELSE Return(v, "other") /\ UNCHANGED tries

\* readyFunc is called: the connection.
Ping(v) ==
  /\ g[v] = "ping"
  /\ \/ /\ Reachable(v)
        /\ g' = [g EXCEPT ![v] = "probe"]
        /\ UNCHANGED <<tries, err>>
     \/ ~Reachable(v) /\ AttemptFailed(v)
  /\ UNCHANGED <<up, daemon, ctx, cmd, pc, step, gctx, exit, history, faults>>

\* readyFunc: the script that looks for the result of cloud-init returns.  It takes no
\* context; the result may not be there yet, or the connection get lost.
Probe(v) ==
  /\ g[v] = "probe"
  /\ \/ /\ g' = [g EXCEPT ![v] = "rest"]
        /\ finished' = [finished EXCEPT ![v] = 0]
        /\ UNCHANGED <<tries, err>>
     \/ AttemptFailed(v) /\ UNCHANGED finished
  /\ UNCHANGED <<up, daemon, ctx, cmd, pc, step, gctx, exit, began, failed, faults>>

\* The select of Ping: a tick may be pending when the context is cancelled.
PingWait(v) ==
  /\ g[v] = "tick"
  /\ \/ g' = [g EXCEPT ![v] = "ping"] /\ UNCHANGED err
     \/ ctx /\ Return(v, "other")
  /\ UNCHANGED <<up, daemon, ctx, cmd, pc, step, gctx, tries, exit, history, faults>>

\* g.Wait of vm run and vm wait-ready.
ReadyJoin ==
  /\ pc = "ready"
  /\ \A v \in VM : g[v] = "rest"
  /\ IF err # "none" \/ cmd = "wait"
     THEN Exit(err)
     ELSE pc' = "step" /\ UNCHANGED <<err, exit>>
  /\ UNCHANGED <<up, daemon, ctx, cmd, step, group, history, faults>>

-----------------------------------------------------------------------------
(* The loop of execProvision.                                              *)

Last == step > Len(Steps)

Done ==
  /\ pc = "step"
  /\ Last
  /\ Exit("none")
  /\ UNCHANGED <<up, daemon, ctx, cmd, step, group, history, faults>>

\* getIPs and getKnownHostsFor look the VMs up in libvirt; a VM that is not
\* running, or a call that fails, ends the step.
Lookups ==
  /\ Fault
  /\ Exit("other")
  /\ UNCHANGED group

At(kind) == pc = "step" /\ ~Last /\ Steps[step] = kind

\* VMExecShell up to its goroutines.
BeginShell ==
  /\ At("shell")
  /\ \/ Go("dial") /\ pc' = "join" /\ UNCHANGED <<err, exit, faults>>
     \/ Lookups
  /\ UNCHANGED <<up, daemon, ctx, cmd, step, history>>

\* VMExecRsync up to its goroutines: the source must exist and be in the
\* working directory.
BeginRsync ==
  /\ At("rsync")
  /\ \/ Go("copy_ips") /\ pc' = "join" /\ UNCHANGED <<err, exit, faults>>
     \/ Fault /\ Exit("other") /\ UNCHANGED group
  /\ UNCHANGED <<up, daemon, ctx, cmd, step, history>>

\* execContainer and VMExecContainer up to containerRun.
BeginContainer ==
  /\ At("container")
  /\ \/ pc' = "create" /\ UNCHANGED <<group, err, exit, faults>>
     \/ Lookups
  /\ UNCHANGED <<up, daemon, ctx, cmd, step, history>>

\* g.Wait of a step, and what execProvision makes of its result.
EndStep(e) ==
  IF e = "none"
  THEN pc' = "step" /\ step' = step + 1 /\ UNCHANGED <<err, exit>>
  ELSE Exit(e) /\ UNCHANGED step

\* Mutant: the first goroutine to return ends the step.
JoinFirst ==
  /\ pc = "join"
  /\ \E v \in VM : g[v] = "rest"
  /\ EndStep(err)
  /\ UNCHANGED <<up, daemon, ctx, cmd, group, history, faults>>

\* Mutant: the error of g.Wait is dropped.
JoinNoError ==
  /\ pc = "join"
  /\ \A v \in VM : g[v] = "rest"
  /\ EndStep("none")
  /\ UNCHANGED <<up, daemon, ctx, cmd, group, history, faults>>

Join ==
  /\ pc = "join"
  /\ \A v \in VM : g[v] = "rest"
  /\ EndStep(err)
  /\ UNCHANGED <<up, daemon, ctx, cmd, group, history, faults>>

-----------------------------------------------------------------------------
(* Shell steps: connectSSHRetry and runSSHCommand.                         *)

\* Mutant: retries without looking at the context.
DialNoCancel(v) ==
  /\ g[v] = "dial"
  /\ g' = [g EXCEPT ![v] = IF Reachable(v) THEN "script" ELSE "backoff"]
  /\ began' = [began EXCEPT ![v] = IF Reachable(v) THEN step ELSE @]
  /\ UNCHANGED <<up, daemon, ctx, cmd, pc, step, gctx, tries, err, exit, finished, failed, faults>>

Dial(v) ==
  /\ g[v] = "dial"
  /\ \/ /\ Reachable(v)
        /\ g' = [g EXCEPT ![v] = "script"]
        /\ began' = [began EXCEPT ![v] = step]
        /\ UNCHANGED err
     \/ /\ ctx
        /\ Return(v, "other")
        /\ UNCHANGED began
     \/ /\ ~ctx /\ ~up[v]
        /\ g' = [g EXCEPT ![v] = "backoff"]
        /\ UNCHANGED <<err, began>>
  /\ UNCHANGED <<up, daemon, ctx, cmd, pc, step, gctx, tries, exit, finished, failed, faults>>

\* The second goes by, or the context is cancelled meanwhile.
Backoff(v) ==
  /\ g[v] = "backoff"
  /\ \/ g' = [g EXCEPT ![v] = "dial"] /\ UNCHANGED err
     \/ ctx /\ Return(v, "other")
  /\ UNCHANGED <<up, daemon, ctx, cmd, pc, step, gctx, tries, exit, history, faults>>

\* ExecScript returns: it takes no context.
Script(v) ==
  /\ g[v] = "script"
  /\ \/ /\ g' = [g EXCEPT ![v] = "rest"]
        /\ finished' = [finished EXCEPT ![v] = step]
        /\ UNCHANGED <<err, failed, faults>>
     \/ /\ Return(v, "status")
        /\ failed' = TRUE
        /\ UNCHANGED <<finished, faults>>
     \/ /\ Fault
        /\ Return(v, "other")
        /\ UNCHANGED <<finished, failed>>
  /\ UNCHANGED <<up, daemon, ctx, cmd, pc, step, gctx, tries, exit, began>>

-----------------------------------------------------------------------------
(* Rsync steps: VMExecCopy and RsyncNetworkCopier.Copy.                    *)

CopyLookup(v) ==
  /\ g[v] = "copy_ips"
  /\ \/ /\ g' = [g EXCEPT ![v] = "rsync"]
        /\ began' = [began EXCEPT ![v] = step]
        /\ UNCHANGED <<gctx, err, faults>>
     \/ /\ Fault
        /\ Return(v, "other")
        /\ gctx' = TRUE
        /\ UNCHANGED began
  /\ UNCHANGED <<up, daemon, ctx, cmd, pc, step, tries, exit, finished, failed>>

\* rsync ends by itself.
CopyEnd(v) ==
  /\ g[v] = "rsync"
  /\ \/ /\ up[v]
        /\ g' = [g EXCEPT ![v] = "rest"]
        /\ finished' = [finished EXCEPT ![v] = step]
        /\ UNCHANGED <<gctx, err>>
     \/ /\ Return(v, "other")
        /\ gctx' = TRUE
        /\ UNCHANGED finished
  /\ UNCHANGED <<up, daemon, ctx, cmd, pc, step, tries, exit, began, failed, faults>>

\* Mutant: a group without a context of its own.
CopyKillCtx(v) ==
  /\ g[v] = "rsync"
  /\ ctx
  /\ g' = [g EXCEPT ![v] = "orphan"]
  /\ UNCHANGED <<up, daemon, ctx, cmd, pc, step, gctx, tries, err, exit, history, faults>>

\* CommandContext kills rsync when the context of the group is cancelled.  The ssh
\* process that rsync has started lives on, and holds the pipe that CombinedOutput
\* reads from.
CopyKill(v) ==
  /\ g[v] = "rsync"
  /\ ctx \/ gctx
  /\ g' = [g EXCEPT ![v] = "orphan"]
  /\ UNCHANGED <<up, daemon, ctx, cmd, pc, step, gctx, tries, err, exit, history, faults>>

\* The ssh process ends and with it CombinedOutput.
CopyDrained(v) ==
  /\ g[v] = "orphan"
  /\ Return(v, "other")
  /\ gctx' = TRUE
  /\ UNCHANGED <<up, daemon, ctx, cmd, pc, step, tries, exit, history, faults>>

-----------------------------------------------------------------------------
(* Container steps: containerRun.                                          *)

\* What every action of this section leaves alone.
ContainerFrame == UNCHANGED <<up, ctx, cmd, group>>

\* Create: a container of this name may be there from an earlier command; of a
\* call that is cancelled nobody knows whether it was carried out.
Create ==
  /\ pc = "create"
  /\ \/ /\ ~ctx /\ cont = "none"
        /\ cont' = "created"
        /\ statusCh' = "empty" /\ watch' = FALSE
        /\ pc' = "watch"
        /\ UNCHANGED <<excused, err, exit, faults>>
     \/ /\ \/ (ctx \/ cont # "none") /\ UNCHANGED <<cont, excused, faults>>
           \/ ctx /\ cont = "none" /\ cont' = "created" /\ excused' = TRUE /\ UNCHANGED faults
           \/ Fault /\ UNCHANGED <<cont, excused>>
        /\ Exit("other")
        /\ UNCHANGED <<statusCh, watch>>
  /\ ContainerFrame
  /\ UNCHANGED <<step, history>>

\* Mutant: the exit of the container is not subscribed to before the start.
WatchNot ==
  /\ pc = "watch"
  /\ pc' = "start"
  /\ ContainerFrame
  /\ UNCHANGED <<daemon, step, err, exit, history, faults>>

\* containerProvider.Wait, before the container is started.
Watch ==
  /\ pc = "watch"
  /\ watch' = TRUE
  /\ pc' = "start"
  /\ ContainerFrame
  /\ UNCHANGED <<cont, statusCh, excused, step, err, exit, history, faults>>

\* Mutant: Stop and Remove are deferred only after a successful start.
StartNoDefer ==
  /\ pc = "start"
  /\ cont' \in {"created", "running"}
  /\ \/ /\ ~ctx
        /\ pc' = "logs"
        /\ UNCHANGED <<err, exit>>
     \/ ctx /\ Exit("other")
  /\ ContainerFrame
  /\ UNCHANGED <<statusCh, watch, excused, step, history, faults>>

\* Start: after an error the container may be running all the same.
Start ==
  /\ pc = "start"
  /\ \/ /\ ~ctx
        /\ cont' = "running"
        /\ pc' = "logs"
        /\ UNCHANGED <<err, faults>>
     \/ /\ (ctx /\ UNCHANGED faults) \/ Fault
        /\ cont' \in {"created", "running"}
        /\ pc' = "stop"
        /\ err' = "other"
  /\ began' = [v \in VM |-> step]
  /\ ContainerFrame
  /\ UNCHANGED <<statusCh, watch, excused, step, exit, finished, failed>>

\* streamLogs: the call, and its two goroutines, which end with the container
\* or with the context.
Logs ==
  /\ pc = "logs"
  /\ \/ ~ctx /\ pc' = "stream" /\ UNCHANGED <<err, faults>>
     \/ /\ (ctx /\ UNCHANGED faults) \/ Fault
        /\ pc' = "stop"
        /\ err' = "other"
  /\ ContainerFrame
  /\ UNCHANGED <<daemon, step, exit, history>>

Stream ==
  /\ pc = "stream"
  /\ cont = "exited" \/ ctx
  /\ pc' = "await"
  /\ ContainerFrame
  /\ UNCHANGED <<daemon, step, err, exit, history, faults>>

\* The readers stop for an error of their own, which is only logged.
StreamBreaks ==
  /\ pc = "stream"
  /\ cont = "running"
  /\ Fault
  /\ pc' = "await"
  /\ ContainerFrame
  /\ UNCHANGED <<daemon, step, err, exit, history>>

\* Mutant: the status is reported as an error without a number.
AwaitNoStatus ==
  /\ pc = "await"
  /\ err' = IF statusCh = "zero" THEN "none" ELSE "other"
  /\ pc' = IF Copy THEN "copy" ELSE "stop"
  /\ ContainerFrame
  /\ UNCHANGED <<daemon, step, exit, history, faults>>

\* The select of containerWait.
Await ==
  /\ pc = "await"
  /\ \/ ctx /\ err' = "other"
     \/ statusCh = "zero" /\ err' = "none"
     \/ statusCh = "nonzero" /\ err' = "status"
  /\ pc' = IF Copy THEN "copy" ELSE "stop"
  /\ ContainerFrame
  /\ UNCHANGED <<daemon, step, exit, history, faults>>

\* containerCopy, with a context of its own; its error replaces the other.
CopyOut ==
  /\ pc = "copy"
  /\ \/ UNCHANGED <<err, faults>>
     \/ Fault /\ err' = "other"
  /\ pc' = "stop"
  /\ ContainerFrame
  /\ UNCHANGED <<daemon, step, exit, history>>

\* The deferred calls of Stop and Remove, with contexts of their own.
Stop ==
  /\ pc = "stop"
  /\ \/ /\ cont' = IF cont = "running" THEN "exited" ELSE cont
        /\ UNCHANGED faults
     \/ Fault /\ UNCHANGED cont
  /\ pc' = "remove"
  /\ ContainerFrame
  /\ UNCHANGED <<statusCh, watch, excused, step, err, exit, history>>

Remove ==
  /\ pc = "remove"
  /\ \/ /\ cont' = "none"
        /\ UNCHANGED <<excused, faults>>
     \/ /\ (cont = "running" /\ UNCHANGED faults) \/ Fault
        /\ excused' = TRUE
        /\ UNCHANGED cont
  /\ EndStep(err)
  /\ finished' = IF err = "none" THEN [v \in VM |-> step] ELSE finished
  /\ ContainerFrame
  /\ UNCHANGED <<statusCh, watch, began, failed>>

-----------------------------------------------------------------------------
(* The environment.                                                        *)

\* The program in the container ends.
ContainerExit ==
  /\ cont = "running"
  /\ cont' = "exited"
  /\ \E s \in {"zero", "nonzero"} :
       /\ statusCh' = IF watch THEN s ELSE statusCh
       /\ failed' = (failed \/ s = "nonzero")
  /\ UNCHANGED <<up, watch, excused, ctx, cmd, pc, step, group, err, exit, began, finished, faults>>

\* SIGINT or SIGTERM: signal.NotifyContext.
Signal ==
  /\ pc \notin {"idle", "exited"}
  /\ ~ctx
  /\ ctx' = TRUE
  /\ UNCHANGED <<up, daemon, cmd, pc, step, group, err, exit, history, faults>>

\* A guest starts or stops to answer.
Guest(v) ==
  /\ up' = [up EXCEPT ![v] = ~@]
  /\ UNCHANGED <<daemon, ctx, cmd, pc, step, group, err, exit, history, faults>>

-----------------------------------------------------------------------------
ContainerRun == Create \/ Watch \/ Start \/ Logs \/ Stream \/ Await \/ CopyOut \/ Stop \/ Remove

Main == ReadyJoin \/ Done \/ BeginShell \/ BeginRsync \/ BeginContainer \/ Join \/ ContainerRun

Goroutine(v) ==
  ReadyLookup(v) \/ Ping(v) \/ PingWait(v) \/ Dial(v) \/ Backoff(v) \/ CopyLookup(v) \/ CopyKill(v)

\* ExecScript.
Remote(v) == Probe(v) \/ Script(v)

Next ==
  \/ \E c \in Cmds : Command(c)
  \/ Main
  \/ StreamBreaks
  \/ \E v \in VM : Goroutine(v) \/ Remote(v) \/ CopyEnd(v) \/ CopyDrained(v) \/ Guest(v)
  \/ ContainerExit
  \/ Signal

Spec == Init /\ [][Next]_vars

\* The process is scheduled, scripts end some time, as nothing interrupts them, and an
\* ssh process whose standard input is closed ends while its guest answers.  Guests,
\* containers, rsync, users and faults are not fair.
FairSpec ==
  /\ Spec
  /\ WF_vars(Main)
  /\ \A v \in VM : /\ WF_vars(Goroutine(v)) /\ WF_vars(Remote(v))
                   /\ WF_vars(up[v] /\ CopyDrained(v))

-----------------------------------------------------------------------------
(* Properties.                                                             *)

TypeOK ==
  /\ up \in [VM -> BOOLEAN]
  /\ cont \in {"none", "created", "running", "exited"}
  /\ statusCh \in {"empty", "zero", "nonzero"}
  /\ watch \in BOOLEAN /\ excused \in BOOLEAN /\ ctx \in BOOLEAN /\ gctx \in BOOLEAN
  /\ cmd \in {"none", "wait", "exec", "run"}
  /\ pc \in Labels
  /\ step \in 1..(Len(Steps) + 1)
  /\ g \in [VM -> AtWork \cup {"rest"}]
  /\ tries \in [VM -> 0..(Retries - 1)]
  /\ err \in {"none", "status", "other"}
  /\ exit \in {"none", "zero", "script", "one"}
  /\ began \in [VM -> 0..Len(Steps)]
  /\ finished \in [VM -> -1..Len(Steps)]
  /\ failed \in BOOLEAN
  /\ faults \in 0..MaxFaults

\* "Virter will execute them in order": a step begins on a VM only when every
\* VM has been found ready and has the step before behind it (execProvision,
\* and g.Wait in VMExecShell and VMExecRsync).
StepsInOrder == \A v, w \in VM : began[v] <= finished[w] + 1

\* A command that exits with zero has found all VMs ready and done all steps on
\* all of them, whoever failed or was cancelled first.
SuccessMeansAll ==
  exit = "zero" => \A v \in VM : finished[v] = IF cmd = "wait" THEN 0 ELSE Len(Steps)

\* After a command its container is gone, whatever failed on the way, a start
\* whose answer was lost included, unless the daemon failed to remove it.
ContainerRemoved == pc = "exited" => cont = "none" \/ excused

\* Without a signal and without a fault, vm exec exits with the status of a
\* script that failed, in a container or on one of several VMs
\* (logProvisioningErrorAndExit).
ExitStatusKept ==
  pc = "exited" /\ cmd = "exec" /\ failed /\ ~ctx /\ faults = 0 => exit = "script"

\* Waiting for VMs ends even if they never answer (the count of Ping).
WaitEnds == pc = "ready" ~> pc # "ready"

\* rsync has been killed, and its ssh process waits for a guest that does not answer.
Hung == \E v \in VM : g[v] = "orphan" /\ ~up[v]

\* A signal ends the command, wherever it is: in a retry, in a container that goes on
\* for ever, and in rsync as soon as the guests it was talking to answer.  The signal
\* stays, so that from every later moment on the command still ends or a guest hangs.
CancelEnds == ctx ~> (pc = "exited" \/ Hung)

\* When rsync fails for one VM, the step does not wait for what rsync has to do on the
\* others (errgroup.WithContext in VMExecRsync), only for guests that hang.
RsyncFailureEnds == (pc = "join" /\ gctx) ~> (pc = "exited" \/ Hung)

\* The end of a container is noticed however early it comes (Wait is called
\* before Start).
ContainerExitSeen ==
  (pc \in {"stream", "await"} /\ cont = "exited") ~> pc \notin {"stream", "await"}
=============================================================================
