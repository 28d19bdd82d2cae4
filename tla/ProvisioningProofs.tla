------------------------ MODULE ProvisioningProofs ------------------------
(***************************************************************************)
(* Theorems about Provisioning for any number of VMs, steps, retries,      *)
(* commands and faults.                                                    *)
(***************************************************************************)
EXTENDS Provisioning, TLAPS

\* The labels between the check of a step and its end.
BeforeStart == {"step", "create", "watch", "start"}
AfterStart == {"logs", "stream", "await", "copy", "stop", "remove"}
ContainerLabels == {"create", "watch", "start"} \cup AfterStart

\* Where the goroutines can be while the main goroutine is at its label.
GoroutinesAt(l, kind) ==
  CASE l = "ready" -> {"ready_ips", "ping", "probe", "tick", "rest"}
    [] l = "join" /\ kind = "shell" -> {"dial", "backoff", "script", "rest"}
    [] l = "join" /\ kind = "rsync" -> {"copy_ips", "rsync", "orphan", "rest"}
    [] OTHER -> {"rest"}

\* What the main goroutine is at.
Control ==
  /\ pc # "exited" => exit = "none"
  /\ pc = "ready" => cmd \in {"wait", "run"}
  /\ pc \in {"step", "join"} \cup ContainerLabels => cmd \in {"exec", "run"}
  /\ pc \in {"join"} \cup ContainerLabels => step <= Len(Steps)
  /\ pc = "join" => Steps[step] \in {"shell", "rsync"}
  /\ pc \in {"step", "create", "watch", "start", "logs", "stream", "await"} => err = "none"
  /\ \A v \in VM : g[v] \in GoroutinesAt(pc, Steps[step])

\* How far the VMs have come.
Progress ==
  /\ pc = "ready" =>
       /\ step = 1
       /\ \A v \in VM : /\ began[v] = 0 /\ finished[v] \in {-1, 0}
                        /\ g[v] = "rest" /\ err = "none" => finished[v] = 0
  /\ pc \in BeforeStart => \A v \in VM : began[v] <= step - 1 /\ finished[v] = step - 1
  /\ pc \in AfterStart => \A v \in VM : began[v] <= step /\ finished[v] = step - 1
  /\ pc = "join" =>
       \A v \in VM : /\ began[v] <= step /\ finished[v] \in {step - 1, step}
                     /\ g[v] = "rest" /\ err = "none" => finished[v] = step

\* The parts of TypeOK.
BoolType ==
  /\ up \in [VM -> BOOLEAN]
  /\ watch \in BOOLEAN /\ excused \in BOOLEAN /\ ctx \in BOOLEAN /\ gctx \in BOOLEAN
  /\ failed \in BOOLEAN

DataType ==
  /\ cont \in {"none", "created", "running", "exited"}
  /\ statusCh \in {"empty", "zero", "nonzero"}
  /\ cmd \in {"none", "wait", "exec", "run"}
  /\ pc \in Labels
  /\ step \in 1..(Len(Steps) + 1)
  /\ g \in [VM -> AtWork \cup {"rest"}]
  /\ tries \in [VM -> 0..(Retries - 1)]
  /\ err \in {"none", "status", "other"}
  /\ exit \in {"none", "zero", "script", "one"}
  /\ began \in [VM -> 0..Len(Steps)]
  /\ finished \in [VM -> -1..Len(Steps)]
  /\ faults \in 0..MaxFaults

\* What an ended command has left.
Ends ==
  /\ pc \in {"idle", "exited"} => StepsInOrder
  /\ SuccessMeansAll

\* No container is there but that of the step, unless the daemon is to blame.
Leftover == cont # "none" /\ ~excused => pc \in ContainerLabels \ {"create"}

\* Without faults, a container runs only between its start and its stop, and without a
\* signal a failed script is on its way to the exit code.
Status ==
  faults = 0 =>
    /\ cont = "running" => pc \in AfterStart \ {"remove"}
    /\ ~ctx =>
         /\ pc \in {"ready"} \cup BeforeStart => ~failed
         /\ pc \in {"watch", "start"} => cont = "created" /\ statusCh = "empty"
         /\ pc = "start" => watch
         /\ pc \in {"logs", "stream", "await"} =>
              \/ cont = "running" /\ watch /\ statusCh = "empty" /\ ~failed
              \/ cont = "exited" /\ statusCh = "zero" /\ ~failed
              \/ cont = "exited" /\ statusCh = "nonzero"
         /\ pc \in {"copy", "stop", "remove"} =>
              cont # "running" /\ (failed => err = "status")
         /\ pc = "join" /\ Steps[step] = "rsync" => ~failed
         /\ pc = "join" /\ Steps[step] = "shell" => err = IF failed THEN "status" ELSE "none"
         /\ pc = "exited" /\ cmd = "exec" /\ failed => exit = "script"

-----------------------------------------------------------------------------
\* The number of steps.
LEMMA LenSteps == Len(Steps) \in Nat
BY ProvisioningAssumption

\* A goroutine that is at work tells where the main goroutine is.
LEMMA AtStep ==
  ASSUME DataType, Control, NEW v \in VM
  PROVE  /\ g[v] \in {"ready_ips", "ping", "probe", "tick"} => pc = "ready"
         /\ g[v] \in {"dial", "backoff", "script"} => pc = "join" /\ Steps[step] = "shell"
         /\ g[v] \in {"copy_ips", "rsync", "orphan"} => pc = "join" /\ Steps[step] = "rsync"
         /\ g[v] \in {"dial", "backoff", "script", "copy_ips", "rsync", "orphan"} =>
              step \in 1..Len(Steps)
BY ProvisioningAssumption DEF DataType, Control, GoroutinesAt

\* A note of the step that a VM is at keeps the types.
LEMMA Noted ==
  ASSUME DataType, NEW v \in VM, NEW n \in 0..Len(Steps),
         \/ began' = [began EXCEPT ![v] = n] /\ finished' = finished
         \/ finished' = [finished EXCEPT ![v] = n] /\ began' = began
  PROVE  began' \in [VM -> 0..Len(Steps)] /\ finished' \in [VM -> -1..Len(Steps)]
<1>1. began \in [VM -> 0..Len(Steps)] /\ finished \in [VM -> -1..Len(Steps)]
  BY DEF DataType
<1> QED BY <1>1, LenSteps

-----------------------------------------------------------------------------
(* One lemma per part of the invariant, one case per action.               *)

\* Flags stay flags.
LEMMA BoolStep ==
  ASSUME BoolType, [Next]_vars
  PROVE  BoolType'
<1> USE ProvisioningAssumption
    DEF ContainerFrame, daemon, group, history, BoolType
<1>1. ASSUME NEW c \in Cmds, Command(c) PROVE BoolType'
  BY <1>1 DEF Command, Go
<1>2. CASE ReadyJoin
  BY <1>2 DEF ReadyJoin, Exit
<1>3. CASE Done
  BY <1>3 DEF Done, Exit, Last
<1>4. CASE BeginShell
  BY <1>4 DEF BeginShell, At, Go, Lookups, Exit, Fault, Last
<1>5. CASE BeginRsync
  BY <1>5 DEF BeginRsync, At, Go, Exit, Fault, Last
<1>6. CASE BeginContainer
  BY <1>6 DEF BeginContainer, At, Lookups, Exit, Fault, Last
<1>7. CASE Join
  BY <1>7 DEF Join, EndStep, Exit
<1>8. CASE Create
  BY <1>8 DEF Create, Exit, Fault
<1>9. CASE Watch
  BY <1>9 DEF Watch
<1>10. CASE Start
  BY <1>10 DEF Start, Fault
<1>11. CASE Logs
  BY <1>11 DEF Logs, Fault
<1>12. CASE Stream
  BY <1>12 DEF Stream
<1>13. CASE Await
  BY <1>13 DEF Await
<1>14. CASE CopyOut
  BY <1>14 DEF CopyOut, Fault
<1>15. CASE Stop
  BY <1>15 DEF Stop, Fault
<1>16. CASE Remove
  BY <1>16 DEF Remove, EndStep, Exit, Fault
<1>17. CASE ContainerExit
  BY <1>17 DEF ContainerExit
<1>18. CASE Signal
  BY <1>18 DEF Signal
<1>19. ASSUME NEW v \in VM, ReadyLookup(v) PROVE BoolType'
  BY <1>19 DEF ReadyLookup, Return, Fault
<1>20. ASSUME NEW v \in VM, Ping(v) PROVE BoolType'
  BY <1>20 DEF Ping, AttemptFailed, Return, Reachable
<1>21. ASSUME NEW v \in VM, PingWait(v) PROVE BoolType'
  BY <1>21 DEF PingWait, Return
<1>22. ASSUME NEW v \in VM, Dial(v) PROVE BoolType'
  BY <1>22 DEF Dial, Return, Reachable
<1>23. ASSUME NEW v \in VM, Backoff(v) PROVE BoolType'
  BY <1>23 DEF Backoff, Return
<1>24. ASSUME NEW v \in VM, CopyLookup(v) PROVE BoolType'
  BY <1>24 DEF CopyLookup, Return, Fault
<1>25. ASSUME NEW v \in VM, CopyKill(v) PROVE BoolType'
  BY <1>25 DEF CopyKill
<1>26. ASSUME NEW v \in VM, Script(v) PROVE BoolType'
  BY <1>26 DEF Script, Return, Fault
<1>27. ASSUME NEW v \in VM, CopyEnd(v) PROVE BoolType'
  BY <1>27 DEF CopyEnd, Return
<1>28. ASSUME NEW v \in VM, Guest(v) PROVE BoolType'
  BY <1>28 DEF Guest
<1>29. CASE UNCHANGED vars
  BY <1>29 DEF vars
<1>30. ASSUME NEW v \in VM, Probe(v) PROVE BoolType'
  BY <1>30 DEF Probe, AttemptFailed, Return
<1>31. ASSUME NEW v \in VM, CopyDrained(v) PROVE BoolType'
  BY <1>31 DEF CopyDrained, Return
<1>32. CASE StreamBreaks
  BY <1>32 DEF StreamBreaks, Fault
<1> QED
  BY <1>1, <1>2, <1>3, <1>4, <1>5, <1>6, <1>7, <1>8, <1>9, <1>10,
     <1>11, <1>12, <1>13, <1>14, <1>15, <1>16, <1>17, <1>18, <1>19, <1>20,
     <1>21, <1>22, <1>23, <1>24, <1>25, <1>26, <1>27, <1>28, <1>29, <1>30,
     <1>31, <1>32
  DEF Next, Main, ContainerRun, Goroutine, Remote

\* The other variables keep their types: no step is begun past the last one.
LEMMA DataStep ==
  ASSUME BoolType, DataType, Control, [Next]_vars
  PROVE  DataType'
<1> USE ProvisioningAssumption
    DEF ContainerFrame, daemon, group, history, DataType, Labels, AtWork, Control,
        GoroutinesAt, ContainerLabels, AfterStart
<1>1. ASSUME NEW c \in Cmds, Command(c) PROVE DataType'
  <2>1. g' \in [VM -> AtWork \cup {"rest"}]
    BY <1>1 DEF Command, Go
  <2>2. tries' \in [VM -> 0..(Retries - 1)]
    BY <1>1 DEF Command, Go
  <2>3. began' \in [VM -> 0..Len(Steps)] /\ finished' \in [VM -> -1..Len(Steps)]
    BY <1>1 DEF Command, Go
  <2>4. pc' \in Labels /\ step' \in 1..(Len(Steps) + 1) /\ faults' \in 0..MaxFaults
    BY <1>1 DEF Command, Go
  <2>5. err' \in {"none", "status", "other"} /\ exit' \in {"none", "zero", "script", "one"}
    BY <1>1 DEF Command, Go
  <2> QED BY <1>1, <2>1, <2>2, <2>3, <2>4, <2>5 DEF Command, Go
<1>2. CASE ReadyJoin
  BY <1>2 DEF ReadyJoin, Exit
<1>3. CASE Done
  BY <1>3 DEF Done, Exit, Last
<1>4. CASE BeginShell
  <2>1. g' \in [VM -> AtWork \cup {"rest"}]
    BY <1>4 DEF BeginShell, At, Go, Lookups, Exit, Fault, Last
  <2>2. tries' \in [VM -> 0..(Retries - 1)]
    BY <1>4 DEF BeginShell, At, Go, Lookups, Exit, Fault, Last
  <2>3. began' \in [VM -> 0..Len(Steps)] /\ finished' \in [VM -> -1..Len(Steps)]
    BY <1>4 DEF BeginShell, At, Go, Lookups, Exit, Fault, Last
  <2>4. pc' \in Labels /\ step' \in 1..(Len(Steps) + 1) /\ faults' \in 0..MaxFaults
    BY <1>4 DEF BeginShell, At, Go, Lookups, Exit, Fault, Last
  <2>5. err' \in {"none", "status", "other"} /\ exit' \in {"none", "zero", "script", "one"}
    BY <1>4 DEF BeginShell, At, Go, Lookups, Exit, Fault, Last
  <2> QED BY <1>4, <2>1, <2>2, <2>3, <2>4, <2>5
             DEF BeginShell, At, Go, Lookups, Exit, Fault, Last
<1>5. CASE BeginRsync
  <2>1. g' \in [VM -> AtWork \cup {"rest"}]
    BY <1>5 DEF BeginRsync, At, Go, Exit, Fault, Last
  <2>2. tries' \in [VM -> 0..(Retries - 1)]
    BY <1>5 DEF BeginRsync, At, Go, Exit, Fault, Last
  <2>3. began' \in [VM -> 0..Len(Steps)] /\ finished' \in [VM -> -1..Len(Steps)]
    BY <1>5 DEF BeginRsync, At, Go, Exit, Fault, Last
  <2>4. pc' \in Labels /\ step' \in 1..(Len(Steps) + 1) /\ faults' \in 0..MaxFaults
    BY <1>5 DEF BeginRsync, At, Go, Exit, Fault, Last
  <2>5. err' \in {"none", "status", "other"} /\ exit' \in {"none", "zero", "script", "one"}
    BY <1>5 DEF BeginRsync, At, Go, Exit, Fault, Last
  <2> QED BY <1>5, <2>1, <2>2, <2>3, <2>4, <2>5 DEF BeginRsync, At, Go, Exit, Fault, Last
<1>6. CASE BeginContainer
  BY <1>6 DEF BeginContainer, At, Lookups, Exit, Fault, Last
<1>7. CASE Join
  BY <1>7 DEF Join, EndStep, Exit
<1>8. CASE Create
  BY <1>8 DEF Create, Exit, Fault
<1>9. CASE Watch
  BY <1>9 DEF Watch
<1>10. CASE Start
  BY <1>10 DEF Start, Fault
<1>11. CASE Logs
  BY <1>11 DEF Logs, Fault
<1>12. CASE Stream
  BY <1>12 DEF Stream
<1>13. CASE Await
  BY <1>13 DEF Await
<1>14. CASE CopyOut
  BY <1>14 DEF CopyOut, Fault
<1>15. CASE Stop
  BY <1>15 DEF Stop, Fault
<1>16. CASE Remove
  BY <1>16 DEF Remove, EndStep, Exit, Fault
<1>17. CASE ContainerExit
  BY <1>17 DEF ContainerExit
<1>18. CASE Signal
  BY <1>18 DEF Signal
<1>19. ASSUME NEW v \in VM, ReadyLookup(v) PROVE DataType'
  <2>1. g' \in [VM -> AtWork \cup {"rest"}]
    BY <1>19 DEF ReadyLookup, Return, Fault
  <2>2. tries' \in [VM -> 0..(Retries - 1)]
    BY <1>19 DEF ReadyLookup, Return, Fault
  <2>3. began' \in [VM -> 0..Len(Steps)] /\ finished' \in [VM -> -1..Len(Steps)]
    BY <1>19 DEF ReadyLookup, Return, Fault
  <2>4. pc' \in Labels /\ step' \in 1..(Len(Steps) + 1) /\ faults' \in 0..MaxFaults
    BY <1>19 DEF ReadyLookup, Return, Fault
  <2>5. err' \in {"none", "status", "other"} /\ exit' \in {"none", "zero", "script", "one"}
    BY <1>19 DEF ReadyLookup, Return, Fault
  <2> QED BY <1>19, <2>1, <2>2, <2>3, <2>4, <2>5 DEF ReadyLookup, Return, Fault
<1>20. ASSUME NEW v \in VM, Ping(v) PROVE DataType'
  <2>1. g' \in [VM -> AtWork \cup {"rest"}]
    BY <1>20 DEF Ping, AttemptFailed, Return, Reachable
  <2>2. tries' \in [VM -> 0..(Retries - 1)]
    BY <1>20 DEF Ping, AttemptFailed, Return, Reachable
  <2>3. began' \in [VM -> 0..Len(Steps)] /\ finished' \in [VM -> -1..Len(Steps)]
    <3> HIDE ProvisioningAssumption DEF Control, GoroutinesAt
    <3>1. DataType /\ v \in VM
      BY <1>20
    <3> HIDE DEF DataType, Labels, AtWork
    <3>2. CASE UNCHANGED <<began, finished>>
      BY <3>1, <3>2 DEF DataType
    <3>3. ASSUME NEW n \in 0..Len(Steps),
                 \/ began' = [began EXCEPT ![v] = n] /\ finished' = finished
                 \/ finished' = [finished EXCEPT ![v] = n] /\ began' = began
          PROVE  began' \in [VM -> 0..Len(Steps)] /\ finished' \in [VM -> -1..Len(Steps)]
      BY <3>1, <3>3, Noted
    <3> QED BY <1>20, <3>1, <3>2, <3>3, LenSteps, AtStep DEF Ping, AttemptFailed, Return, Reachable
  <2>4. pc' \in Labels /\ step' \in 1..(Len(Steps) + 1) /\ faults' \in 0..MaxFaults
    BY <1>20 DEF Ping, AttemptFailed, Return, Reachable
  <2>5. err' \in {"none", "status", "other"} /\ exit' \in {"none", "zero", "script", "one"}
    BY <1>20 DEF Ping, AttemptFailed, Return, Reachable
  <2> QED BY <1>20, <2>1, <2>2, <2>3, <2>4, <2>5 DEF Ping, AttemptFailed, Return, Reachable
<1>21. ASSUME NEW v \in VM, PingWait(v) PROVE DataType'
  <2>1. g' \in [VM -> AtWork \cup {"rest"}]
    BY <1>21 DEF PingWait, Return, history
  <2>2. tries' \in [VM -> 0..(Retries - 1)]
    BY <1>21 DEF PingWait, Return, history
  <2>3. began' \in [VM -> 0..Len(Steps)] /\ finished' \in [VM -> -1..Len(Steps)]
    BY <1>21 DEF PingWait, Return, history
  <2>4. pc' \in Labels /\ step' \in 1..(Len(Steps) + 1) /\ faults' \in 0..MaxFaults
    BY <1>21 DEF PingWait, Return, history
  <2>5. err' \in {"none", "status", "other"} /\ exit' \in {"none", "zero", "script", "one"}
    BY <1>21 DEF PingWait, Return, history
  <2> QED BY <1>21, <2>1, <2>2, <2>3, <2>4, <2>5 DEF PingWait, daemon
<1>22. ASSUME NEW v \in VM, Dial(v) PROVE DataType'
  <2>1. g' \in [VM -> AtWork \cup {"rest"}]
    BY <1>22 DEF Dial, Return, Reachable
  <2>2. tries' \in [VM -> 0..(Retries - 1)]
    BY <1>22 DEF Dial, Return, Reachable
  <2>3. began' \in [VM -> 0..Len(Steps)] /\ finished' \in [VM -> -1..Len(Steps)]
    <3> HIDE ProvisioningAssumption DEF Control, GoroutinesAt
    <3>1. DataType /\ v \in VM
      BY <1>22
    <3> HIDE DEF DataType, Labels, AtWork
    <3>2. CASE UNCHANGED <<began, finished>>
      BY <3>1, <3>2 DEF DataType
    <3>3. ASSUME NEW n \in 0..Len(Steps),
                 \/ began' = [began EXCEPT ![v] = n] /\ finished' = finished
                 \/ finished' = [finished EXCEPT ![v] = n] /\ began' = began
          PROVE  began' \in [VM -> 0..Len(Steps)] /\ finished' \in [VM -> -1..Len(Steps)]
      BY <3>1, <3>3, Noted
    <3> QED BY <1>22, <3>1, <3>2, <3>3, LenSteps, AtStep DEF Dial, Return, Reachable
  <2>4. pc' \in Labels /\ step' \in 1..(Len(Steps) + 1) /\ faults' \in 0..MaxFaults
    BY <1>22 DEF Dial, Return, Reachable
  <2>5. err' \in {"none", "status", "other"} /\ exit' \in {"none", "zero", "script", "one"}
    BY <1>22 DEF Dial, Return, Reachable
  <2> QED BY <1>22, <2>1, <2>2, <2>3, <2>4, <2>5 DEF Dial, Return, Reachable
<1>23. ASSUME NEW v \in VM, Backoff(v) PROVE DataType'
  <2>1. g' \in [VM -> AtWork \cup {"rest"}]
    BY <1>23 DEF Backoff, Return, history
  <2>2. tries' \in [VM -> 0..(Retries - 1)]
    BY <1>23 DEF Backoff, Return, history
  <2>3. began' \in [VM -> 0..Len(Steps)] /\ finished' \in [VM -> -1..Len(Steps)]
    BY <1>23 DEF Backoff, Return, history
  <2>4. pc' \in Labels /\ step' \in 1..(Len(Steps) + 1) /\ faults' \in 0..MaxFaults
    BY <1>23 DEF Backoff, Return, history
  <2>5. err' \in {"none", "status", "other"} /\ exit' \in {"none", "zero", "script", "one"}
    BY <1>23 DEF Backoff, Return, history
  <2> QED BY <1>23, <2>1, <2>2, <2>3, <2>4, <2>5 DEF Backoff, daemon
<1>24. ASSUME NEW v \in VM, CopyLookup(v) PROVE DataType'
  <2>1. g' \in [VM -> AtWork \cup {"rest"}]
    BY <1>24 DEF CopyLookup, Return, Fault
  <2>2. tries' \in [VM -> 0..(Retries - 1)]
    BY <1>24 DEF CopyLookup, Return, Fault
  <2>3. began' \in [VM -> 0..Len(Steps)] /\ finished' \in [VM -> -1..Len(Steps)]
    <3> HIDE ProvisioningAssumption DEF Control, GoroutinesAt
    <3>1. DataType /\ v \in VM
      BY <1>24
    <3> HIDE DEF DataType, Labels, AtWork
    <3>2. CASE UNCHANGED <<began, finished>>
      BY <3>1, <3>2 DEF DataType
    <3>3. ASSUME NEW n \in 0..Len(Steps),
                 \/ began' = [began EXCEPT ![v] = n] /\ finished' = finished
                 \/ finished' = [finished EXCEPT ![v] = n] /\ began' = began
          PROVE  began' \in [VM -> 0..Len(Steps)] /\ finished' \in [VM -> -1..Len(Steps)]
      BY <3>1, <3>3, Noted
    <3> QED BY <1>24, <3>1, <3>2, <3>3, LenSteps, AtStep DEF CopyLookup, Return, Fault
  <2>4. pc' \in Labels /\ step' \in 1..(Len(Steps) + 1) /\ faults' \in 0..MaxFaults
    BY <1>24 DEF CopyLookup, Return, Fault
  <2>5. err' \in {"none", "status", "other"} /\ exit' \in {"none", "zero", "script", "one"}
    BY <1>24 DEF CopyLookup, Return, Fault
  <2> QED BY <1>24, <2>1, <2>2, <2>3, <2>4, <2>5 DEF CopyLookup, Return, Fault
<1>25. ASSUME NEW v \in VM, CopyKill(v) PROVE DataType'
  BY <1>25 DEF CopyKill
<1>26. ASSUME NEW v \in VM, Script(v) PROVE DataType'
  <2>1. g' \in [VM -> AtWork \cup {"rest"}]
    BY <1>26 DEF Script, Return, Fault
  <2>2. tries' \in [VM -> 0..(Retries - 1)]
    BY <1>26 DEF Script, Return, Fault
  <2>3. began' \in [VM -> 0..Len(Steps)] /\ finished' \in [VM -> -1..Len(Steps)]
    <3> HIDE ProvisioningAssumption DEF Control, GoroutinesAt
    <3>1. DataType /\ v \in VM
      BY <1>26
    <3> HIDE DEF DataType, Labels, AtWork
    <3>2. CASE UNCHANGED <<began, finished>>
      BY <3>1, <3>2 DEF DataType
    <3>3. ASSUME NEW n \in 0..Len(Steps),
                 \/ began' = [began EXCEPT ![v] = n] /\ finished' = finished
                 \/ finished' = [finished EXCEPT ![v] = n] /\ began' = began
          PROVE  began' \in [VM -> 0..Len(Steps)] /\ finished' \in [VM -> -1..Len(Steps)]
      BY <3>1, <3>3, Noted
    <3> QED BY <1>26, <3>1, <3>2, <3>3, LenSteps, AtStep DEF Script, Return, Fault
  <2>4. pc' \in Labels /\ step' \in 1..(Len(Steps) + 1) /\ faults' \in 0..MaxFaults
    BY <1>26 DEF Script, Return, Fault
  <2>5. err' \in {"none", "status", "other"} /\ exit' \in {"none", "zero", "script", "one"}
    BY <1>26 DEF Script, Return, Fault
  <2> QED BY <1>26, <2>1, <2>2, <2>3, <2>4, <2>5 DEF Script, Return, Fault
<1>27. ASSUME NEW v \in VM, CopyEnd(v) PROVE DataType'
  <2>1. g' \in [VM -> AtWork \cup {"rest"}]
    BY <1>27 DEF CopyEnd, Return
  <2>2. tries' \in [VM -> 0..(Retries - 1)]
    BY <1>27 DEF CopyEnd, Return
  <2>3. began' \in [VM -> 0..Len(Steps)] /\ finished' \in [VM -> -1..Len(Steps)]
    <3> HIDE ProvisioningAssumption DEF Control, GoroutinesAt
    <3>1. DataType /\ v \in VM
      BY <1>27
    <3> HIDE DEF DataType, Labels, AtWork
    <3>2. CASE UNCHANGED <<began, finished>>
      BY <3>1, <3>2 DEF DataType
    <3>3. ASSUME NEW n \in 0..Len(Steps),
                 \/ began' = [began EXCEPT ![v] = n] /\ finished' = finished
                 \/ finished' = [finished EXCEPT ![v] = n] /\ began' = began
          PROVE  began' \in [VM -> 0..Len(Steps)] /\ finished' \in [VM -> -1..Len(Steps)]
      BY <3>1, <3>3, Noted
    <3> QED BY <1>27, <3>1, <3>2, <3>3, LenSteps, AtStep DEF CopyEnd, Return
  <2>4. pc' \in Labels /\ step' \in 1..(Len(Steps) + 1) /\ faults' \in 0..MaxFaults
    BY <1>27 DEF CopyEnd, Return
  <2>5. err' \in {"none", "status", "other"} /\ exit' \in {"none", "zero", "script", "one"}
    BY <1>27 DEF CopyEnd, Return
  <2> QED BY <1>27, <2>1, <2>2, <2>3, <2>4, <2>5 DEF CopyEnd, Return
<1>28. ASSUME NEW v \in VM, Guest(v) PROVE DataType'
  BY <1>28 DEF Guest
<1>29. CASE UNCHANGED vars
  BY <1>29 DEF vars
<1>30. ASSUME NEW v \in VM, Probe(v) PROVE DataType'
  <2>1. g' \in [VM -> AtWork \cup {"rest"}]
    BY <1>30 DEF Probe, AttemptFailed, Return
  <2>2. tries' \in [VM -> 0..(Retries - 1)]
    BY <1>30 DEF Probe, AttemptFailed, Return
  <2>3. began' \in [VM -> 0..Len(Steps)] /\ finished' \in [VM -> -1..Len(Steps)]
    <3> HIDE ProvisioningAssumption DEF Control, GoroutinesAt
    <3>1. DataType /\ v \in VM
      BY <1>30
    <3> HIDE DEF DataType, Labels, AtWork
    <3>2. CASE UNCHANGED <<began, finished>>
      BY <3>1, <3>2 DEF DataType
    <3>3. ASSUME NEW n \in 0..Len(Steps),
                 \/ began' = [began EXCEPT ![v] = n] /\ finished' = finished
                 \/ finished' = [finished EXCEPT ![v] = n] /\ began' = began
          PROVE  began' \in [VM -> 0..Len(Steps)] /\ finished' \in [VM -> -1..Len(Steps)]
      BY <3>1, <3>3, Noted
    <3> QED BY <1>30, <3>1, <3>2, <3>3, LenSteps, AtStep DEF Probe, AttemptFailed, Return
  <2>4. pc' \in Labels /\ step' \in 1..(Len(Steps) + 1) /\ faults' \in 0..MaxFaults
    BY <1>30 DEF Probe, AttemptFailed, Return
  <2>5. err' \in {"none", "status", "other"} /\ exit' \in {"none", "zero", "script", "one"}
    BY <1>30 DEF Probe, AttemptFailed, Return
  <2> QED BY <1>30, <2>1, <2>2, <2>3, <2>4, <2>5 DEF Probe, AttemptFailed, Return
<1>31. ASSUME NEW v \in VM, CopyDrained(v) PROVE DataType'
  BY <1>31 DEF CopyDrained, Return
<1>32. CASE StreamBreaks
  BY <1>32 DEF StreamBreaks, Fault
<1> QED
  BY <1>1, <1>2, <1>3, <1>4, <1>5, <1>6, <1>7, <1>8, <1>9, <1>10,
     <1>11, <1>12, <1>13, <1>14, <1>15, <1>16, <1>17, <1>18, <1>19, <1>20,
     <1>21, <1>22, <1>23, <1>24, <1>25, <1>26, <1>27, <1>28, <1>29, <1>30,
     <1>31, <1>32
  DEF Next, Main, ContainerRun, Goroutine, Remote

\* Where the goroutines are follows the main goroutine: it waits for all of them.
LEMMA ControlStep ==
  ASSUME BoolType, DataType, Control, [Next]_vars
  PROVE  Control'
<1> USE ProvisioningAssumption
    DEF ContainerFrame, daemon, group, history, DataType, Control, GoroutinesAt,
        ContainerLabels, AfterStart
<1>1. ASSUME NEW c \in Cmds, Command(c) PROVE Control'
  BY <1>1 DEF Command, Go
<1>2. CASE ReadyJoin
  BY <1>2 DEF ReadyJoin, Exit
<1>3. CASE Done
  BY <1>3 DEF Done, Exit, Last
<1>4. CASE BeginShell
  <2>1. CASE Go("dial") /\ pc' = "join" /\ UNCHANGED <<err, exit, faults>>
    BY <1>4, <2>1 DEF BeginShell, At, Go, Lookups, Exit, Fault, Last
  <2>2. CASE Lookups
    BY <1>4, <2>2 DEF BeginShell, At, Go, Lookups, Exit, Fault, Last
  <2> QED BY <1>4, <2>1, <2>2 DEF BeginShell
<1>5. CASE BeginRsync
  BY <1>5 DEF BeginRsync, At, Go, Exit, Fault, Last
<1>6. CASE BeginContainer
  BY <1>6 DEF BeginContainer, At, Lookups, Exit, Fault, Last
<1>7. CASE Join
  BY <1>7 DEF Join, EndStep, Exit
<1>8. CASE Create
  BY <1>8 DEF Create, Exit, Fault
<1>9. CASE Watch
  BY <1>9 DEF Watch
<1>10. CASE Start
  BY <1>10 DEF Start, Fault
<1>11. CASE Logs
  BY <1>11 DEF Logs, Fault
<1>12. CASE Stream
  BY <1>12 DEF Stream
<1>13. CASE Await
  BY <1>13 DEF Await
<1>14. CASE CopyOut
  BY <1>14 DEF CopyOut, Fault
<1>15. CASE Stop
  BY <1>15 DEF Stop, Fault
<1>16. CASE Remove
  BY <1>16 DEF Remove, EndStep, Exit, Fault
<1>17. CASE ContainerExit
  BY <1>17 DEF ContainerExit
<1>18. CASE Signal
  BY <1>18 DEF Signal
<1>19. ASSUME NEW v \in VM, ReadyLookup(v) PROVE Control'
  BY <1>19 DEF ReadyLookup, Return, Fault
<1>20. ASSUME NEW v \in VM, Ping(v) PROVE Control'
  BY <1>20 DEF Ping, AttemptFailed, Return, Reachable
<1>21. ASSUME NEW v \in VM, PingWait(v) PROVE Control'
  BY <1>21 DEF PingWait, Return
<1>22. ASSUME NEW v \in VM, Dial(v) PROVE Control'
  BY <1>22 DEF Dial, Return, Reachable
<1>23. ASSUME NEW v \in VM, Backoff(v) PROVE Control'
  BY <1>23 DEF Backoff, Return
<1>24. ASSUME NEW v \in VM, CopyLookup(v) PROVE Control'
  BY <1>24 DEF CopyLookup, Return, Fault
<1>25. ASSUME NEW v \in VM, CopyKill(v) PROVE Control'
  BY <1>25 DEF CopyKill
<1>26. ASSUME NEW v \in VM, Script(v) PROVE Control'
  BY <1>26 DEF Script, Return, Fault
<1>27. ASSUME NEW v \in VM, CopyEnd(v) PROVE Control'
  BY <1>27 DEF CopyEnd, Return
<1>28. ASSUME NEW v \in VM, Guest(v) PROVE Control'
  BY <1>28 DEF Guest
<1>29. CASE UNCHANGED vars
  BY <1>29 DEF vars
<1>30. ASSUME NEW v \in VM, Probe(v) PROVE Control'
  BY <1>30 DEF Probe, AttemptFailed, Return
<1>31. ASSUME NEW v \in VM, CopyDrained(v) PROVE Control'
  BY <1>31 DEF CopyDrained, Return
<1>32. CASE StreamBreaks
  BY <1>32 DEF StreamBreaks, Fault
<1> QED
  BY <1>1, <1>2, <1>3, <1>4, <1>5, <1>6, <1>7, <1>8, <1>9, <1>10,
     <1>11, <1>12, <1>13, <1>14, <1>15, <1>16, <1>17, <1>18, <1>19, <1>20,
     <1>21, <1>22, <1>23, <1>24, <1>25, <1>26, <1>27, <1>28, <1>29, <1>30,
     <1>31, <1>32
  DEF Next, Main, ContainerRun, Goroutine, Remote

\* The main goroutine goes on when every VM has done the step.
LEMMA ProgressStep ==
  ASSUME BoolType, DataType, Control, Progress, [Next]_vars
  PROVE  Progress'
<1> USE ProvisioningAssumption
    DEF ContainerFrame, daemon, group, history, DataType, Control, Progress, BeforeStart,
        AfterStart, ContainerLabels
<1>1. ASSUME NEW c \in Cmds, Command(c) PROVE Progress'
  BY <1>1 DEF Command, Go
<1>2. CASE ReadyJoin
  BY <1>2 DEF ReadyJoin, Exit
<1>3. CASE Done
  BY <1>3 DEF Done, Exit, Last
<1>4. CASE BeginShell
  BY <1>4 DEF BeginShell, At, Go, Lookups, Exit, Fault, Last
<1>5. CASE BeginRsync
  BY <1>5 DEF BeginRsync, At, Go, Exit, Fault, Last
<1>6. CASE BeginContainer
  BY <1>6 DEF BeginContainer, At, Lookups, Exit, Fault, Last
<1>7. CASE Join
  BY <1>7 DEF Join, EndStep, Exit
<1>8. CASE Create
  BY <1>8 DEF Create, Exit, Fault
<1>9. CASE Watch
  BY <1>9 DEF Watch
<1>10. CASE Start
  BY <1>10 DEF Start, Fault
<1>11. CASE Logs
  BY <1>11 DEF Logs, Fault
<1>12. CASE Stream
  BY <1>12 DEF Stream
<1>13. CASE Await
  BY <1>13 DEF Await
<1>14. CASE CopyOut
  BY <1>14 DEF CopyOut, Fault
<1>15. CASE Stop
  BY <1>15 DEF Stop, Fault
<1>16. CASE Remove
  BY <1>16 DEF Remove, EndStep, Exit, Fault
<1>17. CASE ContainerExit
  BY <1>17 DEF ContainerExit
<1>18. CASE Signal
  BY <1>18 DEF Signal
<1>19. ASSUME NEW v \in VM, ReadyLookup(v) PROVE Progress'
  BY <1>19 DEF ReadyLookup, Return, Fault
<1>20. ASSUME NEW v \in VM, Ping(v) PROVE Progress'
  <2>1. pc = "ready"
    BY <1>20, AtStep DEF Ping
  <2> HIDE ProvisioningAssumption DEF Control
  <2> QED BY <1>20, <2>1, LenSteps DEF Ping, AttemptFailed, Return, Reachable
<1>21. ASSUME NEW v \in VM, PingWait(v) PROVE Progress'
  BY <1>21 DEF PingWait, Return
<1>22. ASSUME NEW v \in VM, Dial(v) PROVE Progress'
  <2>1. pc = "join" /\ step \in 1..Len(Steps)
    BY <1>22, AtStep DEF Dial
  <2> HIDE ProvisioningAssumption DEF Control
  <2> QED BY <1>22, <2>1, LenSteps DEF Dial, Return, Reachable
<1>23. ASSUME NEW v \in VM, Backoff(v) PROVE Progress'
  BY <1>23 DEF Backoff, Return
<1>24. ASSUME NEW v \in VM, CopyLookup(v) PROVE Progress'
  <2>1. pc = "join" /\ Steps[step] = "rsync" /\ step \in 1..Len(Steps)
    BY <1>24, AtStep DEF CopyLookup
  <2> HIDE ProvisioningAssumption DEF Control
  <2>2. CASE began' = [began EXCEPT ![v] = step] /\ g' = [g EXCEPT ![v] = "rsync"] /\ err' = err
    BY <1>24, <2>1, <2>2 DEF CopyLookup
  <2>3. CASE Return(v, "other") /\ UNCHANGED began
    BY <1>24, <2>1, <2>3 DEF CopyLookup, Return
  <2> QED BY <1>24, <2>2, <2>3 DEF CopyLookup
<1>25. ASSUME NEW v \in VM, CopyKill(v) PROVE Progress'
  <2>1. pc = "join" /\ Steps[step] = "rsync" /\ step \in 1..Len(Steps)
    BY <1>25, AtStep DEF CopyKill
  <2> HIDE ProvisioningAssumption DEF Control
  <2> QED BY <1>25, <2>1, LenSteps DEF CopyKill
<1>26. ASSUME NEW v \in VM, Script(v) PROVE Progress'
  <2>1. pc = "join" /\ Steps[step] = "shell" /\ step \in 1..Len(Steps)
    BY <1>26, AtStep DEF Script
  <2> HIDE ProvisioningAssumption DEF Control
  <2> QED BY <1>26, <2>1, LenSteps DEF Script, Return, Fault
<1>27. ASSUME NEW v \in VM, CopyEnd(v) PROVE Progress'
  <2>1. pc = "join" /\ Steps[step] = "rsync" /\ step \in 1..Len(Steps)
    BY <1>27, AtStep DEF CopyEnd
  <2> HIDE ProvisioningAssumption DEF Control
  <2> QED BY <1>27, <2>1, LenSteps DEF CopyEnd, Return
<1>28. ASSUME NEW v \in VM, Guest(v) PROVE Progress'
  BY <1>28 DEF Guest
<1>29. CASE UNCHANGED vars
  BY <1>29 DEF vars
<1>30. ASSUME NEW v \in VM, Probe(v) PROVE Progress'
  <2>1. pc = "ready"
    BY <1>30, AtStep DEF Probe
  <2> HIDE ProvisioningAssumption DEF Control
  <2> QED BY <1>30, <2>1, LenSteps DEF Probe, AttemptFailed, Return
<1>31. ASSUME NEW v \in VM, CopyDrained(v) PROVE Progress'
  <2>1. pc = "join" /\ Steps[step] = "rsync" /\ step \in 1..Len(Steps)
    BY <1>31, AtStep DEF CopyDrained
  <2> HIDE ProvisioningAssumption DEF Control
  <2> QED BY <1>31, <2>1, LenSteps DEF CopyDrained, Return
<1>32. CASE StreamBreaks
  BY <1>32 DEF StreamBreaks, Fault
<1> QED
  BY <1>1, <1>2, <1>3, <1>4, <1>5, <1>6, <1>7, <1>8, <1>9, <1>10,
     <1>11, <1>12, <1>13, <1>14, <1>15, <1>16, <1>17, <1>18, <1>19, <1>20,
     <1>21, <1>22, <1>23, <1>24, <1>25, <1>26, <1>27, <1>28, <1>29, <1>30,
     <1>31, <1>32
  DEF Next, Main, ContainerRun, Goroutine, Remote

\* A command ends as its last step has left the VMs.
LEMMA EndsStep ==
  ASSUME BoolType, DataType, Control, Progress, Ends, [Next]_vars
  PROVE  Ends'
<1> USE ProvisioningAssumption
    DEF ContainerFrame, daemon, group, history, DataType, Control, Progress, Ends,
        StepsInOrder, SuccessMeansAll, BeforeStart, AfterStart, ContainerLabels
<1>1. ASSUME NEW c \in Cmds, Command(c) PROVE Ends'
  BY <1>1 DEF Command, Go
<1>2. CASE ReadyJoin
  BY <1>2 DEF ReadyJoin, Exit
<1>3. CASE Done
  BY <1>3 DEF Done, Exit, Last
<1>4. CASE BeginShell
  BY <1>4 DEF BeginShell, At, Go, Lookups, Exit, Fault, Last
<1>5. CASE BeginRsync
  BY <1>5 DEF BeginRsync, At, Go, Exit, Fault, Last
<1>6. CASE BeginContainer
  BY <1>6 DEF BeginContainer, At, Lookups, Exit, Fault, Last
<1>7. CASE Join
  <2>1. CASE err = "none"
    BY <1>7, <2>1 DEF Join, EndStep, Exit
  <2>2. CASE err # "none"
    <3>1. pc' = "exited" /\ exit' # "zero" /\ UNCHANGED <<began, finished>>
      BY <1>7, <2>2 DEF Join, EndStep, Exit
    <3>2. \A v \in VM : began[v] <= step /\ finished[v] \in {step - 1, step}
      BY <1>7 DEF Join
    <3>3. ASSUME NEW v \in VM, NEW w \in VM PROVE began[v] <= finished[w] + 1
      <4>1. began[v] \in Int /\ finished[w] \in Int /\ step \in Int
        BY LenSteps
      <4> QED BY <3>2, <4>1
    <3> QED BY <3>1, <3>3
  <2> QED BY <2>1, <2>2
<1>8. CASE Create
  BY <1>8 DEF Create, Exit, Fault
<1>9. CASE Watch
  BY <1>9 DEF Watch
<1>10. CASE Start
  BY <1>10 DEF Start, Fault
<1>11. CASE Logs
  BY <1>11 DEF Logs, Fault
<1>12. CASE Stream
  BY <1>12 DEF Stream
<1>13. CASE Await
  BY <1>13 DEF Await
<1>14. CASE CopyOut
  BY <1>14 DEF CopyOut, Fault
<1>15. CASE Stop
  BY <1>15 DEF Stop, Fault
<1>16. CASE Remove
  BY <1>16 DEF Remove, EndStep, Exit, Fault
<1>17. CASE ContainerExit
  BY <1>17 DEF ContainerExit
<1>18. CASE Signal
  BY <1>18 DEF Signal
<1>19. ASSUME NEW v \in VM, ReadyLookup(v) PROVE Ends'
  BY <1>19 DEF ReadyLookup, Return, Fault
<1>20. ASSUME NEW v \in VM, Ping(v) PROVE Ends'
  <2>1. pc \in {"ready", "join"} /\ exit = "none" /\ pc' = pc /\ exit' = exit
    BY <1>20, AtStep DEF Ping
  <2> QED BY <2>1
<1>21. ASSUME NEW v \in VM, PingWait(v) PROVE Ends'
  BY <1>21 DEF PingWait, Return
<1>22. ASSUME NEW v \in VM, Dial(v) PROVE Ends'
  <2>1. pc \in {"ready", "join"} /\ exit = "none" /\ pc' = pc /\ exit' = exit
    BY <1>22, AtStep DEF Dial
  <2> QED BY <2>1
<1>23. ASSUME NEW v \in VM, Backoff(v) PROVE Ends'
  BY <1>23 DEF Backoff, Return
<1>24. ASSUME NEW v \in VM, CopyLookup(v) PROVE Ends'
  <2>1. pc \in {"ready", "join"} /\ exit = "none" /\ pc' = pc /\ exit' = exit
    BY <1>24, AtStep DEF CopyLookup
  <2> QED BY <2>1
<1>25. ASSUME NEW v \in VM, CopyKill(v) PROVE Ends'
  <2>1. pc \in {"ready", "join"} /\ exit = "none" /\ pc' = pc /\ exit' = exit
    BY <1>25, AtStep DEF CopyKill
  <2> QED BY <2>1
<1>26. ASSUME NEW v \in VM, Script(v) PROVE Ends'
  <2>1. pc \in {"ready", "join"} /\ exit = "none" /\ pc' = pc /\ exit' = exit
    BY <1>26, AtStep DEF Script
  <2> QED BY <2>1
<1>27. ASSUME NEW v \in VM, CopyEnd(v) PROVE Ends'
  <2>1. pc \in {"ready", "join"} /\ exit = "none" /\ pc' = pc /\ exit' = exit
    BY <1>27, AtStep DEF CopyEnd
  <2> QED BY <2>1
<1>28. ASSUME NEW v \in VM, Guest(v) PROVE Ends'
  BY <1>28 DEF Guest
<1>29. CASE UNCHANGED vars
  BY <1>29 DEF vars
<1>30. ASSUME NEW v \in VM, Probe(v) PROVE Ends'
  <2>1. pc \in {"ready", "join"} /\ exit = "none" /\ pc' = pc /\ exit' = exit
    BY <1>30, AtStep DEF Probe
  <2> QED BY <2>1
<1>31. ASSUME NEW v \in VM, CopyDrained(v) PROVE Ends'
  <2>1. pc \in {"ready", "join"} /\ exit = "none" /\ pc' = pc /\ exit' = exit
    BY <1>31, AtStep DEF CopyDrained
  <2> QED BY <2>1
<1>32. CASE StreamBreaks
  BY <1>32 DEF StreamBreaks, Fault
<1> QED
  BY <1>1, <1>2, <1>3, <1>4, <1>5, <1>6, <1>7, <1>8, <1>9, <1>10,
     <1>11, <1>12, <1>13, <1>14, <1>15, <1>16, <1>17, <1>18, <1>19, <1>20,
     <1>21, <1>22, <1>23, <1>24, <1>25, <1>26, <1>27, <1>28, <1>29, <1>30,
     <1>31, <1>32
  DEF Next, Main, ContainerRun, Goroutine, Remote

\* Stop and Remove are deferred as soon as Create has answered.
LEMMA LeftoverStep ==
  ASSUME BoolType, DataType, Control, Leftover, [Next]_vars
  PROVE  Leftover'
<1> USE ProvisioningAssumption
    DEF ContainerFrame, daemon, group, history, DataType, Control, Leftover, AfterStart,
        ContainerLabels
<1>1. ASSUME NEW c \in Cmds, Command(c) PROVE Leftover'
  BY <1>1 DEF Command, Go
<1>2. CASE ReadyJoin
  BY <1>2 DEF ReadyJoin, Exit
<1>3. CASE Done
  BY <1>3 DEF Done, Exit, Last
<1>4. CASE BeginShell
  BY <1>4 DEF BeginShell, At, Go, Lookups, Exit, Fault, Last
<1>5. CASE BeginRsync
  BY <1>5 DEF BeginRsync, At, Go, Exit, Fault, Last
<1>6. CASE BeginContainer
  BY <1>6 DEF BeginContainer, At, Lookups, Exit, Fault, Last
<1>7. CASE Join
  BY <1>7 DEF Join, EndStep, Exit
<1>8. CASE Create
  BY <1>8 DEF Create, Exit, Fault
<1>9. CASE Watch
  BY <1>9 DEF Watch
<1>10. CASE Start
  BY <1>10 DEF Start, Fault
<1>11. CASE Logs
  BY <1>11 DEF Logs, Fault
<1>12. CASE Stream
  BY <1>12 DEF Stream
<1>13. CASE Await
  BY <1>13 DEF Await
<1>14. CASE CopyOut
  BY <1>14 DEF CopyOut, Fault
<1>15. CASE Stop
  BY <1>15 DEF Stop, Fault
<1>16. CASE Remove
  BY <1>16 DEF Remove, EndStep, Exit, Fault
<1>17. CASE ContainerExit
  BY <1>17 DEF ContainerExit
<1>18. CASE Signal
  BY <1>18 DEF Signal
<1>19. ASSUME NEW v \in VM, ReadyLookup(v) PROVE Leftover'
  BY <1>19 DEF ReadyLookup, Return, Fault
<1>20. ASSUME NEW v \in VM, Ping(v) PROVE Leftover'
  BY <1>20 DEF Ping, AttemptFailed, Return, Reachable
<1>21. ASSUME NEW v \in VM, PingWait(v) PROVE Leftover'
  BY <1>21 DEF PingWait, Return
<1>22. ASSUME NEW v \in VM, Dial(v) PROVE Leftover'
  BY <1>22 DEF Dial, Return, Reachable
<1>23. ASSUME NEW v \in VM, Backoff(v) PROVE Leftover'
  BY <1>23 DEF Backoff, Return
<1>24. ASSUME NEW v \in VM, CopyLookup(v) PROVE Leftover'
  BY <1>24 DEF CopyLookup, Return, Fault
<1>25. ASSUME NEW v \in VM, CopyKill(v) PROVE Leftover'
  BY <1>25 DEF CopyKill
<1>26. ASSUME NEW v \in VM, Script(v) PROVE Leftover'
  BY <1>26 DEF Script, Return, Fault
<1>27. ASSUME NEW v \in VM, CopyEnd(v) PROVE Leftover'
  BY <1>27 DEF CopyEnd, Return
<1>28. ASSUME NEW v \in VM, Guest(v) PROVE Leftover'
  BY <1>28 DEF Guest
<1>29. CASE UNCHANGED vars
  BY <1>29 DEF vars
<1>30. ASSUME NEW v \in VM, Probe(v) PROVE Leftover'
  BY <1>30 DEF Probe, AttemptFailed, Return
<1>31. ASSUME NEW v \in VM, CopyDrained(v) PROVE Leftover'
  BY <1>31 DEF CopyDrained, Return
<1>32. CASE StreamBreaks
  BY <1>32 DEF StreamBreaks, Fault
<1> QED
  BY <1>1, <1>2, <1>3, <1>4, <1>5, <1>6, <1>7, <1>8, <1>9, <1>10,
     <1>11, <1>12, <1>13, <1>14, <1>15, <1>16, <1>17, <1>18, <1>19, <1>20,
     <1>21, <1>22, <1>23, <1>24, <1>25, <1>26, <1>27, <1>28, <1>29, <1>30,
     <1>31, <1>32
  DEF Next, Main, ContainerRun, Goroutine, Remote

\* The status of a script is not lost on its way.
LEMMA StatusStep ==
  ASSUME BoolType, DataType, Control, Status, [Next]_vars
  PROVE  Status'
<1> USE ProvisioningAssumption
    DEF ContainerFrame, daemon, group, history, DataType, Control, Status, BeforeStart,
        AfterStart, ContainerLabels
<1>1. ASSUME NEW c \in Cmds, Command(c) PROVE Status'
  BY <1>1 DEF Command, Go
<1>2. CASE ReadyJoin
  BY <1>2 DEF ReadyJoin, Exit
<1>3. CASE Done
  BY <1>3 DEF Done, Exit, Last
<1>4. CASE BeginShell
  BY <1>4 DEF BeginShell, At, Go, Lookups, Exit, Fault, Last
<1>5. CASE BeginRsync
  BY <1>5 DEF BeginRsync, At, Go, Exit, Fault, Last
<1>6. CASE BeginContainer
  BY <1>6 DEF BeginContainer, At, Lookups, Exit, Fault, Last
<1>7. CASE Join
  BY <1>7 DEF Join, EndStep, Exit
<1>8. CASE Create
  BY <1>8 DEF Create, Exit, Fault
<1>9. CASE Watch
  BY <1>9 DEF Watch
<1>10. CASE Start
  BY <1>10 DEF Start, Fault
<1>11. CASE Logs
  BY <1>11 DEF Logs, Fault
<1>12. CASE Stream
  BY <1>12 DEF Stream
<1>13. CASE Await
  BY <1>13 DEF Await
<1>14. CASE CopyOut
  BY <1>14 DEF CopyOut, Fault
<1>15. CASE Stop
  BY <1>15 DEF Stop, Fault
<1>16. CASE Remove
  BY <1>16 DEF Remove, EndStep, Exit, Fault
<1>17. CASE ContainerExit
  BY <1>17 DEF ContainerExit
<1>18. CASE Signal
  BY <1>18 DEF Signal
<1>19. ASSUME NEW v \in VM, ReadyLookup(v) PROVE Status'
  BY <1>19 DEF ReadyLookup, Return, Fault
<1>20. ASSUME NEW v \in VM, Ping(v) PROVE Status'
  <2>1. pc = "ready"
    BY <1>20, AtStep DEF Ping
  <2> HIDE ProvisioningAssumption DEF Control
  <2> QED BY <1>20, <2>1, LenSteps DEF Ping, AttemptFailed, Return, Reachable
<1>21. ASSUME NEW v \in VM, PingWait(v) PROVE Status'
  BY <1>21 DEF PingWait, Return
<1>22. ASSUME NEW v \in VM, Dial(v) PROVE Status'
  <2>1. pc = "join" /\ step \in 1..Len(Steps)
    BY <1>22, AtStep DEF Dial
  <2> HIDE ProvisioningAssumption DEF Control
  <2> QED BY <1>22, <2>1, LenSteps DEF Dial, Return, Reachable
<1>23. ASSUME NEW v \in VM, Backoff(v) PROVE Status'
  BY <1>23 DEF Backoff, Return
<1>24. ASSUME NEW v \in VM, CopyLookup(v) PROVE Status'
  <2>1. pc = "join" /\ Steps[step] = "rsync" /\ step \in 1..Len(Steps)
    BY <1>24, AtStep DEF CopyLookup
  <2> HIDE ProvisioningAssumption DEF Control
  <2> QED BY <1>24, <2>1, LenSteps DEF CopyLookup, Return, Fault
<1>25. ASSUME NEW v \in VM, CopyKill(v) PROVE Status'
  <2>1. pc = "join" /\ Steps[step] = "rsync" /\ step \in 1..Len(Steps)
    BY <1>25, AtStep DEF CopyKill
  <2> HIDE ProvisioningAssumption DEF Control
  <2> QED BY <1>25, <2>1, LenSteps DEF CopyKill
<1>26. ASSUME NEW v \in VM, Script(v) PROVE Status'
  <2>1. pc = "join" /\ Steps[step] = "shell" /\ step \in 1..Len(Steps)
    BY <1>26, AtStep DEF Script
  <2> HIDE ProvisioningAssumption DEF Control
  <2> QED BY <1>26, <2>1, LenSteps DEF Script, Return, Fault
<1>27. ASSUME NEW v \in VM, CopyEnd(v) PROVE Status'
  <2>1. pc = "join" /\ Steps[step] = "rsync" /\ step \in 1..Len(Steps)
    BY <1>27, AtStep DEF CopyEnd
  <2> HIDE ProvisioningAssumption DEF Control
  <2> QED BY <1>27, <2>1, LenSteps DEF CopyEnd, Return
<1>28. ASSUME NEW v \in VM, Guest(v) PROVE Status'
  BY <1>28 DEF Guest
<1>29. CASE UNCHANGED vars
  BY <1>29 DEF vars
<1>30. ASSUME NEW v \in VM, Probe(v) PROVE Status'
  <2>1. pc = "ready"
    BY <1>30, AtStep DEF Probe
  <2> HIDE ProvisioningAssumption DEF Control
  <2> QED BY <1>30, <2>1, LenSteps DEF Probe, AttemptFailed, Return
<1>31. ASSUME NEW v \in VM, CopyDrained(v) PROVE Status'
  <2>1. pc = "join" /\ Steps[step] = "rsync" /\ step \in 1..Len(Steps)
    BY <1>31, AtStep DEF CopyDrained
  <2> HIDE ProvisioningAssumption DEF Control
  <2> QED BY <1>31, <2>1, LenSteps DEF CopyDrained, Return
<1>32. CASE StreamBreaks
  BY <1>32 DEF StreamBreaks, Fault
<1> QED
  BY <1>1, <1>2, <1>3, <1>4, <1>5, <1>6, <1>7, <1>8, <1>9, <1>10,
     <1>11, <1>12, <1>13, <1>14, <1>15, <1>16, <1>17, <1>18, <1>19, <1>20,
     <1>21, <1>22, <1>23, <1>24, <1>25, <1>26, <1>27, <1>28, <1>29, <1>30,
     <1>31, <1>32
  DEF Next, Main, ContainerRun, Goroutine, Remote

-----------------------------------------------------------------------------
(* The invariant and the theorems.                                         *)

Inv ==
  /\ BoolType /\ DataType /\ Control
  /\ Progress /\ Ends /\ Leftover /\ Status

LEMMA InitInv == Init => Inv
<1> SUFFICES ASSUME Init PROVE Inv
  OBVIOUS
<1> USE DEF Init
<1>1. BoolType
  BY DEF BoolType
<1>2. DataType
  BY ProvisioningAssumption, LenSteps DEF DataType, Labels
<1>3. Control
  BY DEF Control, GoroutinesAt, ContainerLabels, AfterStart
<1>4. Progress /\ Leftover
  BY DEF Progress, Leftover, BeforeStart, AfterStart
<1>5. Ends
  BY DEF Ends, StepsInOrder, SuccessMeansAll
<1>6. Status
  BY DEF Status, BeforeStart, AfterStart
<1> QED BY <1>1, <1>2, <1>3, <1>4, <1>5, <1>6 DEF Inv

LEMMA NextInv ==
  ASSUME Inv, [Next]_vars
  PROVE  Inv'
BY BoolStep, DataStep, ControlStep, ProgressStep, EndsStep, LeftoverStep, StatusStep DEF Inv

LEMMA AlwaysInv == Spec => []Inv
BY InitInv, NextInv, PTL DEF Spec

\* Type correctness: the step the command is at, the last step begun and done on each
\* VM and the attempts of Ping stay within their bounds.
THEOREM TypeCorrect == Spec => []TypeOK
<1>1. Inv => TypeOK
  BY DEF Inv, BoolType, DataType, TypeOK
<1> QED BY <1>1, AlwaysInv, PTL

\* "Virter will execute them in order": no step begins on a VM before every VM is ready
\* and has done the step before, for any number of VMs and steps of any kinds, whoever
\* fails and whenever a signal comes.
THEOREM StepsAreInOrder == Spec => []StepsInOrder
<1>1. Inv => StepsInOrder
  <2> SUFFICES ASSUME Inv, NEW v \in VM, NEW w \in VM PROVE began[v] <= finished[w] + 1
    BY DEF StepsInOrder
  <2>1. began[v] \in Int /\ finished[w] \in Int /\ step \in Int
    BY LenSteps DEF Inv, DataType
  <2>2. CASE pc \in {"idle", "exited"}
    BY <2>2 DEF Inv, Ends, StepsInOrder
  <2>3. CASE pc \notin {"idle", "exited"}
    <3>1. pc \in {"ready", "join"} \cup BeforeStart \cup AfterStart
      BY <2>3 DEF Inv, DataType, Labels, BeforeStart, AfterStart
    <3>2. \/ began[v] = 0 /\ finished[w] \in {-1, 0}
          \/ began[v] <= step /\ finished[w] \in {step - 1, step}
      BY <2>1, <3>1 DEF Inv, Progress
    <3> QED BY <2>1, <3>2
  <2> QED BY <2>2, <2>3
<1> QED BY <1>1, AlwaysInv, PTL

\* A command that exits with zero has found every VM ready and has done every step on
\* every VM: g.Wait reports the first error of the group, whichever goroutine it was.
THEOREM SuccessIsComplete == Spec => []SuccessMeansAll
<1>1. Inv => SuccessMeansAll
  BY DEF Inv, Ends
<1> QED BY <1>1, AlwaysInv, PTL

\* When a command has ended its container is gone, or the daemon is to blame: Stop and
\* Remove are deferred when Create has answered and use contexts of their own, so that
\* neither a signal nor an error of Start, of the logs or of the copy skips them.
THEOREM ContainerIsRemoved == Spec => []ContainerRemoved
<1>1. Inv => ContainerRemoved
  BY DEF Inv, Leftover, ContainerRemoved, ContainerLabels, AfterStart
<1> QED BY <1>1, AlwaysInv, PTL

\* Without a signal and without a fault, vm exec exits with the status of the script
\* that failed, on one of any number of VMs or in a container, however early it ended.
THEOREM ExitStatusIsKept == Spec => []ExitStatusKept
<1>1. Inv => ExitStatusKept
  BY DEF Inv, Status, ExitStatusKept
<1> QED BY <1>1, AlwaysInv, PTL
=============================================================================
