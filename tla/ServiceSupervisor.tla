------------------------- MODULE ServiceSupervisor -------------------------
(***************************************************************************)
(* How the main process of the desktop runs the local ML service           *)
(* (desktop-tanaw/electron: services/ml-service-supervisor.ts, main.ts and *)
(* application-tray.ts), with the live event stream that it feeds.         *)
(*                                                                         *)
(* start, restart and shutdown are queued and run one after the other; an  *)
(* await of theirs ends a step, so that the processes, the tray and the    *)
(* events of the children come in between.  An await with a time limit may *)
(* end either way.  A process is a child of this application, or another   *)
(* one that was started from the workspace, or a foreign one; which of     *)
(* them listens on the port is what decides.                               *)
(***************************************************************************)
EXTENDS LiveEventStream, Sequences

CONSTANTS
    Children,     \* processes that this application spawns, used again
    MaxRestarts,  \* bound: restarts that are asked for
    MaxCrashes    \* bound: processes that end or cannot be spawned by accident

ASSUME ChildrenAssumption ==
    Children \subseteq Processes /\ MaxRestarts \in Nat /\ MaxCrashes \in Nat

VARIABLES
    windows,   \* the platform: taskkill and the port instead of signals
    local,     \* processes whose command line names the workspace
    life,      \* [Processes -> "unborn", "alive" or "dead"]
    asked,     \* processes that were sent SIGTERM
    exits,     \* [Children -> the event "ok" or "bad" that is to come, or "no"]
    process,   \* mlServiceProcess
    external,  \* mlServiceConnectedExternally
    error,     \* mlServiceError # null
    queue,     \* SerializedOperationQueue
    op,        \* the operation that runs
    phase,     \* whether it is stopping the old service or starting the new
    pc,        \* the await that it is at
    target,    \* the process that it is ending
    app,       \* how far the application has been quit
    late,      \* history: a restart was asked for after the quit
    ended,     \* history: processes that the supervisor has told to end
    restarts, crashes

computer == <<accepting, windows, local>>
system == <<listener, life, asked, exits, ended, stream>>
status == <<process, external, error>>
operation == <<op, phase, pc, target>>
application == <<app, late, restarts>>
vars == <<computer, system, status, queue, operation, application, crashes>>

Operations == {"start", "restart", "shutdown"}
Awaits == {"idle", "halt", "stopping", "probe", "find", "identify",
           "releasing", "check", "await"}
Others == Processes \ Children
Pid == Processes \cup {NoProcess}

TypeOK ==
    /\ stream \in Stream /\ listener \in Pid /\ windows \in BOOLEAN
    /\ accepting \subseteq Processes /\ local \subseteq Processes
    /\ life \in [Processes -> {"unborn", "alive", "dead"}]
    /\ asked \subseteq Processes /\ ended \subseteq Processes
    /\ exits \in [Children -> {"no", "ok", "bad"}]
    /\ process \in Children \cup {NoProcess} /\ target \in Pid
    /\ external \in BOOLEAN /\ error \in BOOLEAN
    /\ queue \in Seq(Operations) /\ op \in Operations \cup {"none"}
    /\ phase \in {"stop", "start"} /\ pc \in Awaits
    /\ (op = "none") = (pc = "idle")
    /\ app \in {"running", "quitting", "closing", "exited"}
    /\ late \in BOOLEAN /\ restarts \in 0 .. MaxRestarts
    /\ crashes \in 0 .. MaxCrashes

Init ==
    /\ stream = InitialStream /\ windows \in BOOLEAN
    /\ accepting \in {Children \cup S : S \in SUBSET Others}
    /\ local \in {Children \cup S : S \in SUBSET Others}
    /\ life \in [Processes -> {"unborn", "alive"}]
    /\ \A c \in Children : life[c] = "unborn"
    /\ listener \in {NoProcess} \cup {p \in Others : life[p] = "alive"}
    /\ asked = {} /\ ended = {} /\ exits = [c \in Children |-> "no"]
    /\ process = NoProcess /\ external = FALSE /\ error = FALSE
    /\ queue = <<"start">> /\ op = "none" /\ phase = "start" /\ pc = "idle"
    /\ target = NoProcess
    /\ app = "running" /\ late = FALSE /\ restarts = 0 /\ crashes = 0

isMlServiceRunning == process # NoProcess \/ external

-----------------------------------------------------------------------------
(* The processes of the computer. *)

(* What follows when process p ends: a child sends an event to its parent. *)
Ends(p, how) ==
    /\ life' = [life EXCEPT ![p] = "dead"]
    /\ listener' = IF listener = p THEN NoProcess ELSE listener
    /\ exits' = IF p \in Children THEN [exits EXCEPT ![p] = how] ELSE exits
    /\ stream' = Severed(stream, p)

Launch(p) ==
    /\ p \in Others /\ life[p] = "unborn"
    /\ life' = [life EXCEPT ![p] = "alive"]
    /\ UNCHANGED <<listener, asked, exits, ended, stream>>
    /\ UNCHANGED <<computer, status, queue, operation, application, crashes>>

(* A process takes the port when it is free, and gives up when it is not. *)
Bind(p) ==
    /\ life[p] = "alive" /\ listener # p
    /\ IF listener = NoProcess
         THEN listener' = p /\ UNCHANGED <<life, exits, stream>>
         ELSE Ends(p, "bad")
    /\ UNCHANGED <<asked, ended>>
    /\ UNCHANGED <<computer, status, queue, operation, application, crashes>>

(* SIGTERM ends a process when it obeys, an accident at any time. *)
Die(p) ==
    /\ life[p] = "alive"
    /\ IF p \in asked
         THEN Ends(p, "ok") /\ UNCHANGED crashes
         ELSE /\ crashes < MaxCrashes /\ crashes' = crashes + 1
              /\ \E how \in {"ok", "bad"} : Ends(p, how)
    /\ UNCHANGED <<asked, ended>>
    /\ UNCHANGED <<computer, status, queue, operation, application>>

(* The error and exit events of a child, ignored when it is not the child  *)
(* that the supervisor holds.  Mutant: they never are.                     *)
HoldsAny(c) == TRUE
Holds(c) == process = c

ExitSeen(c) ==
    /\ app # "exited" /\ exits[c] # "no"
    /\ exits' = [exits EXCEPT ![c] = "no"]
    /\ life' = [life EXCEPT ![c] = "unborn"] /\ asked' = asked \ {c}
    /\ IF Holds(c)
         THEN /\ process' = NoProcess /\ external' = FALSE
              /\ error' = (error \/ exits[c] = "bad")
         ELSE UNCHANGED status
    /\ UNCHANGED <<listener, ended, stream>>
    /\ UNCHANGED <<computer, queue, operation, application, crashes>>

-----------------------------------------------------------------------------
(* The operations.  Each step goes from one await to the next.             *)

At(place) == app # "exited" /\ pc = place
FinishInPlace == op' = "none" /\ UNCHANGED <<phase, pc, target>>   \* mutant
Goto(place) == pc' = place /\ UNCHANGED <<op, phase, target>>
Finish == op' = "none" /\ phase' = "start" /\ pc' = "idle" /\ target' = NoProcess

(* startMlServiceUnlocked returns at once when there is a service, which   *)
(* the stop that comes before it in a restart has excluded.                *)
AfterStop(o) ==
    IF o = "restart"
      THEN op' = o /\ phase' = "start" /\ pc' = "probe" /\ target' = NoProcess
      ELSE Finish

(* The operating system is asked for the listener, or for the command line *)
(* of a process; it may fail to answer in time, which looks like nobody.   *)
Found == {listener, NoProcess}
AnyLocal(p) == BOOLEAN   \* mutant
LooksLocal(p) == IF p \in local THEN BOOLEAN ELSE {FALSE}

(* SIGTERM, or taskkill, which forces; and SIGKILL. *)
Terminate(p) ==
    IF life[p] # "alive"
      THEN UNCHANGED system
      ELSE /\ ended' = ended \cup {p}
           /\ IF windows
                THEN Ends(p, "ok") /\ UNCHANGED asked
                ELSE asked' = asked \cup {p}
                     /\ UNCHANGED <<listener, life, exits, stream>>
LeaveAlone(p) == UNCHANGED system   \* mutant
Kill(p) ==
    IF p \notin {q \in Processes : life[q] = "alive"}
      THEN UNCHANGED system
      ELSE ended' = ended \cup {p} /\ Ends(p, "ok") /\ UNCHANGED asked

(* stopMlService and stopExternalMlService, up to their first await. *)
Stop(o) ==
    IF external /\ process = NoProcess
      THEN /\ op' = o /\ phase' = "stop" /\ pc' = "find" /\ target' = NoProcess
           /\ UNCHANGED <<process, external>> /\ UNCHANGED system
      ELSE /\ external' = FALSE /\ process' = NoProcess
           /\ IF process = NoProcess
                THEN AfterStop(o) /\ UNCHANGED system
                ELSE /\ op' = o /\ phase' = "stop" /\ target' = process
                     /\ pc' = IF windows THEN "releasing" ELSE "stopping"
                     /\ Terminate(process)

Dequeue ==
    /\ At("idle") /\ queue # <<>> /\ queue' = Tail(queue)
    /\ \/ /\ Head(queue) = "start" /\ UNCHANGED <<status, system>>
          /\ IF isMlServiceRunning
               THEN UNCHANGED operation
               ELSE /\ op' = "start" /\ pc' = "probe"
                    /\ UNCHANGED <<phase, target>>
       \/ Head(queue) = "restart" /\ Stop("restart") /\ UNCHANGED error
       \/ /\ Head(queue) = "shutdown" /\ op' = "shutdown" /\ phase' = "stop"
          /\ pc' = "halt" /\ stream' = Disposed(stream)
          /\ UNCHANGED <<listener, life, asked, exits, ended>>
          /\ UNCHANGED <<status, target>>
    /\ UNCHANGED <<computer, application, crashes>>

(* stopCameraProcessingFromTray: any answer will do. *)
HaltErrors == {TRUE} \cup (IF listener = NoProcess THEN {} ELSE {FALSE})

Halt ==
    /\ At("halt")
    /\ IF isMlServiceRunning THEN error' \in HaltErrors ELSE UNCHANGED error
    /\ Stop("shutdown")
    /\ UNCHANGED <<computer, queue, application, crashes>>

\* Mutant: the wait for the end of the child has no limit.
StoppingPatiently ==
    /\ At("stopping") /\ life[target] # "alive" /\ AfterStop(op)
    /\ UNCHANGED <<computer, system, status, queue, application, crashes>>

(* waitForProcessExit, with SIGKILL after it. *)
Stopping ==
    /\ At("stopping") /\ Kill(target) /\ AfterStop(op)
    /\ UNCHANGED <<computer, status, queue, application, crashes>>

FindListener ==
    /\ At("find")
    /\ external' = IF phase = "stop" THEN FALSE ELSE external
    /\ \E pid \in Found :
         IF pid # NoProcess
           THEN /\ target' = pid /\ pc' = "identify" /\ UNCHANGED <<op, phase>>
                /\ UNCHANGED error
           ELSE /\ IF phase = "stop" THEN AfterStop(op) ELSE Finish
                /\ error' = (error \/ phase = "start")
    /\ UNCHANGED <<computer, system, process, queue, application, crashes>>

(* Only a process of the workspace is ended. *)
Identify ==
    /\ At("identify")
    /\ \E known \in LooksLocal(target) :
         IF known
           THEN /\ Terminate(target) /\ Goto("releasing")
                /\ error' = (error \/ life[target] # "alive")
           ELSE /\ IF phase = "stop" THEN AfterStop(op) ELSE Finish
                /\ error' = TRUE /\ UNCHANGED system
    /\ UNCHANGED <<computer, process, external, queue, application, crashes>>

(* The wait for the port, with a forced end after it: of the process, or   *)
(* on Windows of whichever process then listens.                           *)
Releasing ==
    /\ At("releasing")
    /\ \/ NoProcess \in Found /\ UNCHANGED <<system, error>>
       \/ /\ listener # NoProcess
          /\ \E victim \in (IF windows THEN Found ELSE {target}) :
               Kill(victim)
          /\ error' = (error \/ (~windows /\ life[target] # "alive"))
    /\ IF phase = "stop" THEN AfterStop(op) ELSE Goto("check")
    /\ UNCHANGED <<computer, process, external, queue, application, crashes>>

(* spawn: the new child runs, or it cannot be run and says so later. *)
Spawn ==
    /\ error' = FALSE /\ external' = FALSE
    /\ \E c \in Children :
         /\ life[c] = "unborn" /\ process' = c
         /\ \/ life' = [life EXCEPT ![c] = "alive"] /\ UNCHANGED <<exits, crashes>>
            \/ /\ crashes < MaxCrashes /\ crashes' = crashes + 1
               /\ life' = [life EXCEPT ![c] = "dead"]
               /\ exits' = [exits EXCEPT ![c] = "bad"]
    /\ Goto("await") /\ UNCHANGED <<listener, asked, ended, stream>>

Reconnect ==
    /\ Gone(stream) # {} /\ stream' = Reconnected(stream)
    /\ UNCHANGED <<listener, life, asked, exits, ended>>

(* probeMlServiceCompatibility: one that is slow looks like none. *)
Probe ==
    /\ At("probe")
    /\ \/ /\ listener \in accepting /\ external' = TRUE /\ error' = FALSE
          /\ Reconnect /\ Finish /\ UNCHANGED <<process, crashes>>
       \/ /\ listener \notin accepting \cup {NoProcess} /\ Goto("find")
          /\ UNCHANGED <<system, status, crashes>>
       \/ Spawn
    /\ UNCHANGED <<computer, queue, application>>

Check ==
    /\ At("check")
    /\ \/ /\ listener # NoProcess /\ error' = TRUE /\ Finish
          /\ UNCHANGED <<system, process, external, crashes>>
       \/ Spawn
    /\ UNCHANGED <<computer, queue, application>>

\* Mutant: nobody hears that the time is over.
AwaitSilently ==
    /\ At("await") /\ Finish
    /\ \/ (listener \in accepting) /\ error' = FALSE /\ Reconnect
       \/ UNCHANGED <<error, system>>
    /\ UNCHANGED <<computer, process, external, queue, application, crashes>>

(* waitForCompatibleMlService: somebody answers, or the time is over. *)
Await ==
    /\ At("await")
    /\ \/ (listener \in accepting) /\ error' = FALSE /\ Reconnect
       \/ error' = TRUE /\ UNCHANGED system
    /\ Finish
    /\ UNCHANGED <<computer, process, external, queue, application, crashes>>

Step == \/ Dequeue \/ Halt \/ Stopping \/ FindListener \/ Identify
        \/ Releasing \/ Probe \/ Check \/ Await

-----------------------------------------------------------------------------
(* The application: the tray, the page and the quit. *)

Restart ==
    /\ app \in {"running", "quitting"} /\ restarts < MaxRestarts
    /\ queue' = Append(queue, "restart") /\ restarts' = restarts + 1
    /\ late' = (late \/ app = "quitting")
    /\ UNCHANGED <<computer, system, status, operation, app, crashes>>

StopMonitoring ==
    /\ app = "running" /\ isMlServiceRunning /\ error' \in HaltErrors
    /\ UNCHANGED <<computer, system, process, external, queue, operation>>
    /\ UNCHANGED <<application, crashes>>

Quit ==
    /\ app = "running" /\ app' = "quitting"
    /\ queue' = Append(queue, "shutdown")
    /\ UNCHANGED <<computer, system, status, operation, late, restarts, crashes>>

ShutdownDone ==
    /\ app = "quitting" /\ op # "shutdown"
    /\ \A i \in DOMAIN queue : queue[i] # "shutdown"
    /\ app' = "closing"
    /\ UNCHANGED <<computer, system, status, queue, operation, late, restarts>>
    /\ UNCHANGED crashes

Exit ==
    /\ app = "closing" /\ app' = "exited"
    /\ UNCHANGED <<computer, system, status, queue, operation, late, restarts>>
    /\ UNCHANGED crashes

Streaming(A) ==
    /\ app # "exited" /\ A
    /\ UNCHANGED <<listener, life, asked, exits, ended, computer, status, queue>>
    /\ UNCHANGED <<operation, application, crashes>>

Next ==
    \/ \E p \in Processes : Launch(p) \/ Bind(p) \/ Die(p)
    \/ \E c \in Children : ExitSeen(c)
    \/ Step \/ Streaming(StreamNext)
    \/ Restart \/ StopMonitoring \/ Quit \/ ShutdownDone \/ Exit

Spec == Init /\ [][Next]_vars

(* The awaits of an operation end, by their time limits if nothing else,   *)
(* and the events of the processes and the sockets are delivered.  Nothing *)
(* is assumed of the processes: one may never obey, or never listen.       *)
Fairness ==
    /\ WF_vars(Step) /\ WF_vars(ShutdownDone) /\ WF_vars(Exit)
    /\ \A c \in Children : WF_vars(ExitSeen(c))
    /\ \A s \in Sockets : /\ WF_vars(Streaming(SocketOpens(s)))
                          /\ WF_vars(Streaming(SocketCloses(s)))
    /\ WF_vars(Streaming(TimerFires))

FairSpec == Spec /\ Fairness

-----------------------------------------------------------------------------
(* The application never loses a service that it has spawned: a child that *)
(* runs is the one that the supervisor holds, or the one that the current  *)
(* operation is ending, and there is never a second one beside it.         *)
NoOrphan ==
    app # "exited" =>
        LET running == {c \in Children : life[c] = "alive"} IN
        /\ Cardinality(running) <= 1
        /\ \A c \in running :
             \/ c = process
             \/ c = target /\ pc = "stopping"

(* A service that was not started from the workspace is never ended.  On   *)
(* Windows one may be, when it takes the port while the supervisor waits   *)
(* for its release.                                                        *)
ForeignUntouched == ~windows => ended \subseteq local

(* Whatever was queued, crashed or hung before, no child survives the      *)
(* application, unless a restart was asked for while it was quitting: that *)
(* one runs after the shutdown and may spawn another child.                *)
LeavesNothing ==
    app = "exited" /\ ~late => \A c \in Children : life[c] # "alive"

(* Quitting comes to an end, even with a service that neither answers nor  *)
(* obeys and with operations queued before it.                             *)
QuitCompletes == app = "quitting" ~> app = "exited"

(* When a start or a restart has ended, there is a service that the        *)
(* desktop holds or is connected to, or an error to be shown, in whatever  *)
(* order the child ends, another process takes the port and the time runs  *)
(* out.  The exception: the child has lost the port to a service that      *)
(* answers, which the desktop then neither reports nor connects to.        *)
ConnectsOrReports ==
    [][op' = "none" /\ op \in {"start", "restart"}
         => \/ process' # NoProcess \/ external' \/ error' = TRUE
            \/ listener \in accepting \ Children]_vars

(* While the child serves and the page is there, the stream comes to be    *)
(* connected to it, whatever broke before.                                 *)
StreamRecovers ==
    LET served == /\ app = "running" /\ stream.subscribed /\ ~stream.permanent
                  /\ process # NoProcess /\ listener = process
    IN <>[]served => <>[]Live
=============================================================================
