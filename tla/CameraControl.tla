---------------------------- MODULE CameraControl ----------------------------
(***************************************************************************)
(* The camera page of the desktop (desktop-tanaw/src/features/camera:      *)
(* useCameraRuntimeController.ts, useCameraStartDeadlineMonitor.ts,        *)
(* useCameraRuntimeUpdates.ts, useCameraManagement.ts) on top of the       *)
(* registry of the ML service.                                             *)
(*                                                                         *)
(* The page sends requests, waits for each with a time limit, and reads    *)
(* the states of all cameras now and then.  What it shows of a camera is   *)
(* put together from all of them in the order in which they come back: a   *)
(* request may be served after the page has given up on it, and states may *)
(* be shown after a request that they were read before.                    *)
(***************************************************************************)
EXTENDS CameraRegistry

CONSTANTS
    Hasty,        \* the user presses buttons while a request is under way
    MaxCommands,  \* bound: buttons that are pressed
    MaxTimeouts   \* bound: requests that are given up

ASSUME ControlAssumption ==
    /\ {1, 2} = Configs /\ Hasty \in BOOLEAN
    /\ MaxCommands \in Nat /\ MaxTimeouts \in Nat

VARIABLES
    cams,      \* the cameras of the page
    config,    \* the configuration of each
    action,    \* cameraActions
    deadline,  \* cameraStartDeadlines: none, to come, or due
    status,    \* the status shown of each camera
    alarm,     \* cameras with the error of a start that took too long
    shown,     \* cameraStates: the last state read of each camera
    waiting,   \* pendingCameraIds
    call,      \* the calls of each camera: how its requests were answered
    saving,    \* cameras being saved: whether they were running
    deleting,  \* cameras whose deletion waits for a stop
    renewing,  \* isRestartingService
    asks,      \* requests that the service has not served
    lists,     \* lists of cameras under way to the service
    poll,      \* states that were read and are not shown yet
    reached,   \* history: cameras shown settled since their start was answered
    commands, timeouts

page == <<cams, config, action, deadline, status, alarm, shown, waiting, reached>>
calls == <<call, saving, deleting, renewing, asks, lists>>
bounds == <<commands, timeouts>>
vars == <<registry, page, calls, poll, bounds>>

Actions == {"none", "requesting", "starting", "stopping", "saving"}
StartActions == {"requesting", "starting"}
Answers == {"none", "sent", "ok", "error", "timeout", "refresh"}
Asks == [kind: {"start", "stop"}, camera: Cameras, config: Configs,
         live: BOOLEAN]   \* live: the page waits for it
Snapshots == [pending: SUBSET Cameras, state: [Cameras -> States]]

TypeOK ==
    /\ RegistryTypeOK
    /\ cams \subseteq Cameras /\ config \in [Cameras -> Configs]
    /\ action \in [Cameras -> Actions]
    /\ deadline \in [Cameras -> {"none", "set", "due"}]
    /\ status \in [Cameras -> (States \ {"none"}) \cup {"error"}]
    /\ alarm \subseteq Cameras /\ waiting \subseteq Cameras
    /\ shown \in [Cameras -> States] /\ reached \subseteq Cameras
    /\ call \in [Cameras -> [start: Answers, stop: Answers]]
    /\ saving \in [Cameras -> {"no", "idle", "running"}]
    /\ deleting \subseteq Cameras /\ renewing \in BOOLEAN
    /\ asks \subseteq Asks
    /\ \A a \in asks : a.live => call[a.camera][a.kind] = "sent"
    /\ lists \subseteq SUBSET Cameras
    /\ poll = <<>> \/ poll \in Snapshots
    /\ commands \in 0 .. MaxCommands /\ timeouts \in 0 .. MaxTimeouts

Init ==
    /\ RegistryInit
    /\ cams = Cameras /\ config = [k \in Cameras |-> 1]
    /\ action = [k \in Cameras |-> "none"]
    /\ deadline = [k \in Cameras |-> "none"]
    /\ status = [k \in Cameras |-> "stopped"]
    /\ shown = [k \in Cameras |-> "none"]
    /\ alarm = {} /\ waiting = {} /\ reached = {}
    /\ call = [k \in Cameras |-> [start |-> "none", stop |-> "none"]]
    /\ saving = [k \in Cameras |-> "no"]
    /\ deleting = {} /\ renewing = FALSE /\ asks = {} /\ lists = {}
    /\ poll = <<>> /\ commands = 0 /\ timeouts = 0

-----------------------------------------------------------------------------
(* What the states of the cameras make of the page.                        *)

\* isAcceptedCameraStartSettled
SettledIn(snap, k) ==
    k \notin snap.pending /\ snap.state[k] \in {"running", "failed"}

Expired(snap, k) ==
    action[k] \in StartActions /\ deadline[k] = "due" /\ ~SettledIn(snap, k)
Ended(snap, k) ==
    Expired(snap, k) \/ (action[k] = "starting" /\ SettledIn(snap, k))

\* Mutant: a state that is shown already is not looked at again.
StatusFromNews(snap, k) ==
    IF k \notin cams \/ snap.state[k] \in {"none", shown[k]} THEN status[k]
    ELSE snap.state[k]
StatusFrom(snap, k) ==
    LET state == snap.state[k] IN
    IF k \notin cams \/ state = "none" THEN status[k]
    ELSE IF state = "failed" THEN "failed"
    ELSE IF /\ ~Expired(snap, k)
            /\ \/ k \in snap.pending
               \/ action[k] \in StartActions /\ ~SettledIn(snap, k)
      THEN "starting"
      ELSE state

\* Mutant: a start that has settled keeps its deadline.
DeadlineOfExpired(snap, k) == IF Expired(snap, k) THEN "none" ELSE deadline[k]
DeadlineAfter(snap, k) == IF Ended(snap, k) THEN "none" ELSE deadline[k]

\* applyCameraStates, with what becomes of cameraActions beside.
Apply(snap) ==
    /\ deadline' = [k \in Cameras |-> DeadlineAfter(snap, k)]
    /\ waiting' = snap.pending \cap cams
    /\ shown' = [k \in Cameras |->
                   IF k \notin cams THEN "none"
                   ELSE IF snap.state[k] = "none" THEN shown[k]
                   ELSE snap.state[k]]
    /\ alarm' = alarm \cup {k \in Cameras : Expired(snap, k)}
    /\ status' = [k \in Cameras |-> StatusFrom(snap, k)]
    /\ reached' = reached \cup {k \in Cameras : /\ SettledIn(snap, k)
                                                /\ call[k].start = "none"}
ActionsAfter(snap) ==
    [k \in Cameras |-> IF Ended(snap, k) THEN "none" ELSE action[k]]

Now == [pending |-> {k \in Cameras : pending[k] # None},
        state |-> [k \in Cameras |-> pipe[k].state]]

\* The poller reads the states, and they are shown, or are lost.
Poll ==
    /\ poll = <<>> /\ poll' = Now
    /\ UNCHANGED <<registry, page, calls, bounds>>
Show ==
    /\ poll # <<>> /\ poll' = <<>>
    /\ Apply(poll) /\ action' = ActionsAfter(poll)
    /\ UNCHANGED <<cams, config, registry, calls, bounds>>
Lose ==
    /\ poll # <<>> /\ poll' = <<>>
    /\ UNCHANGED <<registry, page, calls, bounds>>

\* useCameraStartDeadlineMonitor
Monitor(k) ==
    /\ deadline[k] = "due" /\ deadline' = [deadline EXCEPT ![k] = "none"]
    /\ action' = [action EXCEPT ![k] = "none"] /\ alarm' = alarm \cup {k}
    /\ status' = [status EXCEPT ![k] = "error"]
    /\ UNCHANGED <<cams, config, shown, waiting, reached>>
    /\ UNCHANGED <<registry, calls, poll, bounds>>

\* 90 seconds are over.  A request is given up after 30.
Elapse(k) ==
    /\ deadline[k] = "set" /\ call[k].start = "none"
    /\ deadline' = [deadline EXCEPT ![k] = "due"]
    /\ UNCHANGED <<cams, config, action, status, alarm, shown, waiting, reached>>
    /\ UNCHANGED <<registry, calls, poll, bounds>>

-----------------------------------------------------------------------------
(* The buttons.                                                            *)

Free(k) ==
    \/ Hasty
    \/ /\ call[k] = [start |-> "none", stop |-> "none"]
       /\ saving[k] = "no" /\ ~renewing
Press(k) == k \in cams /\ commands < MaxCommands /\ commands' = commands + 1
IsStarting(k) == action[k] \in StartActions \/ k \in waiting
IsRunning(k) == shown[k] \in Active

Ask(kind, k, c) == [kind |-> kind, camera |-> k, config |-> c, live |-> TRUE]

\* beginCameraStart and the request; mutant: without its deadline.
BeginOpenEnded(k, c) ==
    /\ action' = [action EXCEPT ![k] = "requesting"]
    /\ status' = [status EXCEPT ![k] = "starting"] /\ UNCHANGED deadline
    /\ alarm' = alarm \ {k} /\ reached' = reached \ {k}
    /\ call' = [call EXCEPT ![k].start = "sent"]
    /\ asks' = asks \cup {Ask("start", k, c)}
Begin(k, c) ==
    /\ action' = [action EXCEPT ![k] = "requesting"]
    /\ status' = [status EXCEPT ![k] = "starting"]
    /\ deadline' = [deadline EXCEPT ![k] = "set"]
    /\ alarm' = alarm \ {k} /\ reached' = reached \ {k}
    /\ call' = [call EXCEPT ![k].start = "sent"]
    /\ asks' = asks \cup {Ask("start", k, c)}

\* handleStartProcessing
Start(k) ==
    /\ Press(k) /\ Free(k) /\ ~IsStarting(k) /\ ~IsRunning(k)
    /\ Begin(k, config[k])
    /\ UNCHANGED <<cams, config, shown, waiting, saving, deleting, renewing>>
    /\ UNCHANGED <<registry, lists, poll, timeouts>>

\* handleStopProcessing
StopCamera(k) ==
    /\ Press(k) /\ Free(k) /\ IsRunning(k) /\ ~IsStarting(k)
    /\ action[k] # "stopping" /\ call[k].stop = "none"
    /\ action' = [action EXCEPT ![k] = "stopping"]
    /\ deadline' = [deadline EXCEPT ![k] = "none"] /\ alarm' = alarm \ {k}
    /\ call' = [call EXCEPT ![k].stop = "sent"]
    /\ asks' = asks \cup {Ask("stop", k, config[k])}
    /\ UNCHANGED <<cams, config, status, shown, waiting, reached>>
    /\ UNCHANGED <<saving, deleting, renewing, lists, registry, poll, timeouts>>

\* handleSave, of a change that needs a restart when the camera is running
Save(k) ==
    /\ Press(k) /\ Free(k) /\ config[k] = 1 /\ saving[k] = "no"
    /\ action[k] # "saving" /\ ~IsStarting(k)
    /\ action' = [action EXCEPT ![k] = "saving"]
    /\ saving' = [saving EXCEPT ![k] = IF IsRunning(k) THEN "running" ELSE "idle"]
    /\ UNCHANGED <<cams, config, deadline, status, alarm, shown, waiting, reached>>
    /\ UNCHANGED <<call, deleting, renewing, asks, lists>>
    /\ UNCHANGED <<registry, poll, timeouts>>

SaveEnds(k) ==
    /\ saving[k] # "no" /\ saving' = [saving EXCEPT ![k] = "no"]
    /\ \/ /\ busy = <<>> /\ ~renewing /\ config' = [config EXCEPT ![k] = 2]
          /\ \/ saving[k] = "running" /\ Begin(k, 2)
             \/ /\ saving[k] = "idle" /\ action' = [action EXCEPT ![k] = "none"]
                /\ alarm' = alarm \ {k}
                /\ UNCHANGED <<deadline, status, reached, call, asks>>
       \/ /\ action' = [action EXCEPT ![k] = "none"] /\ alarm' = alarm \ {k}
          /\ UNCHANGED <<config, deadline, status, reached, call, asks>>
    /\ UNCHANGED <<cams, shown, waiting, deleting, renewing, lists>>
    /\ UNCHANGED <<registry, poll, bounds>>

\* confirmDeleteCamera, with the list that follows by way of an effect
Remove(k) ==
    /\ cams' = cams \ {k} /\ lists' = lists \cup {cams'}
    /\ shown' = [shown EXCEPT ![k] = "none"] /\ alarm' = alarm \ {k}
    /\ deadline' = [deadline EXCEPT ![k] = "none"]
    /\ UNCHANGED <<config, action, status, waiting, reached, saving, renewing>>
Delete(k) ==
    /\ Press(k) /\ Free(k) /\ k \notin deleting /\ call[k].stop = "none"
    /\ IF IsRunning(k)
         THEN /\ deleting' = deleting \cup {k}
              /\ call' = [call EXCEPT ![k].stop = "sent"]
              /\ asks' = asks \cup {Ask("stop", k, config[k])}
              /\ UNCHANGED <<page, saving, renewing, lists>>
         ELSE Remove(k) /\ UNCHANGED <<call, asks, deleting>>
    /\ UNCHANGED <<registry, poll, timeouts>>

-----------------------------------------------------------------------------
(* The requests.                                                           *)

Answer(a, answer) ==
    /\ asks' = asks \ {a}
    /\ call' = [call EXCEPT ![a.camera][a.kind] = IF a.live THEN answer ELSE @]
    /\ UNCHANGED <<page, saving, deleting, renewing, lists, poll, bounds>>
Serve(a) ==
    /\ a \in asks
    /\ \/ /\ a.kind = "start" /\ RequestStart(a.camera, a.config)
          /\ Answer(a, IF Granted(a.camera, a.config) THEN "ok" ELSE "error")
       \/ a.kind = "stop" /\ Stop(a.camera) /\ Answer(a, "ok")
Store(list) ==
    /\ list \in lists /\ lists' = lists \ {list} /\ Replace(list)
    /\ UNCHANGED <<page, call, saving, deleting, renewing, asks, poll, bounds>>

StillAwaited(a) == a   \* mutant
Abandoned(a) == [a EXCEPT !.live = FALSE]

\* A request is given up; the service may have it or not.
GiveUp(a) ==
    /\ a \in asks /\ a.live /\ timeouts < MaxTimeouts
    /\ timeouts' = timeouts + 1
    /\ \E there \in SUBSET {Abandoned(a)} :
         asks' = (asks \ {a}) \cup there
    /\ call' = [call EXCEPT ![a.camera][a.kind] =
                  IF a.kind = "start" THEN "timeout" ELSE "error"]
    /\ UNCHANGED <<registry, page, saving, deleting, renewing, lists>>
    /\ UNCHANGED <<poll, commands>>

\* The start comes back, with an answer or without.
StartReturns(k) ==
    /\ call[k].start \in {"ok", "error", "timeout"}
    /\ call' = [call EXCEPT ![k].start = "none"]
    /\ IF call[k].start = "error"
         THEN /\ deadline' = [deadline EXCEPT ![k] = "none"]
              /\ action' = [action EXCEPT ![k] = "none"]
              /\ status' = [status EXCEPT ![k] = "error"]
         ELSE /\ action' = [action EXCEPT ![k] = "starting"]
              /\ UNCHANGED <<deadline, status>>
    /\ UNCHANGED <<cams, config, alarm, shown, waiting, reached, registry>>
    /\ UNCHANGED <<saving, deleting, renewing, asks, lists, poll, bounds>>

\* The stop comes back: of the button, or of a deletion.
StopReturns(k) ==
    /\ call[k].stop \in {"ok", "error"} /\ k \notin deleting
    /\ IF call[k].stop = "ok"
         THEN /\ call' = [call EXCEPT ![k].stop = "refresh"]
              /\ status' = [status EXCEPT ![k] = "stopped"] /\ UNCHANGED action
         ELSE /\ call' = [call EXCEPT ![k].stop = "none"]
              /\ action' = [action EXCEPT ![k] = "none"] /\ UNCHANGED status
    /\ UNCHANGED <<cams, config, deadline, alarm, shown, waiting, reached>>
    /\ UNCHANGED <<saving, deleting, renewing, asks, lists>>
    /\ UNCHANGED <<registry, poll, bounds>>
StopEnds(k) ==
    /\ call[k].stop = "refresh"
    /\ call' = [call EXCEPT ![k].stop = "none"]
    /\ \/ Apply(Now) /\ action' = [ActionsAfter(Now) EXCEPT ![k] = "none"]
       \/ /\ action' = [action EXCEPT ![k] = "none"]
          /\ UNCHANGED <<deadline, waiting, shown, alarm, status, reached>>
    /\ UNCHANGED <<cams, config, saving, deleting, renewing, asks, lists>>
    /\ UNCHANGED <<registry, poll, bounds>>
DeletionReturns(k) ==
    /\ call[k].stop \in {"ok", "error"} /\ k \in deleting
    /\ deleting' = deleting \ {k} /\ call' = [call EXCEPT ![k].stop = "none"]
    /\ IF call[k].stop = "ok"
         THEN Remove(k)
         ELSE UNCHANGED <<page, saving, renewing, lists>>
    /\ UNCHANGED <<asks, registry, poll, bounds>>

(* handleRestartService: what is under way fails, and the page is reset    *)
(* once that, like every answer that came before, has been dealt with.     *)
Restart ==
    /\ ~renewing /\ renewing' = TRUE
    /\ commands < MaxCommands /\ commands' = commands + 1
    /\ Renew /\ asks' = {} /\ poll' = <<>>
    /\ call' = [k \in Cameras |->
                  [t \in {"start", "stop"} |->
                     IF call[k][t] = "sent" THEN "error" ELSE call[k][t]]]
    /\ UNCHANGED <<page, saving, deleting, lists, timeouts>>
Restarted ==
    /\ renewing /\ renewing' = FALSE
    /\ \A k \in Cameras : /\ saving[k] = "no"
                          /\ call[k].start \in {"none", "sent"}
                          /\ call[k].stop \in {"none", "sent", "refresh"}
    /\ action' = [k \in Cameras |-> "none"] /\ waiting' = {}
    /\ deadline' = [k \in Cameras |-> "none"]
    /\ shown' = [k \in Cameras |-> "none"]
    /\ status' = [k \in Cameras |->
                    IF status[k] \in Active THEN "stopped" ELSE status[k]]
    /\ UNCHANGED <<cams, config, alarm, reached>>
    /\ UNCHANGED <<call, saving, deleting, asks, lists, registry, poll, bounds>>
RestartFails ==
    /\ renewing /\ renewing' = FALSE /\ UNCHANGED page
    /\ UNCHANGED <<call, saving, deleting, asks, lists, registry, poll, bounds>>

-----------------------------------------------------------------------------
Service(A) == A /\ UNCHANGED <<page, calls, poll, bounds>>
Thread == Service(EndStart \/ \E k \in Cameras, c \in Configs : BeginStart(k, c))
Return(k) == StartReturns(k) \/ StopReturns(k) \/ StopEnds(k) \/ DeletionReturns(k)

Next ==
    \/ Thread \/ \E k \in Cameras : Service(Fluctuate(k))
    \/ Poll \/ Show \/ Lose
    \/ \E k \in Cameras :
         \/ Monitor(k) \/ Elapse(k) \/ Return(k) \/ SaveEnds(k)
         \/ Start(k) \/ StopCamera(k) \/ Save(k) \/ Delete(k)
    \/ \E a \in asks : Serve(a) \/ GiveUp(a)
    \/ \E list \in lists : Store(list)
    \/ Restart \/ Restarted \/ RestartFails

Spec == Init /\ [][Next]_vars

(* Threads, timers and calls come to an end, and now and then a poll does  *)
(* not fail.  Nothing is assumed of the user, nor of the cameras: one may  *)
(* connect for ever.                                                       *)
Fairness ==
    /\ WF_vars(Thread) /\ WF_vars(\E a \in asks : Serve(a))
    /\ WF_vars(\E list \in lists : Store(list))
    /\ WF_vars(Poll) /\ SF_vars(Show) /\ WF_vars(Restarted \/ RestartFails)
    /\ \A k \in Cameras : /\ WF_vars(Monitor(k)) /\ WF_vars(Elapse(k))
                          /\ WF_vars(Return(k)) /\ WF_vars(SaveEnds(k))

FairSpec == Spec /\ Fairness

-----------------------------------------------------------------------------
(* useCameraStartDeadlineMonitor.ts:6: "Camera startup did not reach a     *)
(* running state within 90 seconds."  The page does not say so of a start  *)
(* that it has seen settled since it was accepted.                         *)
AlarmIsTrue == [][\A k \in alarm' \ alarm : k \notin reached]_vars

(* Whether its request is answered, refused, given up or lost with the     *)
(* service, and whatever becomes of the camera: no start is shown as under *)
(* way for ever, with its buttons disabled.                                *)
StartSettles ==
    \A k \in Cameras :
        k \in cams /\ action[k] \in StartActions
            ~> k \notin cams \/ action[k] \notin StartActions

(* What is shown of a camera comes to be what the service has, whatever    *)
(* came back late before.                                                  *)
ShownIsActual ==
    \A k \in Cameras : \A s \in States \ {"none"} :
        <>[](k \in cams /\ pipe[k].state = s /\ pending[k] = None)
            => <>[](k \in cams => status[k] = s)
=============================================================================
