------------------------- MODULE CameraControl_proofs -------------------------
(***************************************************************************)
(* Proofs about CameraControl: of the camera page for any cameras and      *)
(* bounds, and of the registry under everything that the page asks of it.  *)
(***************************************************************************)
EXTENDS CameraControl, CameraRegistry_proofs

-----------------------------------------------------------------------------
(* The registry under the page.                                            *)

\* What the page asks for is of its cameras, however hasty the user is.
AsksInv ==
    /\ RegistryTypeOK
    /\ cams \subseteq Cameras /\ config \in [Cameras -> Configs]
    /\ asks \subseteq Asks /\ lists \subseteq SUBSET Cameras

\* Whatever the page and the threads do is an operation of the registry, or
\* leaves it alone.
LEMMA StepIsOperation == AsksInv /\ [Next]_vars => [Operation]_registry
  <1>. SUFFICES ASSUME AsksInv, [Next]_vars PROVE [Operation]_registry
    OBVIOUS
  <1>1. CASE Thread \/ \E k \in Cameras : Service(Fluctuate(k))
    BY <1>1 DEF Thread, Service, Operation
  <1>2. ASSUME NEW a \in asks, Serve(a) PROVE Operation
    <2>1. a.camera \in Cameras /\ a.config \in Configs
      BY DEF AsksInv, Asks
    <2>. QED
      BY <1>2, <2>1 DEF Serve, Operation
  <1>3. ASSUME NEW list \in lists, Store(list) PROVE Operation
    BY <1>3 DEF Store, Operation, AsksInv
  <1>4. CASE Restart
    BY <1>4 DEF Restart, Operation
  <1>5. CASE \/ Poll \/ Show \/ Lose \/ Restarted \/ RestartFails
             \/ \E a \in asks : GiveUp(a)
    BY <1>5 DEF Poll, Show, Lose, Restarted, RestartFails, GiveUp
  <1>6. ASSUME NEW k \in Cameras,
               \/ Monitor(k) \/ Elapse(k) \/ Return(k) \/ SaveEnds(k)
               \/ Start(k) \/ StopCamera(k) \/ Save(k) \/ Delete(k)
        PROVE  UNCHANGED registry
    BY <1>6 DEF Monitor, Elapse, Return, StartReturns, StopReturns, StopEnds,
                DeletionReturns, SaveEnds, Start, StopCamera, Save, Delete
  <1>7. CASE UNCHANGED vars
    BY <1>7 DEF vars
  <1>. QED
    BY <1>1, <1>2, <1>3, <1>4, <1>5, <1>6, <1>7 DEF Next

\* A request that is given up is a request still.
LEMMA AbandonedAsk ==
  ASSUME NEW a \in Asks
  PROVE  Abandoned(a) \in Asks /\ ~Abandoned(a).live
  <1>1. Abandoned(a) \in Asks
    BY DEF Abandoned, Asks
  <1>2. ~Abandoned(a).live
    BY DEF Abandoned, Asks
  <1>. QED
    BY <1>1, <1>2

\* Every step keeps the requests to the cameras of the page.
LEMMA AsksStep == AsksInv /\ [Next]_vars => AsksInv'
  <1>. SUFFICES ASSUME AsksInv, [Next]_vars PROVE AsksInv'
    OBVIOUS
  <1>1. RegistryTypeOK'
    BY StepIsOperation, TypeStep DEF AsksInv
  <1>2. ASSUME UNCHANGED <<cams, config, asks, lists>> PROVE AsksInv'
    BY <1>1, <1>2 DEF AsksInv
  <1>3. CASE Thread \/ \E k \in Cameras : Service(Fluctuate(k))
    BY <1>2, <1>3 DEF Thread, Service, page, calls
  <1>4. CASE Poll \/ Show \/ Lose \/ Restarted \/ RestartFails
    BY <1>2, <1>4 DEF Poll, Show, Lose, Restarted, RestartFails, page, calls
  <1>5. CASE Restart
    BY <1>1, <1>5 DEF Restart, page, AsksInv
  <1>6. ASSUME NEW k \in Cameras,
               Monitor(k) \/ Elapse(k) \/ Save(k)
                 \/ StartReturns(k) \/ StopReturns(k) \/ StopEnds(k)
        PROVE  AsksInv'
    BY <1>2, <1>6 DEF Monitor, Elapse, Save, StartReturns, StopReturns, StopEnds,
                      calls
  <1>7. ASSUME NEW kind \in {"start", "stop"}, NEW k \in Cameras, NEW c \in Configs
        PROVE  Ask(kind, k, c) \in Asks
    BY DEF Ask, Asks
  <1>8. ASSUME NEW k \in Cameras,
               Start(k) \/ StopCamera(k) \/ SaveEnds(k)
        PROVE  AsksInv'
    <2>1. lists' = lists /\ cams' = cams /\ config' \in [Cameras -> Configs]
      BY <1>8, ControlAssumption DEF Start, StopCamera, SaveEnds, AsksInv
    <2>2. \/ asks' = asks
          \/ \E kind \in {"start", "stop"}, c \in Configs :
                asks' = asks \cup {Ask(kind, k, c)}
      BY <1>8, ControlAssumption DEF Start, StopCamera, SaveEnds, Begin, AsksInv
    <2>3. asks' \subseteq Asks
      BY <1>7, <2>2 DEF AsksInv
    <2>. QED
      BY <1>1, <2>1, <2>3 DEF AsksInv
  <1>9. ASSUME NEW k \in Cameras, Delete(k) \/ DeletionReturns(k)
        PROVE  AsksInv'
    <2>1. /\ UNCHANGED config /\ cams' \subseteq Cameras
          /\ lists' \subseteq SUBSET Cameras
      BY <1>9 DEF Delete, DeletionReturns, Remove, page, AsksInv
    <2>2. asks' = asks \/ asks' = asks \cup {Ask("stop", k, config[k])}
      BY <1>9 DEF Delete, DeletionReturns
    <2>3. asks' \subseteq Asks
      BY <1>7, <2>2 DEF AsksInv
    <2>. QED
      BY <1>1, <2>1, <2>3 DEF AsksInv
  <1>10. ASSUME NEW a \in asks, Serve(a) \/ GiveUp(a) PROVE AsksInv'
    <2>0. a \in Asks
      BY DEF AsksInv
    <2>1. Abandoned(a) \in Asks
      BY <2>0, AbandonedAsk
    <2>. QED
      BY <1>1, <1>10, <2>1 DEF Serve, Answer, GiveUp, page, AsksInv
  <1>11. ASSUME NEW list \in lists, Store(list) PROVE AsksInv'
    BY <1>1, <1>11 DEF Store, page, AsksInv
  <1>12. CASE UNCHANGED vars
    BY <1>2, <1>12 DEF vars, page, calls
  <1>. QED
    BY <1>3, <1>4, <1>5, <1>6, <1>8, <1>9, <1>10, <1>11, <1>12 DEF Next, Return

\* The requests and the registry, in every reachable state.
LEMMA AsksInvariant == Spec => []AsksInv
  <1>1. Init => AsksInv
    BY TypeInit, ControlAssumption DEF Init, AsksInv
  <1>. QED
    BY <1>1, AsksStep, PTL DEF Spec

(* CameraPipelineRegistry under the page, however hasty its user: no more  *)
(* cameras run, or are promised to, than the computer is configured for.   *)
THEOREM CapacityUnderThePage == Spec => []CapacityHeld
  <1>1. Init => CapacityHeld
    <2>. SUFFICES ASSUME Init PROVE CapacityHeld
      OBVIOUS
    <2>1. Promised = {}
      BY InitEmpty DEF Init
    <2>2. Cardinality(Promised) <= MaxConcurrent
      BY <2>1, FS_EmptySet, RegistryAssumption
    <2>. QED
      BY <2>2 DEF CapacityHeld, Promised
  <1>2. AsksInv /\ CapacityHeld /\ [Next]_vars => CapacityHeld'
    BY StepIsOperation, CapacityStep DEF AsksInv
  <1>. QED
    BY <1>1, <1>2, AsksInvariant, PTL DEF Spec

(* A camera that the page has had stopped runs only if the page has asked  *)
(* for it again since, however late a request is served.                   *)
THEOREM StopsHoldUnderThePage == Spec => []StopHolds
  <1>1. Init => AskedFor
    BY InitEmpty DEF Init, AskedFor
  <1>2. AsksInv /\ AskedFor /\ [Next]_vars => AskedFor'
    BY StepIsOperation, AskedStep DEF AsksInv
  <1>3. AskedFor => StopHolds
    BY DEF AskedFor, StopHolds, Promised
  <1>. QED
    BY <1>1, <1>2, <1>3, AsksInvariant, PTL DEF Spec

(* A camera that the page has changed runs, once nothing waits, with the   *)
(* configuration of the start that was accepted last.                      *)
THEOREM LatestWinsUnderThePage == Spec => []LatestWins
  <1>1. Init => AllCurrent
    BY CurrentInit DEF Init
  <1>2. AsksInv /\ CapacityHeld /\ AllCurrent /\ [Next]_vars => AllCurrent'
    BY StepIsOperation, CurrentStep DEF AsksInv, LatestInv
  <1>3. AllCurrent => LatestWins
    BY DEF AllCurrent, Current, LatestWins
  <1>. QED
    BY <1>1, <1>2, <1>3, CapacityUnderThePage, AsksInvariant, PTL DEF Spec

-----------------------------------------------------------------------------
(* The inductive invariant.                                                *)

\* The parts of the type invariant; beside, no two requests are under way
\* that the page would take for the same call.
PageOK ==
    /\ cams \subseteq Cameras /\ config \in [Cameras -> Configs]
    /\ action \in [Cameras -> Actions]
    /\ deadline \in [Cameras -> {"none", "set", "due"}]
    /\ status \in [Cameras -> (States \ {"none"}) \cup {"error"}]
    /\ alarm \subseteq Cameras /\ waiting \subseteq Cameras
    /\ shown \in [Cameras -> States] /\ reached \subseteq Cameras
CallOK == call \in [Cameras -> [start: Answers, stop: Answers]]
AsksOK ==
    /\ asks \subseteq Asks
    /\ \A a \in asks : a.live => call[a.camera][a.kind] = "sent"
    /\ \A a, b \in asks :
         a.live /\ b.live /\ a.camera = b.camera /\ a.kind = b.kind => a = b
SavingOK == saving \in [Cameras -> {"no", "idle", "running"}]
RestOK ==
    /\ deleting \subseteq Cameras /\ renewing \in BOOLEAN
    /\ lists \subseteq SUBSET Cameras
    /\ poll = <<>> \/ poll \in Snapshots
BoundsOK == commands \in 0 .. MaxCommands /\ timeouts \in 0 .. MaxTimeouts
PartsOK == PageOK /\ CallOK /\ AsksOK /\ SavingOK /\ RestOK /\ BoundsOK

\* Of a user who waits: the deadline of a start that was accepted is pending
\* only as long as the start is shown as under way; a camera that was shown
\* settled has none, nor has one that is being stopped or saved; and a camera
\* that is being saved has no request under way.
Calm(k) ==
    /\ deadline[k] # "none" /\ call[k].start = "none" => action[k] = "starting"
    /\ k \in reached => deadline[k] = "none"
    /\ call[k].stop # "none" /\ k \notin deleting => deadline[k] = "none"
    /\ saving[k] # "no" => /\ deadline[k] = "none"
                           /\ call[k].start = "none" /\ call[k].stop = "none"
    /\ k \in deleting => call[k].stop \in {"sent", "ok", "error"}
AllCalm == \A k \in Cameras : Calm(k)

ControlInv == RegistryTypeOK /\ PartsOK /\ AllCalm

\* The type invariant is made of these parts.
LEMMA TypeParts == RegistryTypeOK /\ PartsOK => TypeOK
  BY DEF TypeOK, PartsOK, PageOK, CallOK, AsksOK, SavingOK, RestOK, BoundsOK

Kinds == {"start", "stop"}

\* One call changes.
LEMMA Calls ==
    ASSUME CallOK, NEW k \in Cameras, NEW t \in Kinds, NEW v \in Answers,
           call' = [call EXCEPT ![k][t] = v]
    PROVE  /\ CallOK' /\ call'[k][t] = v
           /\ \A u \in Kinds \ {t} : call'[k][u] = call[k][u]
           /\ \A j \in Cameras : j # k => call'[j] = call[j]
  <1>1. CASE t = "start"
    BY <1>1 DEF CallOK, Kinds
  <1>2. CASE t = "stop"
    BY <1>2 DEF CallOK, Kinds
  <1>. QED
    BY <1>1, <1>2 DEF Kinds

\* The same, of a change that has a name.
Turns(k, t, v) == call' = [call EXCEPT ![k][t] = v]

LEMMA CallTurns ==
    CallOK => \A k \in Cameras, t \in Kinds, v \in Answers : Turns(k, t, v) =>
      /\ CallOK' /\ call'[k][t] = v
      /\ \A u \in Kinds \ {t} : call'[k][u] = call[k][u]
      /\ \A j \in Cameras : j # k => call'[j] = call[j]
  <1>. SUFFICES ASSUME CallOK, NEW k \in Cameras, NEW t \in Kinds,
                       NEW v \in Answers, Turns(k, t, v)
                PROVE  /\ CallOK' /\ call'[k][t] = v
                       /\ \A u \in Kinds \ {t} : call'[k][u] = call[k][u]
                       /\ \A j \in Cameras : j # k => call'[j] = call[j]
    OBVIOUS
  <1>1. call' = [call EXCEPT ![k][t] = v]
    BY DEF Turns
  <1>. QED
    BY <1>1, Calls

\* The same with the name of the call.
LEMMA CallsNamed ==
    ASSUME CallOK, NEW k \in Cameras, NEW v \in Answers
    PROVE  /\ call' = [call EXCEPT ![k].start = v] =>
                /\ CallOK' /\ call'[k].start = v /\ call'[k].stop = call[k].stop
                /\ \A j \in Cameras : j # k => call'[j] = call[j]
           /\ call' = [call EXCEPT ![k].stop = v] =>
                /\ CallOK' /\ call'[k].stop = v /\ call'[k].start = call[k].start
                /\ \A j \in Cameras : j # k => call'[j] = call[j]
  <1>1. "start" \in Kinds /\ "stop" \in Kinds
    BY DEF Kinds
  <1>. QED
    BY <1>1, Calls DEF CallOK

\* The states that are read are a snapshot.
LEMMA NowIsSnapshot == RegistryTypeOK => Now \in Snapshots
  BY DEF RegistryTypeOK, Now, Snapshots

\* What is shown of a snapshot is well-typed.
LEMMA Applied ==
    ASSUME PageOK, NEW snap \in Snapshots, Apply(snap), UNCHANGED <<cams, config>>,
           action' \in [Cameras -> Actions]
    PROVE  PageOK'
  <1>1. deadline' \in [Cameras -> {"none", "set", "due"}]
    BY DEF PageOK, Apply, DeadlineAfter
  <1>2. snap.pending \subseteq Cameras /\ snap.state \in [Cameras -> States]
    BY DEF Snapshots
  <1>3. waiting' \subseteq Cameras /\ alarm' \subseteq Cameras
        /\ reached' \subseteq Cameras
    BY <1>2 DEF PageOK, Apply
  <1>4. shown' \in [Cameras -> States]
    BY <1>2 DEF PageOK, Apply, States
  <1>5. \A k \in Cameras : StatusFrom(snap, k) \in (States \ {"none"}) \cup {"error"}
    BY <1>2 DEF PageOK, StatusFrom, States
  <1>6. status' \in [Cameras -> (States \ {"none"}) \cup {"error"}]
    BY <1>5 DEF Apply
  <1>. QED
    BY <1>1, <1>3, <1>4, <1>6 DEF PageOK

\* The actions that a snapshot leaves.
LEMMA ActionsLeft ==
    ASSUME PageOK, NEW snap
    PROVE  ActionsAfter(snap) \in [Cameras -> Actions]
  BY DEF PageOK, ActionsAfter, Actions

-----------------------------------------------------------------------------
(* The page starts well-typed, and every step keeps it so.                 *)

\* Nothing is asked for and nothing is under way at the start.
LEMMA PartsInit == Init => PartsOK
  <1>. SUFFICES ASSUME Init PROVE PartsOK
    OBVIOUS
  <1>1. PageOK
    BY ControlAssumption DEF Init, PageOK, Actions, States
  <1>2. CallOK
    BY DEF Init, CallOK, Answers
  <1>3. AsksOK /\ SavingOK /\ RestOK
    BY DEF Init, AsksOK, SavingOK, RestOK
  <1>4. BoundsOK
    BY ControlAssumption DEF Init, BoundsOK
  <1>. QED
    BY <1>1, <1>2, <1>3, <1>4 DEF PartsOK

\* One more button is pressed, and one more request given up.
LEMMA Counted ==
    /\ BoundsOK /\ commands < MaxCommands /\ commands' = commands + 1
         /\ UNCHANGED timeouts => BoundsOK'
    /\ BoundsOK /\ timeouts < MaxTimeouts /\ timeouts' = timeouts + 1
         /\ UNCHANGED commands => BoundsOK'
  BY ControlAssumption DEF BoundsOK

\* A request that the page waits for is sent.
LEMMA Sends ==
    ASSUME CallOK, AsksOK, NEW k \in Cameras, NEW t \in Kinds, NEW c \in Configs,
           call[k][t] # "sent", call' = [call EXCEPT ![k][t] = "sent"],
           asks' = asks \cup {Ask(t, k, c)}
    PROVE  CallOK' /\ AsksOK'
  <1>1. /\ CallOK' /\ call'[k][t] = "sent"
        /\ \A u \in Kinds \ {t} : call'[k][u] = call[k][u]
        /\ \A j \in Cameras : j # k => call'[j] = call[j]
    BY Calls DEF Answers
  <1>2. Ask(t, k, c) \in Asks /\ Ask(t, k, c).camera = k /\ Ask(t, k, c).kind = t
    BY DEF Ask, Asks, Kinds
  <1>3. \A a \in Asks : a.camera \in Cameras /\ a.kind \in Kinds
    BY DEF Asks, Kinds
  <1>4. \A a \in asks : a.live => call'[a.camera][a.kind] = "sent"
    BY <1>1, <1>3 DEF AsksOK
  <1>5. \A a \in asks : a.live => ~(a.camera = k /\ a.kind = t)
    BY DEF AsksOK
  <1>. QED
    BY <1>1, <1>2, <1>4, <1>5 DEF AsksOK

\* A call that is not waited for any more changes; no request is for it.
LEMMA Settles ==
    ASSUME CallOK, AsksOK, NEW k \in Cameras, NEW t \in Kinds, NEW v \in Answers,
           call[k][t] # "sent", call' = [call EXCEPT ![k][t] = v], asks' = asks
    PROVE  CallOK' /\ AsksOK'
  <1>1. /\ CallOK'
        /\ \A u \in Kinds \ {t} : call'[k][u] = call[k][u]
        /\ \A j \in Cameras : j # k => call'[j] = call[j]
    BY Calls
  <1>2. \A a \in Asks : a.camera \in Cameras /\ a.kind \in Kinds
    BY DEF Asks, Kinds
  <1>. QED
    BY <1>1, <1>2 DEF AsksOK

\* The page shows states, or does not, and lets a camera settle.
LEMMA PollSteps ==
    ASSUME RegistryTypeOK, PartsOK, Poll \/ Show \/ Lose
    PROVE  PartsOK'
  <1>1. CallOK' /\ AsksOK' /\ SavingOK' /\ BoundsOK'
        /\ UNCHANGED <<cams, config, deleting, renewing, lists>>
    BY DEF PartsOK, CallOK, AsksOK, SavingOK, BoundsOK, Poll, Show, Lose,
           page, calls, bounds
  <1>2. RestOK'
    BY <1>1, NowIsSnapshot DEF PartsOK, RestOK, Poll, Show, Lose
  <1>3. PageOK'
    <2>1. CASE UNCHANGED page
      BY <2>1 DEF PartsOK, PageOK, page
    <2>2. CASE Show
      <3>1. poll \in Snapshots
        BY <2>2 DEF Show, PartsOK, RestOK
      <3>. QED
        BY <1>1, <2>2, <3>1, Applied, ActionsLeft DEF Show, PartsOK
    <2>. QED
      BY <2>1, <2>2 DEF Poll, Lose
  <1>. QED
    BY <1>1, <1>2, <1>3 DEF PartsOK

\* The timer of a start.
LEMMA TimerSteps ==
    ASSUME PartsOK, NEW k \in Cameras, Monitor(k) \/ Elapse(k)
    PROVE  PartsOK'
  <1>1. CallOK' /\ AsksOK' /\ SavingOK' /\ BoundsOK' /\ RestOK'
    BY DEF PartsOK, CallOK, AsksOK, SavingOK, BoundsOK, RestOK, Monitor, Elapse,
           calls, bounds
  <1>2. PageOK'
    BY DEF PartsOK, PageOK, Monitor, Elapse, Actions
  <1>. QED
    BY <1>1, <1>2 DEF PartsOK

\* A start begins.
LEMMA Begins ==
    ASSUME PartsOK, NEW k \in Cameras, NEW c \in Configs, Begin(k, c),
           call[k].start # "sent", UNCHANGED <<cams, shown, waiting>>,
           config' \in [Cameras -> Configs]
    PROVE  PageOK' /\ CallOK' /\ AsksOK'
  <1>1. PageOK'
    BY DEF PartsOK, PageOK, Begin, Actions, States
  <1>2. /\ call' = [call EXCEPT ![k]["start"] = "sent"]
        /\ asks' = asks \cup {Ask("start", k, c)}
    BY DEF Begin
  <1>. QED
    BY <1>1, <1>2, Sends DEF PartsOK, Kinds

\* The buttons to start and to stop.
LEMMA ButtonSteps ==
    ASSUME PartsOK, Hasty = FALSE, NEW k \in Cameras, Start(k) \/ StopCamera(k)
    PROVE  PartsOK'
  <1>1. SavingOK' /\ RestOK'
    BY DEF PartsOK, SavingOK, RestOK, Start, StopCamera
  <1>2. BoundsOK'
    BY Counted DEF PartsOK, Start, StopCamera, Press
  <1>3. config[k] \in Configs
    BY DEF PartsOK, PageOK
  <1>4. PageOK' /\ CallOK' /\ AsksOK'
    <2>1. CASE Start(k)
      <3>1. call[k].start = "none"
        BY <2>1 DEF Start, Free
      <3>. QED
        BY <1>3, <2>1, <3>1, Begins DEF Start, PartsOK, PageOK
    <2>2. CASE StopCamera(k)
      <3>1. PageOK'
        BY <2>2 DEF StopCamera, PartsOK, PageOK, Actions
      <3>2. /\ call' = [call EXCEPT ![k]["stop"] = "sent"]
            /\ asks' = asks \cup {Ask("stop", k, config[k])}
            /\ call[k]["stop"] # "sent"
        BY <2>2 DEF StopCamera
      <3>. QED
        BY <1>3, <3>1, <3>2, Sends DEF PartsOK, Kinds
    <2>. QED
      BY <2>1, <2>2
  <1>. QED
    BY <1>1, <1>2, <1>4 DEF PartsOK

\* A camera is saved.
LEMMA SaveSteps ==
    ASSUME PartsOK, NEW k \in Cameras, Calm(k), Save(k) \/ SaveEnds(k)
    PROVE  PartsOK'
  <1>1. SavingOK' /\ RestOK'
    BY DEF PartsOK, SavingOK, RestOK, Save, SaveEnds
  <1>2. BoundsOK'
    BY Counted DEF PartsOK, BoundsOK, Save, SaveEnds, Press, bounds
  <1>3. PageOK' /\ CallOK' /\ AsksOK'
    <2>1. CASE Save(k)
      BY <2>1 DEF Save, PartsOK, PageOK, CallOK, AsksOK, Actions
    <2>2. CASE SaveEnds(k) /\ \E c \in Configs : Begin(k, c)
      <3>1. config' \in [Cameras -> Configs]
        BY <2>2, ControlAssumption DEF SaveEnds, PartsOK, PageOK
      <3>2. call[k].start # "sent"
        BY <2>2 DEF SaveEnds, Calm
      <3>. QED
        BY <2>2, <3>1, <3>2, Begins DEF SaveEnds
    <2>3. CASE /\ SaveEnds(k) /\ action' = [action EXCEPT ![k] = "none"]
               /\ alarm' = alarm \ {k}
               /\ UNCHANGED <<deadline, status, reached, call, asks>>
      BY <2>3, ControlAssumption
      DEF SaveEnds, PartsOK, PageOK, CallOK, AsksOK, Actions
    <2>. QED
      BY <2>1, <2>2, <2>3, ControlAssumption DEF SaveEnds
  <1>. QED
    BY <1>1, <1>2, <1>3 DEF PartsOK

\* A camera is taken off the page.
LEMMA Removes ==
    ASSUME PartsOK, NEW k \in Cameras, Remove(k)
    PROVE  PageOK' /\ SavingOK' /\ lists' \subseteq SUBSET Cameras
           /\ renewing' \in BOOLEAN
  BY DEF PartsOK, PageOK, SavingOK, RestOK, Remove, States

\* The button to delete a camera, and the stop that it has waited for.
LEMMA DeleteSteps ==
    ASSUME PartsOK, NEW k \in Cameras, Delete(k) \/ DeletionReturns(k)
    PROVE  PartsOK'
  <1>1. BoundsOK'
    BY Counted DEF PartsOK, BoundsOK, Delete, DeletionReturns, Press, bounds
  <1>2. UNCHANGED poll /\ deleting' \subseteq Cameras
    BY DEF Delete, DeletionReturns, PartsOK, RestOK
  <1>3. PageOK' /\ SavingOK' /\ RestOK'
    <2>1. CASE Remove(k)
      BY <1>2, <2>1, Removes DEF PartsOK, RestOK
    <2>2. CASE UNCHANGED <<page, saving, renewing, lists>>
      BY <1>2, <2>2 DEF PartsOK, PageOK, SavingOK, RestOK, page
    <2>. QED
      BY <2>1, <2>2 DEF Delete, DeletionReturns
  <1>4. CallOK' /\ AsksOK'
    <2>1. CASE UNCHANGED <<call, asks>>
      BY <2>1 DEF PartsOK, CallOK, AsksOK
    <2>2. CASE /\ Delete(k) /\ call' = [call EXCEPT ![k].stop = "sent"]
               /\ asks' = asks \cup {Ask("stop", k, config[k])}
      <3>1. /\ config[k] \in Configs /\ call[k]["stop"] # "sent"
            /\ call' = [call EXCEPT ![k]["stop"] = "sent"]
        BY <2>2 DEF PartsOK, PageOK, Delete
      <3>. QED
        BY <2>2, <3>1, Sends DEF PartsOK, Kinds
    <2>3. CASE DeletionReturns(k)
      <3>1. /\ call[k]["stop"] # "sent" /\ asks' = asks
            /\ call' = [call EXCEPT ![k]["stop"] = "none"]
        BY <2>3 DEF DeletionReturns
      <3>. QED
        BY <3>1, Settles DEF PartsOK, Kinds, Answers
    <2>. QED
      BY <2>1, <2>2, <2>3 DEF Delete
  <1>. QED
    BY <1>1, <1>3, <1>4 DEF PartsOK

\* A request is answered or given up: the page does not wait for it any more.
LEMMA Answered ==
    ASSUME PartsOK, NEW a \in asks, NEW v \in Answers, NEW left,
           left \subseteq {Abandoned(a)},
           \/ call' = [call EXCEPT ![a.camera][a.kind] = v] /\ a.live
           \/ call' = call /\ ~a.live,
           asks' = (asks \ {a}) \cup left
    PROVE  CallOK' /\ AsksOK'
  <1>1. /\ a \in Asks /\ a.camera \in Cameras /\ a.kind \in Kinds
        /\ Abandoned(a) \in Asks /\ ~Abandoned(a).live
    <2>1. a \in Asks
      BY DEF PartsOK, AsksOK
    <2>2. a.camera \in Cameras /\ a.kind \in Kinds
      BY <2>1 DEF Asks, Kinds
    <2>. QED
      BY <2>1, <2>2, AbandonedAsk
  <1>2. asks' \subseteq Asks
    BY <1>1 DEF PartsOK, AsksOK
  <1>3. CASE call' = call
    BY <1>1, <1>2, <1>3 DEF PartsOK, AsksOK, CallOK
  <1>4. CASE call' = [call EXCEPT ![a.camera][a.kind] = v] /\ a.live
    <2>1. /\ CallOK'
          /\ \A u \in Kinds \ {a.kind} : call'[a.camera][u] = call[a.camera][u]
          /\ \A j \in Cameras : j # a.camera => call'[j] = call[j]
      <3>1. Turns(a.camera, a.kind, v)
        BY <1>4 DEF Turns
      <3>. QED
        BY <1>1, <3>1, CallTurns DEF PartsOK
    <2>2. \A b \in Asks : b.camera \in Cameras /\ b.kind \in Kinds
      BY DEF Asks, Kinds
    <2>. QED
      BY <1>1, <1>2, <2>1, <2>2 DEF PartsOK, AsksOK
  <1>. QED
    BY <1>3, <1>4

\* The service answers, or stores a list; the page gives a request up.
LEMMA ServiceSteps ==
    ASSUME PartsOK,
           \/ \E a \in asks : Serve(a) \/ GiveUp(a)
           \/ \E list \in lists : Store(list)
    PROVE  PartsOK'
  <1>1. PageOK' /\ SavingOK'
    BY DEF PartsOK, PageOK, SavingOK, Serve, Answer, GiveUp, Store, page
  <1>2. RestOK'
    BY DEF PartsOK, RestOK, Serve, Answer, GiveUp, Store
  <1>3. BoundsOK'
    BY Counted DEF PartsOK, BoundsOK, Serve, Answer, GiveUp, Store, bounds
  <1>4. CallOK' /\ AsksOK'
    <2>1. ASSUME NEW a \in asks, NEW v \in Answers, Answer(a, v)
          PROVE  CallOK' /\ AsksOK'
      <3>0. PICK left \in SUBSET {Abandoned(a)} : asks' = (asks \ {a}) \cup left
        <4>1. asks' = (asks \ {a}) \cup {}
          BY <2>1 DEF Answer
        <4>. QED
          BY <4>1
      <3>1. CASE a.live
        <4>1. call' = [call EXCEPT ![a.camera][a.kind] = v]
          BY <2>1, <3>1 DEF Answer
        <4>. QED
          BY <3>0, <3>1, <4>1, Answered
      <3>2. CASE ~a.live
        <4>1. a.camera \in Cameras /\ a.kind \in Kinds
          BY DEF PartsOK, AsksOK, Asks, Kinds
        <4>2. call' = [call EXCEPT ![a.camera][a.kind] = @]
          BY <2>1, <3>2 DEF Answer
        <4>3. call' = call
          BY <4>1, <4>2 DEF PartsOK, CallOK, Kinds
        <4>. QED
          BY <3>0, <3>2, <4>3, Answered
      <3>. QED
        BY <3>1, <3>2
    <2>2. ASSUME NEW a \in asks, Serve(a)
          PROVE  CallOK' /\ AsksOK'
      BY <2>1, <2>2 DEF Serve, Answers
    <2>3. ASSUME NEW a \in asks, GiveUp(a)
          PROVE  CallOK' /\ AsksOK'
      <3>1. PICK v \in Answers, left \in SUBSET {Abandoned(a)} :
               /\ call' = [call EXCEPT ![a.camera][a.kind] = v] /\ a.live
               /\ asks' = (asks \ {a}) \cup left
        BY <2>3 DEF GiveUp, Answers
      <3>. QED
        BY <3>1, Answered
    <2>4. CASE UNCHANGED <<call, asks>>
      BY <2>4 DEF PartsOK, CallOK, AsksOK
    <2>. QED
      BY <2>2, <2>3, <2>4 DEF Store
  <1>. QED
    BY <1>1, <1>2, <1>3, <1>4 DEF PartsOK

\* A call comes back to the page.
LEMMA ReturnSteps ==
    ASSUME RegistryTypeOK, PartsOK, NEW k \in Cameras,
           StartReturns(k) \/ StopReturns(k) \/ StopEnds(k)
    PROVE  PartsOK'
  <1>1. SavingOK' /\ RestOK' /\ BoundsOK'
    BY DEF PartsOK, SavingOK, RestOK, BoundsOK, StartReturns, StopReturns,
           StopEnds, bounds
  <1>2. CallOK' /\ AsksOK'
    <2>1. \E t \in Kinds, v \in Answers :
             /\ call[k][t] # "sent" /\ asks' = asks
             /\ call' = [call EXCEPT ![k][t] = v]
      BY DEF StartReturns, StopReturns, StopEnds, Kinds, Answers
    <2>. QED
      BY <2>1, Settles DEF PartsOK
  <1>3. PageOK'
    <2>1. CASE StopEnds(k) /\ Apply(Now)
      <3>1. action' \in [Cameras -> Actions]
        BY <2>1, ActionsLeft DEF StopEnds, PartsOK, PageOK, Actions
      <3>. QED
        BY <2>1, <3>1, Applied, NowIsSnapshot DEF StopEnds, PartsOK
    <2>2. CASE ~(StopEnds(k) /\ Apply(Now))
      BY <2>2 DEF StartReturns, StopReturns, StopEnds, PartsOK, PageOK, Actions,
                  States
    <2>. QED
      BY <2>1, <2>2
  <1>. QED
    BY <1>1, <1>2, <1>3 DEF PartsOK

\* The service is started again.
LEMMA RestartSteps ==
    ASSUME PartsOK, Restart \/ Restarted \/ RestartFails
    PROVE  PartsOK'
  <1>1. SavingOK' /\ RestOK' /\ BoundsOK'
    BY Counted DEF PartsOK, SavingOK, RestOK, BoundsOK, Restart, Restarted,
                   RestartFails, bounds
  <1>2. CallOK' /\ AsksOK'
    <2>1. CASE Restart
      <3>1. \A j \in Cameras :
               [t \in {"start", "stop"} |->
                  IF call[j][t] = "sent" THEN "error" ELSE call[j][t]]
                 \in [start: Answers, stop: Answers]
        BY DEF PartsOK, CallOK, Answers
      <3>. QED
        BY <2>1, <3>1 DEF Restart, CallOK, AsksOK
    <2>2. CASE UNCHANGED <<call, asks>>
      BY <2>2 DEF PartsOK, CallOK, AsksOK
    <2>. QED
      BY <2>1, <2>2 DEF Restarted, RestartFails
  <1>3. PageOK'
    BY DEF PartsOK, PageOK, Restart, Restarted, RestartFails, page, Actions, States
  <1>. QED
    BY <1>1, <1>2, <1>3 DEF PartsOK

\* Every step keeps the page well-typed.
LEMMA PartsStep ==
    ASSUME ControlInv, Hasty = FALSE, [Next]_vars
    PROVE  PartsOK'
  <1>0. RegistryTypeOK /\ PartsOK /\ \A k \in Cameras : Calm(k)
    BY DEF ControlInv, AllCalm
  <1>1. CASE UNCHANGED <<page, calls, poll, bounds>>
    BY <1>0, <1>1 DEF PartsOK, PageOK, CallOK, AsksOK, SavingOK, RestOK, BoundsOK,
                      page, calls, bounds
  <1>2. CASE Thread \/ \E k \in Cameras : Service(Fluctuate(k))
    BY <1>1, <1>2 DEF Thread, Service
  <1>3. ASSUME NEW k \in Cameras,
               \/ Monitor(k) \/ Elapse(k) \/ Return(k) \/ SaveEnds(k)
               \/ Start(k) \/ StopCamera(k) \/ Save(k) \/ Delete(k)
        PROVE  PartsOK'
    BY <1>0, <1>3, TimerSteps, ReturnSteps, DeleteSteps, SaveSteps, ButtonSteps
    DEF Return
  <1>4. CASE UNCHANGED vars
    BY <1>1, <1>4 DEF vars
  <1>. QED
    BY <1>0, <1>2, <1>3, <1>4, PollSteps, ServiceSteps, RestartSteps DEF Next

-----------------------------------------------------------------------------
(* A user who waits keeps the page calm.                                   *)

\* A step that does not touch what Calm says of a camera.
LEMMA CalmAlone ==
    ASSUME NEW k \in Cameras, Calm(k), deadline'[k] = deadline[k],
           call'[k] = call[k], action'[k] = action[k], saving'[k] = saving[k],
           k \in reached' => k \in reached, k \in deleting' <=> k \in deleting
    PROVE  Calm(k)'
  BY DEF Calm

\* What a snapshot does to a camera: it clears the deadline of a start that has
\* settled, or is over.
LEMMA CalmApplied ==
    ASSUME PartsOK, NEW k \in Cameras, Calm(k), NEW snap, Apply(snap),
           \/ action'[k] = ActionsAfter(snap)[k]
           \/ deadline[k] = "none" /\ action'[k] = "none",
           \/ call'[k] = call[k]
           \/ /\ deadline[k] = "none" /\ k \notin deleting
              /\ call'[k].start = call[k].start /\ call'[k].stop = "none",
           UNCHANGED <<saving, deleting>>
    PROVE  Calm(k)'
  <1>1. /\ deadline'[k] = IF Ended(snap, k) THEN "none" ELSE deadline[k]
        /\ ActionsAfter(snap)[k] = IF Ended(snap, k) THEN "none" ELSE action[k]
        /\ k \in reached' => \/ k \in reached
                             \/ SettledIn(snap, k) /\ call[k].start = "none"
    BY DEF Apply, DeadlineAfter, ActionsAfter
  <1>2. k \in reached' => deadline'[k] = "none"
    BY <1>1 DEF Calm, Ended
  <1>. QED
    BY <1>1, <1>2 DEF Calm

\* The timer of a start, for every camera j.
LEMMA CalmTimer ==
    ASSUME PartsOK, NEW j \in Cameras, Calm(j), NEW k \in Cameras,
           Monitor(k) \/ Elapse(k)
    PROVE  Calm(j)'
  <1>1. CASE j # k
    BY <1>1, CalmAlone DEF Monitor, Elapse, calls, PartsOK, PageOK
  <1>2. CASE j = k /\ Monitor(k)
    BY <1>2 DEF Monitor, calls, Calm, PartsOK, PageOK
  <1>3. CASE j = k /\ Elapse(k)
    BY <1>3 DEF Elapse, calls, Calm, PartsOK, PageOK
  <1>. QED
    BY <1>1, <1>2, <1>3

\* A start begins, of a camera with no request under way.
LEMMA CalmBegin ==
    ASSUME PartsOK, NEW j \in Cameras, Calm(j), NEW k \in Cameras,
           NEW c \in Configs, Begin(k, c), UNCHANGED deleting,
           call[k].stop = "none", saving'[k] = "no",
           \A i \in Cameras : i # k => saving'[i] = saving[i]
    PROVE  Calm(j)'
  <1>1. /\ CallOK /\ action' = [action EXCEPT ![k] = "requesting"]
        /\ call' = [call EXCEPT ![k].start = "sent"]
        /\ deadline' = [deadline EXCEPT ![k] = "set"]
        /\ reached' = reached \ {k}
    BY DEF Begin, PartsOK
  <1>2. /\ call'[k].start = "sent" /\ call'[k].stop = "none"
        /\ \A i \in Cameras : i # k => call'[i] = call[i]
    BY <1>1, CallsNamed DEF Answers
  <1>3. CASE j # k
    BY <1>1, <1>2, <1>3, CalmAlone DEF PartsOK, PageOK
  <1>4. CASE j = k
    BY <1>1, <1>2, <1>4 DEF Calm, PartsOK, PageOK
  <1>. QED
    BY <1>3, <1>4

\* The buttons to start, to stop and to save.
LEMMA CalmButton ==
    ASSUME PartsOK, Hasty = FALSE, NEW j \in Cameras, Calm(j), NEW k \in Cameras,
           Calm(k), Start(k) \/ StopCamera(k) \/ Save(k)
    PROVE  Calm(j)'
  <1>0. /\ CallOK /\ call[k].start = "none" /\ call[k].stop = "none"
        /\ saving[k] = "no" /\ UNCHANGED deleting
    BY DEF PartsOK, Start, StopCamera, Save, Free
  <1>1. CASE Start(k)
    <2>1. config[k] \in Configs
      BY DEF PartsOK, PageOK
    <2>. QED
      BY <1>0, <1>1, <2>1, CalmBegin DEF Start
  <1>2. CASE StopCamera(k)
    <2>1. /\ action' = [action EXCEPT ![k] = "stopping"]
          /\ call' = [call EXCEPT ![k].stop = "sent"]
          /\ deadline' = [deadline EXCEPT ![k] = "none"]
          /\ UNCHANGED <<reached, saving>>
      BY <1>2 DEF StopCamera
    <2>2. /\ call'[k].start = call[k].start /\ call'[k].stop = "sent"
          /\ \A i \in Cameras : i # k => call'[i] = call[i]
      BY <1>0, <2>1, CallsNamed DEF Answers
    <2>3. CASE j # k
      BY <1>0, <2>1, <2>2, <2>3, CalmAlone DEF PartsOK, PageOK
    <2>4. CASE j = k
      BY <1>0, <2>1, <2>2, <2>4 DEF Calm, PartsOK, PageOK
    <2>. QED
      BY <2>3, <2>4
  <1>3. CASE Save(k)
    <2>1. /\ action' = [action EXCEPT ![k] = "saving"]
          /\ UNCHANGED <<call, deadline, reached>>
          /\ \A i \in Cameras : i # k => saving'[i] = saving[i]
      BY <1>3 DEF Save, PartsOK, SavingOK
    <2>2. action[k] \notin StartActions
      BY <1>3 DEF Save, IsStarting
    <2>3. deadline[k] = "none"
      BY <1>0, <2>2 DEF Calm, StartActions
    <2>4. CASE j # k
      BY <1>0, <2>1, <2>4, CalmAlone DEF PartsOK, PageOK
    <2>5. CASE j = k
      BY <1>0, <2>1, <2>3, <2>5 DEF Calm
    <2>. QED
      BY <2>4, <2>5
  <1>. QED
    BY <1>1, <1>2, <1>3

\* The end of a save: a start, or nothing.
LEMMA CalmSaveEnds ==
    ASSUME PartsOK, NEW j \in Cameras, Calm(j), NEW k \in Cameras, Calm(k),
           SaveEnds(k)
    PROVE  Calm(j)'
  <1>0. /\ call[k].start = "none" /\ call[k].stop = "none" /\ deadline[k] = "none"
        /\ saving'[k] = "no" /\ UNCHANGED deleting
        /\ \A i \in Cameras : i # k => saving'[i] = saving[i]
    BY DEF SaveEnds, Calm, PartsOK, SavingOK
  <1>1. CASE \E c \in Configs : Begin(k, c)
    BY <1>0, <1>1, CalmBegin
  <1>2. CASE /\ action' = [action EXCEPT ![k] = "none"]
             /\ UNCHANGED <<deadline, status, reached, call, asks>>
    <2>1. CASE j # k
      BY <1>0, <1>2, <2>1, CalmAlone DEF PartsOK, PageOK
    <2>2. CASE j = k
      BY <1>0, <1>2, <2>2 DEF Calm
    <2>. QED
      BY <2>1, <2>2
  <1>. QED
    BY <1>1, <1>2, ControlAssumption DEF SaveEnds

\* A camera is deleted, at once or once it has stopped.
LEMMA CalmDelete ==
    ASSUME PartsOK, Hasty = FALSE, NEW j \in Cameras, Calm(j), NEW k \in Cameras,
           Calm(k), Delete(k) \/ DeletionReturns(k)
    PROVE  Calm(j)'
  <1>0. /\ CallOK /\ UNCHANGED <<action, saving, reached>>
        /\ deadline' = deadline \/ deadline' = [deadline EXCEPT ![k] = "none"]
        /\ \A i \in Cameras : i # k => (i \in deleting' <=> i \in deleting)
    BY DEF PartsOK, Delete, DeletionReturns, Remove, page
  <1>1. /\ \A i \in Cameras : i # k => call'[i] = call[i]
        /\ call'[k].start = call[k].start
        /\ \/ call' = call /\ UNCHANGED deleting
           \/ call'[k].stop = "sent" /\ k \in deleting' /\ saving[k] = "no"
           \/ call'[k].stop = "none" /\ k \notin deleting'
    BY <1>0, CallsNamed DEF Delete, DeletionReturns, Free, Answers
  <1>2. \A i \in Cameras :
          deadline'[i] = deadline[i] \/ (i = k /\ deadline'[i] = "none")
    BY <1>0 DEF PartsOK, PageOK
  <1>3. CASE j # k
    BY <1>0, <1>1, <1>2, <1>3, CalmAlone
  <1>4. CASE j = k
    BY <1>0, <1>1, <1>2, <1>4 DEF Calm
  <1>. QED
    BY <1>3, <1>4

\* A request is answered, or given up.
LEMMA CalmAnswer ==
    ASSUME PartsOK, NEW j \in Cameras, Calm(j), NEW a \in asks, Serve(a) \/ GiveUp(a)
    PROVE  Calm(j)'
  <1>0. /\ CallOK /\ a.camera \in Cameras /\ a.kind \in Kinds
        /\ a.live => call[a.camera][a.kind] = "sent"
        /\ UNCHANGED <<action, deadline, saving, deleting, reached>>
    BY DEF PartsOK, AsksOK, Asks, Kinds, Serve, Answer, GiveUp, page
  <1>1. \E v \in {"ok", "error", "timeout"} :
           /\ a.kind = "stop" => v # "timeout"
           /\ call' = [call EXCEPT ![a.camera][a.kind] = IF a.live THEN v ELSE @]
    BY DEF Serve, Answer, GiveUp
  <1>2. \/ call' = call
        \/ \E v \in {"ok", "error", "timeout"} :
              /\ a.live /\ (a.kind = "stop" => v # "timeout")
              /\ call' = [call EXCEPT ![a.camera][a.kind] = v]
    <2>1. CASE a.live
      BY <1>1, <2>1
    <2>2. CASE ~a.live
      <3>1. call' = [call EXCEPT ![a.camera][a.kind] = @]
        BY <1>1, <2>2
      <3>2. call' = call
        BY <1>0, <3>1 DEF CallOK, Kinds
      <3>. QED
        BY <3>2
    <2>. QED
      BY <2>1, <2>2
  <1>3. CASE call' = call \/ j # a.camera
    <2>1. call'[j] = call[j]
      BY <1>0, <1>2, <1>3, Calls DEF Answers
    <2>. QED
      BY <1>0, <2>1, CalmAlone
  <1>4. CASE call' # call /\ j = a.camera
    <2>1. PICK v \in {"ok", "error", "timeout"} :
              /\ a.live /\ (a.kind = "stop" => v # "timeout")
              /\ call' = [call EXCEPT ![a.camera][a.kind] = v]
      BY <1>2, <1>4
    <2>2. /\ call[j][a.kind] = "sent" /\ v \in Answers
          /\ call' = [call EXCEPT ![j][a.kind] = v]
      BY <1>0, <1>4, <2>1 DEF Answers
    <2>3. /\ call'[j][a.kind] = v
          /\ \A u \in Kinds \ {a.kind} : call'[j][u] = call[j][u]
      <3>1. Turns(j, a.kind, v)
        BY <2>2 DEF Turns
      <3>. QED
        BY <1>0, <2>2, <3>1, CallTurns
    <2>4. CASE a.kind = "start"
      <3>1. call'[j].start # "none" /\ call'[j].stop = call[j].stop
        BY <2>1, <2>3, <2>4 DEF Kinds
      <3>2. call[j].start # "none"
        BY <2>2, <2>4
      <3>. QED
        BY <1>0, <3>1, <3>2 DEF Calm
    <2>5. CASE a.kind = "stop"
      <3>1. /\ call'[j].stop \in {"ok", "error"}
            /\ call'[j].start = call[j].start
        BY <2>1, <2>3, <2>5 DEF Kinds
      <3>2. call[j].stop = "sent"
        BY <2>2, <2>5
      <3>. QED
        BY <1>0, <3>1, <3>2 DEF Calm
    <2>. QED
      BY <1>0, <2>4, <2>5 DEF Kinds
  <1>. QED
    BY <1>3, <1>4

\* A start comes back: it is under way now, or has no deadline any more.
LEMMA CalmStartReturns ==
    ASSUME PartsOK, NEW j \in Cameras, Calm(j), NEW k \in Cameras, StartReturns(k)
    PROVE  Calm(j)'
  <1>0. /\ CallOK /\ UNCHANGED <<saving, deleting, reached>>
        /\ call' = [call EXCEPT ![k].start = "none"] /\ call[k].start # "none"
        /\ \/ /\ action' = [action EXCEPT ![k] = "starting"] /\ deadline' = deadline
           \/ /\ action' = [action EXCEPT ![k] = "none"]
              /\ deadline' = [deadline EXCEPT ![k] = "none"]
    BY DEF PartsOK, StartReturns
  <1>1. /\ call'[k].start = "none" /\ call'[k].stop = call[k].stop
        /\ \A i \in Cameras : i # k => call'[i] = call[i]
    BY <1>0, CallsNamed DEF Answers
  <1>2. CASE j # k
    BY <1>0, <1>1, <1>2, CalmAlone DEF PartsOK, PageOK
  <1>3. CASE j = k
    BY <1>0, <1>1, <1>3 DEF Calm, PartsOK, PageOK
  <1>. QED
    BY <1>2, <1>3

\* A stop comes back, and the page has read the states after it.
LEMMA CalmStopReturns ==
    ASSUME PartsOK, NEW j \in Cameras, Calm(j), NEW k \in Cameras, Calm(k),
           StopReturns(k) \/ StopEnds(k)
    PROVE  Calm(j)'
  <1>0. CallOK /\ UNCHANGED <<saving, deleting>> /\ k \notin deleting
    BY DEF PartsOK, StopReturns, StopEnds, Calm
  <1>1. deadline[k] = "none"
    BY <1>0 DEF Calm, StopReturns, StopEnds
  <1>2. PICK v \in {"refresh", "none"} : call' = [call EXCEPT ![k].stop = v]
    BY DEF StopReturns, StopEnds
  <1>3. /\ call'[k].stop = v /\ call'[k].start = call[k].start
        /\ \A i \in Cameras : i # k => call'[i] = call[i]
    BY <1>0, <1>2, CallsNamed DEF Answers
  <1>4. CASE UNCHANGED <<deadline, reached>>
             /\ (action' = action \/ action' = [action EXCEPT ![k] = "none"])
    <2>1. CASE j # k
      BY <1>0, <1>3, <1>4, <2>1, CalmAlone DEF PartsOK, PageOK
    <2>2. CASE j = k
      BY <1>0, <1>1, <1>3, <1>4, <2>2 DEF Calm, StopReturns, StopEnds
    <2>. QED
      BY <2>1, <2>2
  <1>5. CASE StopEnds(k) /\ Apply(Now)
    <2>1. action' = [ActionsAfter(Now) EXCEPT ![k] = "none"] \/ UNCHANGED deadline
      BY <1>5 DEF StopEnds
    <2>2. CASE action' = [ActionsAfter(Now) EXCEPT ![k] = "none"]
      <3>1. \A i \in Cameras :
              action'[i] = IF i = k THEN "none" ELSE ActionsAfter(Now)[i]
        BY <2>2 DEF ActionsAfter
      <3>2. call'[k].stop = "none"
        BY <1>0, <1>5, CallsNamed DEF StopEnds, Answers
      <3>3. CASE j # k
        BY <1>0, <1>3, <1>5, <3>1, <3>3, CalmApplied
      <3>4. CASE j = k
        BY <1>0, <1>1, <1>3, <1>5, <3>1, <3>2, <3>4, CalmApplied
      <3>. QED
        BY <3>3, <3>4
    <2>. QED
      BY <1>4, <1>5, <2>2 DEF StopEnds
  <1>. QED
    BY <1>4, <1>5 DEF StopReturns, StopEnds

\* The service is started again, and the page is reset.
LEMMA CalmRestart ==
    ASSUME PartsOK, NEW j \in Cameras, Calm(j),
           Restart \/ Restarted \/ RestartFails
    PROVE  Calm(j)'
  <1>1. CASE Restart
    <2>1. /\ UNCHANGED <<action, deadline, saving, deleting, reached>>
          /\ call'[j].start =
                IF call[j].start = "sent" THEN "error" ELSE call[j].start
          /\ call'[j].stop =
                IF call[j].stop = "sent" THEN "error" ELSE call[j].stop
      BY <1>1 DEF Restart, page
    <2>. QED
      BY <2>1 DEF Calm
  <1>2. CASE Restarted
    BY <1>2 DEF Restarted, Calm
  <1>3. CASE RestartFails
    BY <1>3, CalmAlone DEF RestartFails, page
  <1>. QED
    BY <1>1, <1>2, <1>3

\* Every step keeps every camera calm.
LEMMA CalmStep ==
    ASSUME ControlInv, Hasty = FALSE, [Next]_vars
    PROVE  AllCalm'
  <1>. SUFFICES ASSUME NEW j \in Cameras PROVE Calm(j)'
    BY DEF AllCalm
  <1>0. PartsOK /\ Calm(j) /\ \A k \in Cameras : Calm(k)
    BY DEF ControlInv, AllCalm
  <1>1. CASE UNCHANGED <<page, calls>>
    BY <1>0, <1>1, CalmAlone DEF page, calls
  <1>2. CASE Thread \/ \E k \in Cameras : Service(Fluctuate(k))
    BY <1>1, <1>2 DEF Thread, Service
  <1>3. CASE Poll \/ Lose
    BY <1>1, <1>3 DEF Poll, Lose
  <1>4. CASE Show
    <2>1. /\ Apply(poll) /\ action' = ActionsAfter(poll)
          /\ UNCHANGED <<call, saving, deleting>>
      BY <1>4 DEF Show, calls
    <2>. QED
      BY <1>0, <2>1, CalmApplied
  <1>5. ASSUME NEW k \in Cameras,
               \/ Monitor(k) \/ Elapse(k) \/ Return(k) \/ SaveEnds(k)
               \/ Start(k) \/ StopCamera(k) \/ Save(k) \/ Delete(k)
        PROVE  Calm(j)'
    BY <1>0, <1>5, CalmTimer, CalmStartReturns, CalmStopReturns, CalmDelete,
       CalmSaveEnds, CalmButton
    DEF Return
  <1>6. ASSUME NEW list \in lists, Store(list) PROVE Calm(j)'
    BY <1>0, <1>6, CalmAlone DEF Store, page
  <1>7. CASE UNCHANGED vars
    BY <1>1, <1>7 DEF vars
  <1>. QED
    BY <1>0, <1>2, <1>3, <1>4, <1>5, <1>6, <1>7, CalmAnswer, CalmRestart DEF Next

-----------------------------------------------------------------------------
(* The theorems, of a user who waits for the answer to a request about a   *)
(* camera before asking for the next one.                                  *)

\* The state of the page and of the registry, in every reachable state.
LEMMA ControlInvariant == Hasty = FALSE => (Spec => []ControlInv)
  <1>. SUFFICES ASSUME Hasty = FALSE PROVE Spec => []ControlInv
    OBVIOUS
  <1>1. Init => ControlInv
    <2>1. Init => RegistryTypeOK
      BY TypeInit DEF Init
    <2>2. Init => AllCalm
      BY DEF Init, AllCalm, Calm
    <2>. QED
      BY <2>1, <2>2, PartsInit DEF ControlInv
  <1>2. ControlInv /\ [Next]_vars => ControlInv'
    <2>. SUFFICES ASSUME ControlInv, [Next]_vars PROVE ControlInv'
      OBVIOUS
    <2>1. AsksInv
      BY DEF ControlInv, PartsOK, PageOK, AsksOK, RestOK, AsksInv
    <2>2. RegistryTypeOK'
      BY <2>1, StepIsOperation, TypeStep DEF ControlInv
    <2>. QED
      BY <2>2, PartsStep, CalmStep DEF ControlInv
  <1>. QED
    BY <1>1, <1>2, PTL DEF Spec

(* The page and the registry are well-formed: above all, what the page     *)
(* waits for has been sent, however requests are given up and however the  *)
(* service is started again.                                               *)
THEOREM ControlTypeCorrect == Hasty = FALSE => (Spec => []TypeOK)
  <1>1. ControlInv => TypeOK
    BY TypeParts DEF ControlInv
  <1>. QED
    BY <1>1, ControlInvariant, PTL

(* useCameraStartDeadlineMonitor: no start is reported as too slow that    *)
(* the page has seen settled since it was accepted.                        *)
THEOREM NoFalseAlarm == Hasty = FALSE => (Spec => AlarmIsTrue)
  <1>. SUFFICES ASSUME Hasty = FALSE PROVE Spec => AlarmIsTrue
    OBVIOUS
  <1>1. ControlInv /\ [Next]_vars
          => [\A k \in alarm' \ alarm : k \notin reached]_vars
    <2>. SUFFICES ASSUME ControlInv, Next, NEW k \in alarm' \ alarm
                  PROVE  k \notin reached
      OBVIOUS
    <2>1. PartsOK /\ \A j \in Cameras : Calm(j)
      BY DEF ControlInv, AllCalm
    <2>2. ASSUME NEW snap, Apply(snap) PROVE k \notin reached
      BY <2>1, <2>2 DEF Apply, Expired, Calm
    <2>3. ASSUME NEW j \in Cameras, Monitor(j) PROVE k \notin reached
      BY <2>1, <2>3 DEF Monitor, Calm
    <2>4. alarm' # alarm
      OBVIOUS
    <2>5. CASE \/ Thread \/ (\E j \in Cameras : Service(Fluctuate(j)))
               \/ (\E a \in asks : Serve(a) \/ GiveUp(a))
               \/ (\E list \in lists : Store(list))
      BY <2>4, <2>5 DEF Thread, Service, Serve, Answer, GiveUp, Store, page
    <2>6. CASE Poll \/ Lose \/ Restart \/ Restarted \/ RestartFails
      BY <2>4, <2>6 DEF Poll, Lose, Restart, Restarted, RestartFails, page
    <2>7. ASSUME NEW j \in Cameras,
                 Start(j) \/ StopCamera(j) \/ Save(j) \/ Delete(j)
          PROVE  alarm' \subseteq alarm
      BY <2>7 DEF Start, StopCamera, Save, Delete, Begin, Remove, page
    <2>8. ASSUME NEW j \in Cameras, Elapse(j) \/ Return(j) \/ SaveEnds(j)
          PROVE  k \notin reached
      <3>1. CASE Elapse(j) \/ StartReturns(j)
        BY <2>2, <2>4, <3>1 DEF Elapse, StartReturns
      <3>2. CASE StopReturns(j) \/ StopEnds(j)
        BY <2>2, <2>4, <3>2 DEF StopReturns, StopEnds
      <3>3. CASE DeletionReturns(j) \/ SaveEnds(j)
        <4>1. alarm' \subseteq alarm
          BY <3>3 DEF DeletionReturns, SaveEnds, Begin, Remove, page
        <4>. QED
          BY <4>1
      <3>. QED
        BY <2>8, <3>1, <3>2, <3>3 DEF Return
    <2>9. CASE Show
      BY <2>2, <2>9 DEF Show
    <2>. QED
      BY <2>3, <2>5, <2>6, <2>7, <2>8, <2>9 DEF Next
  <1>. QED
    BY <1>1, ControlInvariant, PTL DEF Spec, AlarmIsTrue
=============================================================================
