----------------------- MODULE CameraRegistry_proofs -----------------------
(***************************************************************************)
(* Proofs about CameraRegistry, for any finite set of cameras, any         *)
(* configurations and any limit.                                           *)
(***************************************************************************)
EXTENDS CameraRegistry, FiniteSetTheorems, TLAPS

-----------------------------------------------------------------------------
(* The operations of the registry, whoever asks for them and in whatever   *)
(* order: what is proved of them holds of every client.                    *)

Operation ==
    \/ \E k \in Cameras :
         \/ \E c \in Configs : RequestStart(k, c) \/ BeginStart(k, c)
         \/ Stop(k) \/ Fluctuate(k)
    \/ EndStart \/ Renew
    \/ \E list \in SUBSET Cameras : Replace(list)

\* The client of RegistrySpec is one of them.
LEMMA NextIsOperation ==
    RegistryTypeOK /\ [RegistryNext]_registry => [Operation]_registry
  BY DEF RegistryTypeOK, RegistryNext, Operation

-----------------------------------------------------------------------------
(* The type invariant.                                                     *)

\* The registry is well-typed at the start.
LEMMA TypeInit == RegistryInit => RegistryTypeOK
  BY DEF RegistryInit, RegistryTypeOK, Fresh, Unset, States

\* A pipeline that changes its status, while nothing starts, keeps its type.
LEMMA StatusType ==
    ASSUME RegistryTypeOK, NEW k \in Cameras, NEW s \in States \ {"starting"},
           pipe' = [pipe EXCEPT ![k].state = s]
    PROVE  /\ pipe' \in [Cameras -> [state: States, config: Configs \cup {None}]]
           /\ \A j \in Cameras : pipe'[j].state = "starting"
                                   => pipe[j].state = "starting" /\ j # k
           /\ \A j \in Cameras : j # k => pipe'[j] = pipe[j]
           /\ pipe'[k] = [state |-> s, config |-> pipe[k].config]
  <1>. pipe \in [Cameras -> [state: States, config: Configs \cup {None}]]
    BY DEF RegistryTypeOK
  <1>1. [pipe[k] EXCEPT !.state = s] = [state |-> s, config |-> pipe[k].config]
    OBVIOUS
  <1>2. pipe' = [pipe EXCEPT ![k] = [pipe[k] EXCEPT !.state = s]]
    OBVIOUS
  <1>. QED
    BY <1>1, <1>2

\* Every step of the registry keeps its type.
LEMMA TypeStep == RegistryTypeOK /\ [Operation]_registry => RegistryTypeOK'
  <1>. SUFFICES ASSUME RegistryTypeOK, [Operation]_registry
                PROVE  RegistryTypeOK'
    OBVIOUS
  <1>1. ASSUME NEW k \in Cameras, NEW c \in Configs, RequestStart(k, c)
        PROVE  RegistryTypeOK'
    <2>1. CASE Duplicate(k, c) \/ Full(k)
      BY <1>1, <2>1 DEF RequestStart, RegistryTypeOK
    <2>2. CASE ~(Duplicate(k, c) \/ Full(k))
      <3>1. /\ pending' = [pending EXCEPT ![k] = c]
            /\ starts' = starts \cup {<<k, c>>}
            /\ since' = since \cup {k} /\ last' = [last EXCEPT ![k] = c]
            /\ UNCHANGED <<profiles, pipe, prints, busy>>
        BY <1>1, <2>2 DEF RequestStart
      <3>. QED
        BY <3>1 DEF RegistryTypeOK
    <2>. QED
      BY <2>1, <2>2
  <1>2. ASSUME NEW k \in Cameras, NEW c \in Configs, BeginStart(k, c)
        PROVE  RegistryTypeOK'
    <2>1. CASE UNCHANGED <<pipe, busy>>
      BY <1>2, <2>1 DEF BeginStart, RegistryTypeOK
    <2>2. CASE ~UNCHANGED <<pipe, busy>>
      <3>1. /\ busy = <<>> /\ busy' = <<k, c>>
            /\ pipe' = [pipe EXCEPT ![k] = [state |-> "starting", config |-> c]]
            /\ UNCHANGED <<profiles, prints, pending, since, last>>
            /\ starts' = starts \ {<<k, c>>}
        BY <1>2, <2>2 DEF BeginStart
      <3>2. \A j \in Cameras : pipe[j].state # "starting"
        BY <3>1 DEF RegistryTypeOK
      <3>. QED
        BY <3>1, <3>2 DEF RegistryTypeOK, States
    <2>. QED
      BY <2>1, <2>2
  <1>3. ASSUME NEW k \in Cameras, Stop(k)
        PROVE  RegistryTypeOK'
    <2>1. \A j \in Cameras : pipe[j].state # "starting"
      BY <1>3 DEF Stop, RegistryTypeOK
    <2>2. PICK s \in States \ {"starting"} : pipe' = [pipe EXCEPT ![k].state = s]
      BY <1>3, <2>1 DEF Stop, RegistryTypeOK, States, Active
    <2>3. UNCHANGED busy /\ busy = <<>>
      BY <1>3 DEF Stop
    <2>4. /\ pipe' \in [Cameras -> [state: States, config: Configs \cup {None}]]
          /\ \A j \in Cameras : pipe'[j].state = "starting"
                                  => pipe[j].state = "starting"
      BY <2>2, StatusType
    <2>5. /\ prints' \in [Cameras -> Configs \cup {None}]
          /\ pending' \in [Cameras -> Configs \cup {None}]
          /\ since' \subseteq Cameras /\ UNCHANGED <<profiles, starts, last>>
      BY <1>3 DEF Stop, RegistryTypeOK
    <2>. QED
      BY <2>1, <2>3, <2>4, <2>5 DEF RegistryTypeOK
  <1>4. ASSUME NEW k \in Cameras, Fluctuate(k)
        PROVE  RegistryTypeOK'
    <2>1. pipe[k].state # "starting"
      BY <1>4 DEF Fluctuate
    <2>2. PICK s \in States \ {"starting"} : pipe' = [pipe EXCEPT ![k].state = s]
      BY <1>4 DEF Fluctuate, States
    <2>3. busy # <<>> => busy[1] # k /\ busy[1] \in Cameras
      BY <2>1 DEF RegistryTypeOK
    <2>4. /\ pipe' \in [Cameras -> [state: States, config: Configs \cup {None}]]
          /\ \A j \in Cameras : pipe'[j].state = "starting"
                                  => pipe[j].state = "starting"
          /\ \A j \in Cameras : j # k => pipe'[j] = pipe[j]
      BY <2>2, StatusType
    <2>5. UNCHANGED <<profiles, prints, pending, starts, busy, since, last>>
      BY <1>4 DEF Fluctuate
    <2>. QED
      BY <2>3, <2>4, <2>5 DEF RegistryTypeOK
  <1>5. CASE EndStart
    <2>1. busy \in Cameras \X Configs /\ busy' = <<>>
      BY <1>5 DEF EndStart, RegistryTypeOK
    <2>2. PICK outcome \in {"connecting", "failed"} :
            /\ pipe' = [pipe EXCEPT ![busy[1]].state = outcome]
            /\ prints' = [prints EXCEPT ![busy[1]] =
                            IF outcome = "failed" THEN None ELSE busy[2]]
            /\ pending' = Settled(busy[1], busy[2])
      BY <1>5 DEF EndStart
    <2>3. \A j \in Cameras : pipe[j].state = "starting" => j = busy[1]
      BY DEF RegistryTypeOK
    <2>4. outcome \in States \ {"starting"} /\ busy[1] \in Cameras
          /\ busy[2] \in Configs
      BY <2>1 DEF States
    <2>5. /\ pipe' \in [Cameras -> [state: States, config: Configs \cup {None}]]
          /\ \A j \in Cameras : pipe'[j].state # "starting"
      BY <2>2, <2>3, <2>4, StatusType
    <2>6. /\ prints' \in [Cameras -> Configs \cup {None}]
          /\ pending' \in [Cameras -> Configs \cup {None}]
      BY <2>2, <2>4 DEF Settled, RegistryTypeOK
    <2>. QED
      BY <1>5, <2>1, <2>5, <2>6 DEF EndStart, RegistryTypeOK
  <1>6. CASE Renew
    BY <1>6 DEF Renew, RegistryTypeOK, Fresh, Unset, States
  <1>7. ASSUME NEW list \in SUBSET Cameras, Replace(list)
        PROVE  RegistryTypeOK'
    <2>. DEFINE gone == {k \in Cameras \ list : pipe[k].state # "none"}
    <2>1. /\ busy = <<>> /\ busy' = busy /\ profiles' = list
          /\ UNCHANGED <<starts, since, last>>
          /\ pipe' = [k \in Cameras |-> IF k \in gone THEN Fresh.pipe[k] ELSE pipe[k]]
          /\ pending' = [k \in Cameras |-> IF k \in gone THEN None ELSE pending[k]]
          /\ prints' = [k \in Cameras |-> IF k \in gone THEN None ELSE prints[k]]
      BY <1>7 DEF Replace
    <2>2. \A k \in Cameras : Fresh.pipe[k] = [state |-> "none", config |-> None]
      BY DEF Fresh
    <2>. QED
      BY <2>1, <2>2 DEF RegistryTypeOK, States
  <1>8. CASE UNCHANGED registry
    BY <1>8 DEF registry, RegistryTypeOK
  <1>. QED
    BY <1>1, <1>2, <1>3, <1>4, <1>5, <1>6, <1>7, <1>8
    DEF Operation

(* The type invariant of the registry: among the rest, a pipeline is       *)
(* starting exactly while its thread holds the lifecycle lock.             *)
THEOREM RegistryTypeCorrect == RegistrySpec => []RegistryTypeOK
  BY TypeInit, TypeStep, NextIsOperation, PTL DEF RegistrySpec

-----------------------------------------------------------------------------
(* What runs or is promised.  A request adds a camera, if there is room;   *)
(* no other step adds one.                                                 *)

Promised == {k \in Cameras : Up(k) \/ pending[k] # None}

\* A request that is accepted promises one camera and nothing else.
LEMMA RequestAdds ==
    ASSUME RegistryTypeOK, NEW k \in Cameras, NEW c \in Configs, RequestStart(k, c)
    PROVE  \/ UNCHANGED <<pipe, pending, since, last>>
           \/ /\ ~Duplicate(k, c) /\ ~Full(k)
              /\ Promised' = Promised \cup {k}
              /\ since' = since \cup {k}
              /\ last' = [last EXCEPT ![k] = c]
              /\ pending' = [pending EXCEPT ![k] = c]
              /\ pipe' = pipe
  BY RegistryAssumption DEF RequestStart, RegistryTypeOK, Promised, Up

\* A start that begins moves a promise, it makes none.
LEMMA BeginKeeps ==
    ASSUME RegistryTypeOK, NEW k \in Cameras, NEW c \in Configs, BeginStart(k, c)
    PROVE  Promised' \subseteq Promised /\ since' = since
  <1>1. CASE UNCHANGED pipe
    <2>1. \A j \in Cameras : pending'[j] # None => pending[j] # None
      BY <1>1 DEF BeginStart, RegistryTypeOK
    <2>. QED
      BY <1>1, <2>1 DEF BeginStart, Promised, Up
  <1>2. CASE ~UNCHANGED pipe
    <2>1. /\ pending[k] = c /\ UNCHANGED <<pending, since>>
          /\ pipe' = [pipe EXCEPT ![k] = [state |-> "starting", config |-> c]]
      BY <1>2 DEF BeginStart
    <2>2. \A j \in Cameras : j # k => pipe'[j] = pipe[j]
      BY <2>1 DEF RegistryTypeOK
    <2>. QED
      BY <2>1, <2>2, RegistryAssumption DEF Promised, Up
  <1>. QED
    BY <1>1, <1>2

\* A start that ends, well or not, promises nothing new.
LEMMA EndKeeps ==
    ASSUME RegistryTypeOK, EndStart
    PROVE  Promised' \subseteq Promised /\ since' = since
  <1>1. /\ busy \in Cameras \X Configs
        /\ pipe[busy[1]].state = "starting"
    BY DEF EndStart, RegistryTypeOK
  <1>2. \A j \in Cameras : j # busy[1] => pipe'[j] = pipe[j]
    BY <1>1 DEF EndStart, RegistryTypeOK
  <1>3. \A j \in Cameras : pending'[j] # None => pending[j] # None
    BY <1>1 DEF EndStart, Settled, RegistryTypeOK
  <1>. QED
    BY <1>1, <1>2, <1>3 DEF EndStart, Promised, Up, Active

\* A stop takes back the promise and the request behind it.
LEMMA StopRemoves ==
    ASSUME RegistryTypeOK, NEW k \in Cameras, Stop(k)
    PROVE  Promised' = Promised \ {k} /\ since' = since \ {k}
  <1>1. pipe \in [Cameras -> [state: States, config: Configs \cup {None}]]
        /\ pending \in [Cameras -> Configs \cup {None}]
    BY DEF RegistryTypeOK
  <1>2. pipe'[k].state \notin Active /\ pending'[k] = None
    BY <1>1 DEF Stop, Active
  <1>3. \A j \in Cameras : j # k => pipe'[j] = pipe[j] /\ pending'[j] = pending[j]
    BY <1>1 DEF Stop
  <1>. QED
    BY <1>2, <1>3 DEF Stop, Promised, Up

\* A pipeline that loses or regains its camera promises nothing.
LEMMA FluctuateKeeps ==
    ASSUME RegistryTypeOK, NEW k \in Cameras, Fluctuate(k)
    PROVE  Promised' \subseteq Promised /\ since' = since
  <1>1. pipe \in [Cameras -> [state: States, config: Configs \cup {None}]]
    BY DEF RegistryTypeOK
  <1>2. pipe[k].state \in Active
    BY DEF Fluctuate, Active
  <1>3. \A j \in Cameras : j # k => pipe'[j] = pipe[j]
    BY <1>1 DEF Fluctuate
  <1>. QED
    BY <1>2, <1>3 DEF Fluctuate, Promised, Up

\* A new list of profiles promises nothing.
LEMMA ReplaceKeeps ==
    ASSUME RegistryTypeOK, NEW list \in SUBSET Cameras, Replace(list)
    PROVE  Promised' \subseteq Promised /\ since' = since
  BY DEF Replace, Promised, Up, Active, Fresh

\* A new process has promised nothing yet.
LEMMA RenewEmpties == Renew => Promised' = {}
  BY DEF Renew, Promised, Up, Active, Fresh, Unset

\* A step that touches no pipeline and no pending start keeps the promises.
LEMMA IdleKeeps ==
    ASSUME UNCHANGED <<pipe, pending>> PROVE Promised' = Promised
  BY DEF Promised, Up

-----------------------------------------------------------------------------
(* Stops.  What runs or is promised was asked for since it was stopped.    *)

AskedFor == Promised \subseteq since
StopInv == RegistryTypeOK /\ AskedFor

\* Nothing is promised at the start.
LEMMA InitEmpty == RegistryInit => Promised = {}
  BY DEF RegistryInit, Promised, Up, Active, Fresh, Unset

\* Every step keeps what is promised asked for.
LEMMA AskedStep ==
    RegistryTypeOK /\ AskedFor /\ [Operation]_registry => AskedFor'
  <1>. SUFFICES ASSUME RegistryTypeOK, AskedFor, [Operation]_registry
                PROVE  AskedFor'
    OBVIOUS
  <1>1. ASSUME NEW k \in Cameras, NEW c \in Configs, RequestStart(k, c)
        PROVE  AskedFor'
    BY <1>1, RequestAdds, IdleKeeps DEF AskedFor
  <1>2. ASSUME NEW k \in Cameras, NEW c \in Configs, BeginStart(k, c)
        PROVE  AskedFor'
    BY <1>2, BeginKeeps DEF AskedFor
  <1>3. ASSUME NEW k \in Cameras, Stop(k)
        PROVE  AskedFor'
    BY <1>3, StopRemoves DEF AskedFor
  <1>4. ASSUME NEW k \in Cameras, Fluctuate(k)
        PROVE  AskedFor'
    BY <1>4, FluctuateKeeps DEF AskedFor
  <1>5. CASE EndStart
    BY <1>5, EndKeeps DEF AskedFor
  <1>6. CASE Renew
    BY <1>6, RenewEmpties DEF AskedFor
  <1>7. ASSUME NEW list \in SUBSET Cameras, Replace(list)
        PROVE  AskedFor'
    BY <1>7, ReplaceKeeps DEF AskedFor
  <1>8. CASE UNCHANGED registry
    BY <1>8, IdleKeeps DEF registry, AskedFor
  <1>. QED
    BY <1>1, <1>2, <1>3, <1>4, <1>5, <1>6, <1>7, <1>8 DEF Operation

(* A camera that was stopped runs only if it has been asked for again: the *)
(* start that waited for the lock when the stop came is not carried out.   *)
THEOREM StopsHold == RegistrySpec => []StopHolds
  <1>1. RegistryInit => StopInv
    BY TypeInit, InitEmpty DEF StopInv, AskedFor
  <1>2. StopInv /\ [RegistryNext]_registry => StopInv'
    BY TypeStep, AskedStep, NextIsOperation DEF StopInv
  <1>3. StopInv => StopHolds
    BY DEF StopInv, AskedFor, StopHolds, Promised
  <1>. QED
    BY <1>1, <1>2, <1>3, PTL DEF RegistrySpec

-----------------------------------------------------------------------------
(* Capacity.                                                               *)

\* The promised cameras can be counted, before and after a step.
LEMMA PromisedFinite ==
    /\ IsFiniteSet(Promised) /\ IsFiniteSet(Promised')
    /\ Cardinality(Promised) \in Nat /\ Cardinality(Promised') \in Nat
  <1>1. Promised \in SUBSET Cameras /\ Promised' \in SUBSET Cameras
    BY DEF Promised
  <1>2. IsFiniteSet(Promised) /\ IsFiniteSet(Promised')
    BY <1>1, FS_Subset, RegistryAssumption
  <1>. QED
    BY <1>2, FS_CardinalityType

\* Fewer promises never exceed the limit.
LEMMA CapacityShrinks ==
    ASSUME CapacityHeld, Promised' \subseteq Promised PROVE CapacityHeld'
  <1>1. Cardinality(Promised') <= Cardinality(Promised)
    BY PromisedFinite, FS_Subset
  <1>2. Cardinality(Promised) <= MaxConcurrent
    BY DEF CapacityHeld, Promised
  <1>3. Cardinality(Promised') <= MaxConcurrent
    BY <1>1, <1>2, PromisedFinite, RegistryAssumption
  <1>. QED
    BY <1>3 DEF CapacityHeld, Promised

\* There is room for a camera when the others are fewer than the limit.
LEMMA OthersOf ==
    ASSUME NEW k \in Cameras
    PROVE  {o \in Cameras \ {k} : Up(o) \/ pending[o] # None} = Promised \ {k}
  BY DEF Promised

\* Every step keeps the promises within the limit.
LEMMA CapacityStep ==
    RegistryTypeOK /\ CapacityHeld /\ [Operation]_registry => CapacityHeld'
  <1>. SUFFICES ASSUME RegistryTypeOK, CapacityHeld, [Operation]_registry
                PROVE  CapacityHeld'
    OBVIOUS
  <1>1. ASSUME NEW k \in Cameras, NEW c \in Configs, RequestStart(k, c)
        PROVE  CapacityHeld'
    <2>1. CASE UNCHANGED <<pipe, pending>>
      BY <2>1, IdleKeeps, CapacityShrinks
    <2>2. CASE ~UNCHANGED <<pipe, pending>>
      <3>1. ~Full(k) /\ Promised' = Promised \cup {k}
        BY <1>1, <2>2, RequestAdds
      <3>2. IsFiniteSet(Promised \ {k}) /\ Cardinality(Promised \ {k}) \in Nat
        BY PromisedFinite, FS_RemoveElement, FS_CardinalityType
      <3>3. Cardinality(Promised \ {k}) < MaxConcurrent
        BY <3>1, <3>2, OthersOf, RegistryAssumption DEF Full
      <3>4. Promised' = (Promised \ {k}) \cup {k}
        BY <3>1
      <3>5. Cardinality(Promised') <= Cardinality(Promised \ {k}) + 1
        BY <3>2, <3>4, FS_AddElement
      <3>6. Cardinality(Promised') <= MaxConcurrent
        BY <3>2, <3>3, <3>5, PromisedFinite, RegistryAssumption
      <3>. QED
        BY <3>6 DEF CapacityHeld, Promised
    <2>. QED
      BY <2>1, <2>2
  <1>2. ASSUME NEW k \in Cameras, NEW c \in Configs, BeginStart(k, c)
        PROVE  CapacityHeld'
    BY <1>2, BeginKeeps, CapacityShrinks
  <1>3. ASSUME NEW k \in Cameras, Stop(k)
        PROVE  CapacityHeld'
    BY <1>3, StopRemoves, CapacityShrinks
  <1>4. ASSUME NEW k \in Cameras, Fluctuate(k)
        PROVE  CapacityHeld'
    BY <1>4, FluctuateKeeps, CapacityShrinks
  <1>5. CASE EndStart
    BY <1>5, EndKeeps, CapacityShrinks
  <1>6. CASE Renew
    BY <1>6, RenewEmpties, CapacityShrinks
  <1>7. ASSUME NEW list \in SUBSET Cameras, Replace(list)
        PROVE  CapacityHeld'
    BY <1>7, ReplaceKeeps, CapacityShrinks
  <1>8. CASE UNCHANGED registry
    BY <1>8, IdleKeeps, CapacityShrinks DEF registry
  <1>. QED
    BY <1>1, <1>2, <1>3, <1>4, <1>5, <1>6, <1>7, <1>8 DEF Operation

(* However starts and stops wait for one another, no more cameras run, or  *)
(* are promised to, than the computer is configured for.                   *)
THEOREM CapacityIsHeld == RegistrySpec => []CapacityHeld
  <1>1. RegistryInit => CapacityHeld
    BY InitEmpty, FS_EmptySet, RegistryAssumption DEF CapacityHeld, Promised
  <1>2. RegistryTypeOK /\ CapacityHeld /\ [RegistryNext]_registry
          => (RegistryTypeOK /\ CapacityHeld)'
    BY TypeStep, CapacityStep, NextIsOperation
  <1>. QED
    BY <1>1, <1>2, TypeInit, PTL DEF RegistrySpec

-----------------------------------------------------------------------------
(* The latest request.  What is pending was accepted last; what runs while *)
(* nothing is pending is that too; and a camera that is past its start is  *)
(* registered under what it was started with.                              *)

Current(k) ==
    /\ pending[k] # None => pending[k] = last[k]
    /\ Up(k) /\ pending[k] = None => pipe[k].config = last[k]
    /\ Up(k) /\ pipe[k].state # "starting" => prints[k] = pipe[k].config

AllCurrent == \A k \in Cameras : Current(k)
LatestInv == RegistryTypeOK /\ CapacityHeld /\ AllCurrent

\* A promised camera finds room when its turn comes: it was counted.
LEMMA RoomForThePromised ==
    ASSUME CapacityHeld, NEW k \in Cameras, pending[k] # None
    PROVE  ~Full(k)
  <1>1. k \in Promised
    BY DEF Promised
  <1>2. Cardinality(Promised \ {k}) = Cardinality(Promised) - 1
    BY <1>1, PromisedFinite, FS_RemoveElement
  <1>3. Cardinality(Promised) <= MaxConcurrent
    BY DEF CapacityHeld, Promised
  <1>4. ~(Cardinality(Promised \ {k}) >= MaxConcurrent)
    BY <1>2, <1>3, PromisedFinite, RegistryAssumption
  <1>. QED
    BY <1>4, OthersOf DEF Full

\* At the start no camera runs, so none runs an outdated address.
LEMMA CurrentInit == RegistryInit => AllCurrent
  BY DEF RegistryInit, AllCurrent, Current, Up, Active, Fresh, Unset

\* A step that leaves a camera alone.
LEMMA CurrentAlone ==
    ASSUME NEW j \in Cameras, Current(j), pipe'[j] = pipe[j],
           pending'[j] = pending[j], prints'[j] = prints[j], last'[j] = last[j]
    PROVE  Current(j)'
  BY DEF Current, Up

\* Every step keeps every camera at its last address.
LEMMA CurrentStep == LatestInv /\ [Operation]_registry => AllCurrent'
  <1>. SUFFICES ASSUME RegistryTypeOK, CapacityHeld, AllCurrent,
                       [Operation]_registry, NEW j \in Cameras
                PROVE  Current(j)'
    BY DEF LatestInv, AllCurrent
  <1>0. Current(j)
    BY DEF AllCurrent
  <1>. /\ pipe \in [Cameras -> [state: States, config: Configs \cup {None}]]
       /\ prints \in [Cameras -> Configs \cup {None}]
       /\ pending \in [Cameras -> Configs \cup {None}]
       /\ last \in [Cameras -> Configs \cup {None}]
    BY DEF RegistryTypeOK
  <1>1. ASSUME NEW k \in Cameras, NEW c \in Configs, RequestStart(k, c)
        PROVE  Current(j)'
    <2>1. UNCHANGED <<pipe, prints>>
      BY <1>1 DEF RequestStart
    <2>2. CASE UNCHANGED <<pending, last>>
      BY <1>0, <2>1, <2>2, CurrentAlone
    <2>3. CASE /\ pending' = [pending EXCEPT ![k] = c]
               /\ last' = [last EXCEPT ![k] = c]
      <3>1. CASE j # k
        BY <1>0, <2>1, <2>3, <3>1, CurrentAlone
      <3>2. CASE j = k
        BY <1>0, <2>1, <2>3, <3>2, RegistryAssumption DEF Current, Up
      <3>. QED
        BY <3>1, <3>2
    <2>. QED
      BY <1>1, <2>2, <2>3 DEF RequestStart
  <1>2. ASSUME NEW k \in Cameras, NEW c \in Configs, BeginStart(k, c)
        PROVE  Current(j)'
    <2>1. UNCHANGED <<prints, last>> /\ busy = <<>>
      BY <1>2 DEF BeginStart
    <2>2. CASE UNCHANGED <<pipe, pending>>
      BY <1>0, <2>1, <2>2, CurrentAlone
    <2>3. CASE /\ (Serving(k, c) \/ Full(k)) /\ pending[k] = c
               /\ pending' = [pending EXCEPT ![k] = None] /\ UNCHANGED pipe
      <3>1. CASE j # k
        BY <1>0, <2>1, <2>3, <3>1, CurrentAlone
      <3>2. CASE j = k
        <4>1. pending[k] = c /\ c # None
          BY <1>2, <2>3, RegistryAssumption DEF BeginStart
        <4>2. Serving(k, c)
          BY <2>3, <4>1, RoomForThePromised
        <4>3. pipe[k].state # "starting"
          BY <2>1 DEF RegistryTypeOK
        <4>4. pipe[k].config = last[k]
          BY <1>0, <3>2, <4>1, <4>2, <4>3 DEF Current, Serving
        <4>. QED
          BY <1>0, <2>1, <2>3, <3>2, <4>4 DEF Current, Up
      <3>. QED
        BY <3>1, <3>2
    <2>4. CASE /\ pending[k] = c /\ UNCHANGED pending
               /\ pipe' = [pipe EXCEPT ![k] = [state |-> "starting", config |-> c]]
      <3>1. CASE j # k
        BY <1>0, <2>1, <2>4, <3>1, CurrentAlone
      <3>2. CASE j = k
        BY <1>0, <2>1, <2>4, <3>2, RegistryAssumption DEF Current, Up
      <3>. QED
        BY <3>1, <3>2
    <2>. QED
      BY <1>2, <2>2, <2>3, <2>4 DEF BeginStart
  <1>3. ASSUME NEW k \in Cameras, Stop(k)
        PROVE  Current(j)'
    <2>1. CASE j # k
      BY <1>0, <1>3, <2>1, CurrentAlone DEF Stop
    <2>2. CASE j = k
      <3>1. pipe'[k].state \notin Active /\ pending'[k] = None
        BY <1>3 DEF Stop, Active
      <3>. QED
        BY <2>2, <3>1 DEF Current, Up
    <2>. QED
      BY <2>1, <2>2
  <1>4. ASSUME NEW k \in Cameras, Fluctuate(k)
        PROVE  Current(j)'
    <2>1. CASE j # k
      BY <1>0, <1>4, <2>1, CurrentAlone DEF Fluctuate
    <2>2. CASE j = k
      <3>1. /\ pipe[k].state \in {"connecting", "running"}
            /\ pipe'[k].config = pipe[k].config
            /\ UNCHANGED <<prints, pending, last>>
        BY <1>4 DEF Fluctuate
      <3>. QED
        BY <1>0, <2>2, <3>1 DEF Current, Up, Active
    <2>. QED
      BY <2>1, <2>2
  <1>5. CASE EndStart
    <2>. DEFINE k == busy[1]
                c == busy[2]
    <2>1. k \in Cameras /\ c \in Configs
          /\ pipe[k] = [state |-> "starting", config |-> c]
      BY <1>5 DEF EndStart, RegistryTypeOK
    <2>2. PICK outcome \in {"connecting", "failed"} :
            /\ pipe' = [pipe EXCEPT ![k].state = outcome]
            /\ prints' = [prints EXCEPT ![k] = IF outcome = "failed" THEN None ELSE c]
      BY <1>5 DEF EndStart
    <2>3. last' = last /\ pending' = Settled(k, c)
      BY <1>5 DEF EndStart
    <2>. HIDE DEF k, c
    <2>4. CASE j # k
      BY <1>0, <2>1, <2>2, <2>3, <2>4, CurrentAlone DEF Settled
    <2>5. CASE j = k
      <3>1. /\ pipe'[k].state = outcome /\ pipe'[k].config = c
            /\ prints'[k] = IF outcome = "failed" THEN None ELSE c
        BY <2>1, <2>2
      <3>2. pending'[k] = IF pending[k] = c THEN None ELSE pending[k]
        BY <2>1, <2>3 DEF Settled
      <3>3. Up(k) /\ pipe[k].config = c
        BY <2>1 DEF Up, Active
      <3>4. pending'[k] # None => pending'[k] = last'[k]
        BY <1>0, <2>3, <2>5, <3>2 DEF Current
      <3>5. pending'[k] = None => c = last'[k]
        BY <1>0, <2>1, <2>3, <2>5, <3>2, <3>3, RegistryAssumption DEF Current
      <3>. QED
        BY <2>5, <3>1, <3>4, <3>5 DEF Current, Up, Active
    <2>. QED
      BY <2>4, <2>5
  <1>6. CASE Renew
    BY <1>6 DEF Renew, Current, Up, Active, Fresh, Unset
  <1>7. ASSUME NEW list \in SUBSET Cameras, Replace(list)
        PROVE  Current(j)'
    <2>1. CASE j \in Cameras \ list /\ pipe[j].state # "none"
      <3>1. pipe'[j].state = "none" /\ pending'[j] = None
        BY <1>7, <2>1 DEF Replace, Fresh
      <3>. QED
        BY <3>1 DEF Current, Up, Active
    <2>2. CASE ~(j \in Cameras \ list /\ pipe[j].state # "none")
      BY <1>0, <1>7, <2>2, CurrentAlone DEF Replace
    <2>. QED
      BY <2>1, <2>2
  <1>8. CASE UNCHANGED registry
    BY <1>0, <1>8, CurrentAlone DEF registry
  <1>. QED
    BY <1>1, <1>2, <1>3, <1>4, <1>5, <1>6, <1>7, <1>8 DEF Operation

(* Once nothing waits, a camera runs with what was accepted last, whatever *)
(* the threads of the earlier requests did in between.                     *)
THEOREM LatestRequestWins == RegistrySpec => []LatestWins
  <1>1. RegistryInit => LatestInv
    BY TypeInit, CurrentInit, InitEmpty, FS_EmptySet, RegistryAssumption
    DEF LatestInv, CapacityHeld, Promised
  <1>2. LatestInv /\ [RegistryNext]_registry => LatestInv'
    BY TypeStep, CapacityStep, CurrentStep, NextIsOperation DEF LatestInv
  <1>3. LatestInv => LatestWins
    BY DEF LatestInv, AllCurrent, Current, LatestWins
  <1>. QED
    BY <1>1, <1>2, <1>3, PTL DEF RegistrySpec
=============================================================================
