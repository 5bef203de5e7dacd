--------------------------- MODULE CameraRegistry ---------------------------
(***************************************************************************)
(* CameraPipelineRegistry (desktop-tanaw/ml-service/app/camera/            *)
(* pipeline_manager.py): the cameras of the enterprise that the local ML   *)
(* service is bound to.  A start is accepted at once, under the short lock *)
(* _lock, and carried out by a thread of its own that first waits for      *)
(* _lifecycle_lock; a stop and a new list of cameras wait for that lock    *)
(* themselves.  Between its acceptance and its turn, a start may have been *)
(* replaced, cancelled or made again.                                      *)
(*                                                                         *)
(* A pipeline is seen by its status only; "connecting" stands for          *)
(* reconnecting too, and "running" for degraded.                           *)
(***************************************************************************)
EXTENDS FiniteSets, Integers

CONSTANTS
    Cameras,
    Configs,        \* configurations that a camera may be started with
    None,           \* no configuration; no camera
    MaxConcurrent   \* _max_concurrent_cameras

ASSUME RegistryAssumption ==
    None \notin Configs /\ MaxConcurrent \in Nat /\ IsFiniteSet(Cameras)

VARIABLES
    profiles,  \* cameras of the stored list
    pipe,      \* _pipelines: the status of each and what it was started with
    prints,    \* _config_fingerprints
    pending,   \* _pending_starts
    starts,    \* threads that wait to carry out a start
    busy,      \* the start that holds _lifecycle_lock
    since,     \* history: cameras asked for since they were last stopped
    last       \* history: the configuration that was last accepted

registry == <<profiles, pipe, prints, pending, starts, busy, since, last>>

States == {"none", "stopped", "starting", "connecting", "running", "failed"}
Active == {"starting", "connecting", "running"}
Unset == [k \in Cameras |-> None]

RegistryTypeOK ==
    /\ profiles \subseteq Cameras /\ since \subseteq Cameras
    /\ pipe \in [Cameras -> [state: States, config: Configs \cup {None}]]
    /\ prints \in [Cameras -> Configs \cup {None}]
    /\ pending \in [Cameras -> Configs \cup {None}]
    /\ starts \subseteq Cameras \X Configs
    /\ busy = <<>> \/ busy \in Cameras \X Configs
    /\ \A k \in Cameras :
         pipe[k].state = "starting" => busy # <<>> /\ busy[1] = k
    /\ busy # <<>> => pipe[busy[1]] = [state |-> "starting", config |-> busy[2]]
    /\ last \in [Cameras -> Configs \cup {None}]

Fresh ==
    [pipe |-> [k \in Cameras |-> [state |-> "none", config |-> None]],
     starts |-> {}]

RegistryInit ==
    /\ profiles = Cameras /\ pipe = Fresh.pipe /\ starts = {}
    /\ prints = Unset /\ pending = Unset /\ busy = <<>>
    /\ since = {} /\ last = Unset

-----------------------------------------------------------------------------
Up(k) == pipe[k].state \in Active
Serving(k, c) == Up(k) /\ prints[k] = c
Duplicate(k, c) == Serving(k, c) \/ pending[k] = c

\* _raise_if_capacity_reached_locked; mutant: what is to start counts not.
FullOfRunning(k) == Cardinality({o \in Cameras \ {k} : Up(o)}) >= MaxConcurrent
Full(k) ==
    Cardinality({o \in Cameras \ {k} : Up(o) \/ pending[o] # None})
        >= MaxConcurrent

\* request_start; the caller is told "full" unless this says ok.
Granted(k, c) == Duplicate(k, c) \/ ~Full(k)
RequestStart(k, c) ==
    /\ IF Duplicate(k, c) \/ Full(k)
         THEN UNCHANGED <<pending, starts, since, last>>
         ELSE /\ pending' = [pending EXCEPT ![k] = c]
              /\ starts' = starts \cup {<<k, c>>}
              /\ since' = since \cup {k} /\ last' = [last EXCEPT ![k] = c]
    /\ UNCHANGED <<profiles, pipe, prints, busy>>

\* A thread gets the lock.  It leaves when it is not wanted any more.
BeginStart(k, c) ==
    /\ busy = <<>> /\ <<k, c>> \in starts /\ starts' = starts \ {<<k, c>>}
    /\ IF pending[k] # c
         THEN UNCHANGED <<pipe, pending, busy>>
         ELSE IF Serving(k, c) \/ Full(k)
         THEN pending' = [pending EXCEPT ![k] = None] /\ UNCHANGED <<pipe, busy>>
         ELSE /\ pipe' = [pipe EXCEPT ![k] = [state |-> "starting", config |-> c]]
              /\ busy' = <<k, c>> /\ UNCHANGED pending
    /\ UNCHANGED <<profiles, prints, since, last>>

\* Mutant: whatever is pending is taken for done.
SettledAll(k, c) == [pending EXCEPT ![k] = None]
Settled(k, c) == [pending EXCEPT ![k] = IF @ = c THEN None ELSE @]
EndStart ==
    /\ busy # <<>> /\ busy' = <<>>
    /\ LET k == busy[1]
           c == busy[2]
       IN /\ \E outcome \in {"connecting", "failed"} :
               /\ pipe' = [pipe EXCEPT ![k].state = outcome]
               /\ prints' = [prints EXCEPT ![k] = IF outcome = "failed"
                                                    THEN None ELSE c]
          /\ pending' = Settled(k, c)
    /\ UNCHANGED <<profiles, starts, since, last>>

\* Mutant: a start that waits for its turn is left to it.
StopRunning(k) ==
    /\ busy = <<>> /\ since' = since \ {k}
    /\ pipe' = [pipe EXCEPT ![k].state = IF @ \in Active THEN "stopped" ELSE @]
    /\ prints' = [prints EXCEPT ![k] = None]
    /\ UNCHANGED <<profiles, pending, starts, busy, last>>
Stop(k) ==
    /\ busy = <<>> /\ since' = since \ {k}
    /\ pending' = [pending EXCEPT ![k] = None]
    /\ pipe' = [pipe EXCEPT ![k].state = IF @ \in Active THEN "stopped" ELSE @]
    /\ prints' = [prints EXCEPT ![k] = None]
    /\ UNCHANGED <<profiles, starts, busy, last>>

\* replace_camera_profiles: pipelines of other cameras are disposed of.
Replace(list) ==
    /\ busy = <<>> /\ profiles' = list
    /\ LET gone == {k \in Cameras \ list : pipe[k].state # "none"}
           Without(f) == [k \in Cameras |-> IF k \in gone THEN None ELSE f[k]]
       IN /\ pipe' = [k \in Cameras |-> IF k \in gone THEN Fresh.pipe[k]
                                                      ELSE pipe[k]]
          /\ pending' = Without(pending) /\ prints' = Without(prints)
    /\ UNCHANGED <<starts, busy, since, last>>

\* Frames arrive, stop to arrive, or the session fails, at any time.
Fluctuate(k) ==
    /\ \E after \in {"connecting", "running", "failed"} :
         /\ pipe[k].state \in {"connecting", "running"} \ {after}
         /\ pipe' = [pipe EXCEPT ![k].state = after]
    /\ UNCHANGED <<profiles, prints, pending, starts, busy, since, last>>

\* The service is started again.
Renew ==
    /\ pipe' = Fresh.pipe /\ starts' = {} /\ prints' = Unset
    /\ pending' = Unset /\ busy' = <<>> /\ since' = {}
    /\ UNCHANGED <<profiles, last>>

\* Any client: it asks for cameras of the list, which only gets shorter.
RegistryNext ==
    \/ \E k \in Cameras :
         \/ \E c \in Configs : \/ k \in profiles /\ RequestStart(k, c)
                              \/ BeginStart(k, c)
         \/ Stop(k) \/ Fluctuate(k)
    \/ EndStart \/ Renew
    \/ \E list \in SUBSET profiles : Replace(list)

RegistrySpec == RegistryInit /\ [][RegistryNext]_registry

-----------------------------------------------------------------------------
(* However starts and stops wait for one another, no more cameras run, or  *)
(* are promised to, than the computer is configured for.                   *)
CapacityHeld ==
    Cardinality({k \in Cameras : Up(k) \/ pending[k] # None}) <= MaxConcurrent

(* A camera that was stopped runs only if it has been asked for again: a   *)
(* start that was waiting when the stop came does not bring it back.       *)
StopHolds == \A k \in Cameras : Up(k) => k \in since

(* ml-service/tests/test_pipeline_manager.py:477,                          *)
(* test_latest_changed_request_wins_while_an_older_start_is_pending: once  *)
(* nothing waits, a camera runs with what was accepted last.  (A request   *)
(* for what runs already is not accepted, even if a changed one waits.)    *)
LatestWins ==
    \A k \in Cameras : Up(k) /\ pending[k] = None => pipe[k].config = last[k]

(* ml-service/tests/test_pipeline_manager.py:532,                          *)
(* test_removing_camera_profile_disposes_pipeline_workers: a camera that   *)
(* is not in the list does not run.                                        *)
RemovedIsDown == \A k \in Cameras : Up(k) => k \in profiles
=============================================================================
