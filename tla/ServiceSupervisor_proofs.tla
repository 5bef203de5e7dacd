---------------------- MODULE ServiceSupervisor_proofs ----------------------
(***************************************************************************)
(* Proofs about ServiceSupervisor and the stream that it extends, for any  *)
(* processes, children and sockets, on every platform.                     *)
(***************************************************************************)
EXTENDS ServiceSupervisor, FiniteSetTheorems, TLAPS

-----------------------------------------------------------------------------
(* The stream.  Each method of the class leaves a sound stream sound.      *)

OnlyCurrentOpen(st) == \A s \in Sockets : st.state[s] = "open" => s = st.current

Sound(st) ==
    /\ st \in Stream /\ OnlyCurrentOpen(st)
    /\ st.current # NoSocket => /\ st.state[st.current] # "gone"
                                /\ ~st.timer /\ ~st.permanent
    /\ st.disposed => st.current = NoSocket /\ ~st.timer

\* A sound stream has at most one open socket.
LEMMA SoundIsOneSocket == Sound(stream) => OneSocket
  BY DEF Sound, OnlyCurrentOpen, OneSocket

\* The stream of a new window is sound.
LEMMA InitialSound == Sound(InitialStream)
  BY NoneAssumption DEF InitialStream, Sound, OnlyCurrentOpen, Stream

\* A new connection, made from a socket that is gone, is the current one.
LEMMA ConnectedSound ==
    ASSUME NEW st, Sound(st), Gone(st) # {}
    PROVE  Sound(Connected(st))
  <1>. DEFINE s == CHOOSE x \in Gone(st) : TRUE
              new == [st EXCEPT !.current = s, !.state[s] = "connecting"]
  <1>1. s \in Gone(st)
    OBVIOUS
  <1>2. s \in Sockets
    BY <1>1 DEF Gone
  <1>. HIDE DEF s
  <1>3. CASE \/ st.disposed \/ st.permanent \/ ~st.subscribed
             \/ st.current # NoSocket \/ st.timer
    BY <1>3 DEF Connected
  <1>4. CASE ~(\/ st.disposed \/ st.permanent \/ ~st.subscribed
               \/ st.current # NoSocket \/ st.timer)
    <2>1. Connected(st) = new
      BY <1>4 DEF Connected, s
    <2>2. st \in Stream
      BY DEF Sound
    <2>3. /\ new.subscribed = st.subscribed /\ new.disposed = st.disposed
          /\ new.permanent = st.permanent /\ new.timer = st.timer
          /\ new.current = s /\ new.peer = st.peer
          /\ new.state = [st.state EXCEPT ![s] = "connecting"]
      BY <2>2 DEF Stream
    <2>4. new \in Stream
      BY <1>2, <2>2 DEF Stream
    <2>5. \A x \in Sockets : st.state[x] # "open"
      BY <1>4, NoneAssumption DEF Sound, OnlyCurrentOpen
    <2>6. new.state[s] = "connecting"
          /\ \A x \in Sockets : new.state[x] # "open"
      BY <1>2, <2>2, <2>3, <2>5 DEF Stream
    <2>. HIDE DEF new
    <2>. QED
      BY <1>4, <2>1, <2>3, <2>4, <2>6 DEF Sound, OnlyCurrentOpen
  <1>. QED
    BY <1>3, <1>4

\* #disconnect ends whatever there is: also in a stream just disposed of.
LEMMA DisconnectedSound ==
    ASSUME NEW st, st \in Stream, OnlyCurrentOpen(st)
    PROVE  /\ Sound(Disconnected(st))
           /\ Gone(st) \subseteq Gone(Disconnected(st))
  <1>. DEFINE c == st.current
              some == c # NoSocket /\ st.state[c] = "open"
              closed == IF some
                          THEN [st EXCEPT !.state[c] = "gone",
                                          !.peer[c] = NoProcess]
                          ELSE st
              new == Disconnected(st)
  <1>0. new = [closed EXCEPT !.current = NoSocket, !.timer = FALSE,
                             !.permanent = FALSE]
    BY DEF Disconnected
  <1>1. /\ closed \in Stream
        /\ closed.disposed = st.disposed
        /\ \A s \in Sockets : closed.state[s] # "open"
        /\ \A s \in Sockets : st.state[s] = "gone" => closed.state[s] = "gone"
    <2>1. CASE some
      <3>1. c \in Sockets
        BY <2>1 DEF Stream
      <3>2. /\ closed.subscribed = st.subscribed /\ closed.disposed = st.disposed
            /\ closed.permanent = st.permanent /\ closed.timer = st.timer
            /\ closed.current = c
            /\ closed.state = [st.state EXCEPT ![c] = "gone"]
            /\ closed.peer = [st.peer EXCEPT ![c] = NoProcess]
        BY <2>1 DEF Stream
      <3>3. closed \in Stream
        BY <2>1, <3>1 DEF Stream
      <3>. QED
        BY <3>1, <3>2, <3>3 DEF Stream, OnlyCurrentOpen
    <2>2. CASE ~some
      BY <2>2, NoneAssumption DEF OnlyCurrentOpen
    <2>. QED
      BY <2>1, <2>2
  <1>. HIDE DEF closed
  <1>2. /\ new \in Stream /\ new.current = NoSocket /\ new.timer = FALSE
        /\ new.state = closed.state
    BY <1>0, <1>1 DEF Stream
  <1>. HIDE DEF new
  <1>3. Sound(new)
    BY <1>1, <1>2 DEF Sound, OnlyCurrentOpen
  <1>4. Gone(st) \subseteq Gone(new)
    BY <1>1, <1>2 DEF Gone
  <1>. QED
    BY <1>3, <1>4 DEF new

\* The last reader that leaves leaves a sound stream.
LEMMA UnsubscribedSound ==
    ASSUME NEW st, Sound(st) PROVE Sound(Unsubscribed(st))
  <1>. DEFINE off == [st EXCEPT !.subscribed = FALSE]
  <1>1. off \in Stream /\ OnlyCurrentOpen(off)
    BY DEF Sound, Stream, OnlyCurrentOpen
  <1>. HIDE DEF off
  <1>2. Sound(Disconnected(off))
    BY <1>1, DisconnectedSound
  <1>. QED
    BY <1>2 DEF Unsubscribed, off

\* A forced reconnection ends the old socket before it opens another.
LEMMA ReconnectedSound ==
    ASSUME NEW st, Sound(st), Gone(st) # {} PROVE Sound(Reconnected(st))
  <1>1. Sound(Disconnected(st)) /\ Gone(Disconnected(st)) # {}
    BY DisconnectedSound DEF Sound
  <1>2. Sound(Connected(Disconnected(st)))
    BY <1>1, ConnectedSound
  <1>. QED
    BY <1>2 DEF Reconnected

\* A stream that is disposed of keeps neither socket nor timer.
LEMMA DisposedSound ==
    ASSUME NEW st, Sound(st) PROVE Sound(Disposed(st))
  <1>. DEFINE over == [st EXCEPT !.disposed = TRUE]
              off == [over EXCEPT !.subscribed = FALSE]
  <1>1. over \in Stream /\ OnlyCurrentOpen(over)
    BY DEF Sound, Stream, OnlyCurrentOpen
  <1>2. off \in Stream /\ OnlyCurrentOpen(off)
    BY <1>1 DEF Stream, OnlyCurrentOpen
  <1>. HIDE DEF over
  <1>3. Unsubscribed(over) \in Stream /\ OnlyCurrentOpen(Unsubscribed(over))
    BY <1>1, <1>2, DisconnectedSound DEF Unsubscribed, Sound
  <1>4. Sound(Disconnected(Unsubscribed(over)))
    BY <1>3, DisconnectedSound
  <1>. QED
    BY <1>4 DEF Disposed, over

\* The close event of an old socket does not disturb the current one.
LEMMA ClosedSound ==
    ASSUME NEW st, Sound(st), NEW s \in Sockets, NEW refused \in BOOLEAN
    PROVE  Sound(Closed(st, s, refused))
  <1>. DEFINE after == [st EXCEPT !.state[s] = "gone", !.peer[s] = NoProcess]
              lost == [after EXCEPT !.current = NoSocket]
  <1>1. /\ after \in Stream
        /\ after.disposed = st.disposed /\ after.current = st.current
        /\ after.timer = st.timer /\ after.permanent = st.permanent
        /\ after.state = [st.state EXCEPT ![s] = "gone"]
    <2>1. st \in Stream
      BY DEF Sound
    <2>. QED
      BY <2>1 DEF Stream
  <1>2. \A x \in Sockets : after.state[x] = IF x = s THEN "gone" ELSE st.state[x]
    BY <1>1 DEF Sound, Stream
  <1>. HIDE DEF after
  <1>3. CASE s # st.current
    <2>1. Sound(after)
      BY <1>1, <1>2, <1>3 DEF Sound, OnlyCurrentOpen, Stream
    <2>. QED
      BY <1>3, <2>1 DEF Closed, after
  <1>4. CASE s = st.current
    <2>1. /\ lost \in Stream /\ lost.current = NoSocket
          /\ lost.disposed = after.disposed /\ lost.timer = after.timer
          /\ lost.state = after.state
      BY <1>1 DEF Stream
    <2>2. ~lost.timer /\ ~lost.disposed
      BY <1>1, <1>4, <2>1, NoneAssumption DEF Sound
    <2>3. \A x \in Sockets : lost.state[x] # "open"
      BY <1>2, <1>4, <2>1 DEF Sound, OnlyCurrentOpen
    <2>. HIDE DEF lost
    <2>4. Sound([lost EXCEPT !.permanent = TRUE])
      BY <2>1, <2>2, <2>3 DEF Sound, OnlyCurrentOpen, Stream
    <2>5. Sound(Scheduled(lost))
      BY <2>1, <2>2, <2>3 DEF Scheduled, Sound, OnlyCurrentOpen, Stream
    <2>. QED
      BY <1>4, <2>4, <2>5 DEF Closed, after, lost
  <1>. QED
    BY <1>3, <1>4

\* The end of a service changes what a socket leads to, not the stream.
LEMMA SeveredSound ==
    ASSUME NEW st, Sound(st), NEW p PROVE Sound(Severed(st, p))
  BY DEF Severed, Sound, OnlyCurrentOpen, Stream

\* Every step of the stream keeps it sound.
LEMMA StreamStep ==
    ASSUME Sound(stream), StreamNext, listener \in Processes \cup {NoProcess},
           accepting \subseteq Processes
    PROVE  Sound(stream)'
  <1>1. CASE Subscribe
    <2>. DEFINE on == [stream EXCEPT !.subscribed = TRUE]
    <2>1. Sound(on) /\ Gone(on) # {}
      BY <1>1 DEF Subscribe, Sound, OnlyCurrentOpen, Stream, Gone
    <2>. HIDE DEF on
    <2>2. Sound(Connected(on))
      BY <2>1, ConnectedSound
    <2>. QED
      BY <1>1, <2>2 DEF Subscribe, on, Sound, OnlyCurrentOpen
  <1>2. CASE Unsubscribe
    BY <1>2, UnsubscribedSound DEF Unsubscribe, Sound, OnlyCurrentOpen
  <1>3. ASSUME NEW s \in Sockets, SocketOpens(s)
        PROVE  Sound(stream)'
    <2>1. stream \in Stream /\ listener \in Processes
          /\ stream.state[s] = "connecting"
      BY <1>3 DEF SocketOpens, Sound
    <2>2. CASE s = stream.current
      <3>1. stream' = [stream EXCEPT !.state[s] = "open", !.peer[s] = listener]
        BY <1>3, <2>2 DEF SocketOpens
      <3>2. /\ stream' \in Stream
            /\ stream'.disposed = stream.disposed /\ stream'.timer = stream.timer
            /\ stream'.current = stream.current
            /\ stream'.permanent = stream.permanent
            /\ stream'.state = [stream.state EXCEPT ![s] = "open"]
        BY <2>1, <3>1 DEF Stream
      <3>3. \A x \in Sockets :
              stream'.state[x] = IF x = s THEN "open" ELSE stream.state[x]
        BY <2>1, <3>2 DEF Stream
      <3>. QED
        BY <2>2, <3>2, <3>3 DEF Sound, OnlyCurrentOpen
    <2>3. CASE s # stream.current
      <3>1. stream' = [stream EXCEPT !.state[s] = "gone"]
        BY <1>3, <2>3 DEF SocketOpens
      <3>2. /\ stream' \in Stream
            /\ stream'.disposed = stream.disposed /\ stream'.timer = stream.timer
            /\ stream'.current = stream.current
            /\ stream'.permanent = stream.permanent
            /\ stream'.state = [stream.state EXCEPT ![s] = "gone"]
        BY <2>1, <3>1 DEF Stream
      <3>3. \A x \in Sockets :
              stream'.state[x] = IF x = s THEN "gone" ELSE stream.state[x]
        BY <2>1, <3>2 DEF Stream
      <3>4. stream.current # NoSocket => stream.current \in Sockets
        BY <2>1 DEF Stream
      <3>. QED
        BY <2>3, <3>2, <3>3, <3>4 DEF Sound, OnlyCurrentOpen
    <2>. QED
      BY <2>2, <2>3
  <1>4. ASSUME NEW s \in Sockets, SocketCloses(s)
        PROVE  Sound(stream)'
    <2>1. \E refused \in BOOLEAN : stream' = Closed(stream, s, refused)
      BY <1>4 DEF SocketCloses
    <2>. QED
      BY <2>1, ClosedSound DEF Sound, OnlyCurrentOpen
  <1>5. CASE TimerFires
    <2>. DEFINE rung == [stream EXCEPT !.timer = FALSE]
    <2>1. Sound(rung) /\ Gone(rung) # {}
      BY <1>5 DEF TimerFires, Sound, OnlyCurrentOpen, Stream, Gone
    <2>. HIDE DEF rung
    <2>2. Sound(Connected(rung))
      BY <2>1, ConnectedSound
    <2>. QED
      BY <1>5, <2>2 DEF TimerFires, rung, Sound, OnlyCurrentOpen
  <1>. QED
    BY <1>1, <1>2, <1>3, <1>4, <1>5 DEF StreamNext

-----------------------------------------------------------------------------
(* The system: what runs, who listens and whose end is still to be told.   *)
(* Nothing that the supervisor does brings a process to life, but Spawn.   *)

SystemInv ==
    /\ listener \in Pid
    /\ life \in [Processes -> {"unborn", "alive", "dead"}]
    /\ asked \subseteq Processes /\ ended \subseteq Processes
    /\ exits \in [Children -> {"no", "ok", "bad"}]
    /\ \A c \in Children : exits[c] # "no" => life[c] = "dead"
    /\ listener # NoProcess => life[listener] = "alive"
    /\ Sound(stream)

NoBirth == \A q \in Processes : life'[q] = "alive" => life[q] = "alive"

\* A step that leaves the system alone keeps what is known of it.
LEMMA SystemStutters == SystemInv /\ UNCHANGED system => SystemInv' /\ NoBirth
  BY DEF SystemInv, system, NoBirth, Sound, OnlyCurrentOpen

\* What the end of a process changes.
LEMMA EndsEffect ==
    ASSUME SystemInv, NEW p \in Processes, NEW how \in {"ok", "bad"}, Ends(p, how),
           asked' = asked, ended' \in {ended, ended \cup {p}}
    PROVE  SystemInv' /\ NoBirth /\ life'[p] = "dead"
  <1>1. Sound(stream)'
    BY SeveredSound DEF Ends, SystemInv, Sound, OnlyCurrentOpen
  <1>2. /\ life' = [life EXCEPT ![p] = "dead"]
        /\ listener' = IF listener = p THEN NoProcess ELSE listener
        /\ exits' = IF p \in Children THEN [exits EXCEPT ![p] = how] ELSE exits
    BY DEF Ends
  <1>3. \A c \in Children : exits'[c] # "no" => life'[c] = "dead"
    BY <1>2, ChildrenAssumption DEF SystemInv
  <1>4. listener' # NoProcess => life'[listener'] = "alive"
    BY <1>2 DEF SystemInv, Pid
  <1>5. /\ listener' \in Pid
        /\ life' \in [Processes -> {"unborn", "alive", "dead"}]
        /\ asked' \subseteq Processes /\ ended' \subseteq Processes
        /\ exits' \in [Children -> {"no", "ok", "bad"}]
    BY <1>2 DEF SystemInv, Pid
  <1>6. NoBirth /\ life'[p] = "dead"
    BY <1>2 DEF NoBirth, SystemInv
  <1>. QED
    BY <1>1, <1>3, <1>4, <1>5, <1>6 DEF SystemInv

\* What a kill changes: at most the process it names.
LEMMA KillEffect ==
    ASSUME SystemInv, NEW p \in Pid, Kill(p)
    PROVE  /\ SystemInv' /\ NoBirth /\ ended' \subseteq ended \cup {p}
           /\ p \in Processes => life'[p] # "alive"
  <1>1. CASE ~(p \in Processes /\ life[p] = "alive")
    BY <1>1, SystemStutters DEF Kill, system
  <1>2. CASE p \in Processes /\ life[p] = "alive"
    <2>1. Ends(p, "ok") /\ asked' = asked /\ ended' = ended \cup {p}
      BY <1>2 DEF Kill
    <2>. QED
      BY <1>2, <2>1, EndsEffect
  <1>. QED
    BY <1>1, <1>2

\* What a polite termination changes: at most the process it names.
LEMMA TerminateEffect ==
    ASSUME SystemInv, NEW p \in Processes, Terminate(p)
    PROVE  /\ SystemInv' /\ NoBirth /\ ended' \subseteq ended \cup {p}
           /\ windows => life'[p] # "alive"
  <1>1. CASE life[p] # "alive"
    BY <1>1, SystemStutters DEF Terminate, system
  <1>2. CASE life[p] = "alive" /\ windows
    <2>1. Ends(p, "ok") /\ asked' = asked /\ ended' = ended \cup {p}
      BY <1>2 DEF Terminate
    <2>. QED
      BY <1>2, <2>1, EndsEffect
  <1>3. CASE life[p] = "alive" /\ ~windows
    <2>1. ended' = ended \cup {p} /\ asked' = asked \cup {p}
          /\ UNCHANGED <<listener, life, exits, stream>>
      BY <1>3 DEF Terminate
    <2>. QED
      BY <1>3, <2>1 DEF SystemInv, NoBirth, Sound, OnlyCurrentOpen
  <1>. QED
    BY <1>1, <1>2, <1>3

\* A reconnection ends no process and brings none to life.
LEMMA ReconnectEffect ==
    ASSUME SystemInv, Reconnect
    PROVE  SystemInv' /\ NoBirth /\ ended' = ended
  <1>1. Sound(stream)'
    BY ReconnectedSound DEF Reconnect, SystemInv, Sound, OnlyCurrentOpen
  <1>. QED
    BY <1>1 DEF Reconnect, SystemInv, NoBirth

-----------------------------------------------------------------------------
(* The supervisor: the values of its variables, and where an operation may *)
(* be while it is stopping the old service or starting the new one.        *)

ControlInv ==
    /\ windows \in BOOLEAN
    /\ accepting \subseteq Processes /\ local \subseteq Processes
    /\ process \in Children \cup {NoProcess} /\ target \in Pid
    /\ external \in BOOLEAN /\ error \in BOOLEAN
    /\ queue \in Seq(Operations) /\ op \in Operations \cup {"none"}
    /\ phase \in {"stop", "start"} /\ pc \in Awaits
    /\ (op = "none") = (pc = "idle")
    /\ app \in {"running", "quitting", "closing", "exited"}
    /\ late \in BOOLEAN /\ restarts \in 0 .. MaxRestarts
    /\ crashes \in 0 .. MaxCrashes

OrderInv ==
    /\ pc \in {"idle", "probe", "check", "await"} => phase = "start"
    /\ pc \in {"halt", "stopping"} => phase = "stop"
    /\ pc = "halt" => op = "shutdown"
    /\ op = "start" => phase = "start"
    /\ op = "shutdown" => phase = "stop"

(* No child runs that the supervisor does not hold, but the one that it is *)
(* waiting for.  While it is stopping or starting it holds none.           *)
ChildInv ==
    /\ \A c \in Children :
         life[c] = "alive" => c = process \/ (c = target /\ pc = "stopping")
    /\ pc \notin {"idle", "halt", "await"} => process = NoProcess

(* What is told to end was started from the workspace. *)
ForeignInv ==
    /\ Children \subseteq local
    /\ ~windows => /\ ended \subseteq local
                   /\ pc \in {"stopping", "releasing"} => target \in local

(* Once the application is being quit, the shutdown is the last operation. *)
QuitInv ==
    /\ app = "quitting" /\ ~late =>
         \/ queue # <<>> /\ queue[Len(queue)] = "shutdown"
         \/ queue = <<>> /\ op = "shutdown"
         \/ queue = <<>> /\ op = "none" /\ process = NoProcess
    /\ app \in {"closing", "exited"} /\ ~late =>
         queue = <<>> /\ op = "none" /\ process = NoProcess

Inv == SystemInv /\ ControlInv /\ OrderInv /\ ChildInv /\ ForeignInv /\ QuitInv

\* The invariant holds at the start.
LEMMA InvInit == Init => Inv
  <1>. SUFFICES ASSUME Init PROVE Inv
    OBVIOUS
  <1>1. SystemInv
    <2>1. Sound(stream)
      BY InitialSound DEF Init, Sound, OnlyCurrentOpen
    <2>2. listener \in Pid /\ (listener # NoProcess => life[listener] = "alive")
      BY DEF Init, Others, Pid
    <2>3. life \in [Processes -> {"unborn", "alive", "dead"}]
      BY DEF Init
    <2>4. asked = {} /\ ended = {} /\ exits = [c \in Children |-> "no"]
      BY DEF Init
    <2>. QED
      BY <2>1, <2>2, <2>3, <2>4 DEF SystemInv
  <1>2. ControlInv
    <2>1. accepting \subseteq Processes /\ local \subseteq Processes
      BY ChildrenAssumption DEF Init, Others
    <2>2. queue \in Seq(Operations)
      BY DEF Init, Operations
    <2>3. /\ process \in Children \cup {NoProcess} /\ target \in Pid
          /\ external \in BOOLEAN /\ error \in BOOLEAN /\ windows \in BOOLEAN
          /\ late \in BOOLEAN /\ app = "running"
      BY DEF Init, Pid
    <2>4. restarts \in 0 .. MaxRestarts /\ crashes \in 0 .. MaxCrashes
      BY ChildrenAssumption DEF Init
    <2>5. op = "none" /\ pc = "idle" /\ phase = "start"
      BY DEF Init
    <2>. QED
      BY <2>1, <2>2, <2>3, <2>4, <2>5 DEF ControlInv, Awaits
  <1>3. OrderInv /\ ChildInv /\ QuitInv
    BY DEF Init, OrderInv, ChildInv, QuitInv
  <1>4. ForeignInv
    BY DEF Init, ForeignInv
  <1>. QED
    BY <1>1, <1>2, <1>3, <1>4 DEF Inv

\* Steps that leave the supervisor alone: processes, sockets, time.
LEMMA OutsideStep ==
    ASSUME Inv, SystemInv', ended' = ended,
           \A c \in Children : life'[c] = "alive" => life[c] = "alive",
           UNCHANGED <<computer, status, queue, operation, application>>,
           crashes' \in 0 .. MaxCrashes
    PROVE  Inv'
  <1>1. ControlInv' /\ OrderInv' /\ QuitInv' /\ ForeignInv'
    BY DEF Inv, ControlInv, OrderInv, QuitInv, ForeignInv, computer, status,
           operation, application
  <1>2. ChildInv'
    BY DEF Inv, ChildInv, status, operation
  <1>. QED
    BY <1>1, <1>2 DEF Inv

\* Processes that start, bind the port or die by themselves.
LEMMA ProcessStep ==
    ASSUME Inv, NEW p \in Processes, Launch(p) \/ Bind(p) \/ Die(p)
    PROVE  Inv'
  <1>1. CASE Launch(p)
    <2>1. life' = [life EXCEPT ![p] = "alive"] /\ p \notin Children
          /\ UNCHANGED <<listener, asked, exits, ended, stream>>
      BY <1>1 DEF Launch, Others
    <2>2. SystemInv'
      BY <2>1, ChildrenAssumption, NoneAssumption
      DEF Inv, SystemInv, Sound, OnlyCurrentOpen, Pid
    <2>3. \A c \in Children : life'[c] = "alive" => life[c] = "alive"
      BY <2>1, ChildrenAssumption DEF Inv, SystemInv
    <2>. QED
      BY <1>1, <2>1, <2>2, <2>3, OutsideStep DEF Launch, Inv, ControlInv
  <1>2. CASE Bind(p)
    <2>1. CASE listener = NoProcess
      <3>1. listener' = p /\ UNCHANGED <<life, exits, stream, asked, ended>>
            /\ life[p] = "alive"
        BY <1>2, <2>1 DEF Bind
      <3>2. SystemInv'
        BY <3>1 DEF Inv, SystemInv, Sound, OnlyCurrentOpen, Pid
      <3>. QED
        BY <1>2, <3>1, <3>2, OutsideStep DEF Bind, Inv, ControlInv
    <2>2. CASE listener # NoProcess
      <3>1. SystemInv' /\ NoBirth
        BY <1>2, <2>2, EndsEffect DEF Bind, Inv
      <3>. QED
        BY <1>2, <3>1, OutsideStep, ChildrenAssumption
        DEF Bind, NoBirth, Inv, ControlInv
    <2>. QED
      BY <2>1, <2>2
  <1>3. CASE Die(p)
    <2>1. \E how \in {"ok", "bad"} : Ends(p, how)
      BY <1>3 DEF Die
    <2>2. SystemInv' /\ NoBirth
      BY <1>3, <2>1, EndsEffect DEF Die, Inv
    <2>3. crashes' \in 0 .. MaxCrashes
      BY <1>3, ChildrenAssumption DEF Die, Inv, ControlInv
    <2>. QED
      BY <1>3, <2>2, <2>3, OutsideStep, ChildrenAssumption DEF Die, NoBirth
  <1>. QED
    BY <1>1, <1>2, <1>3

\* The steps of the live stream.
LEMMA StreamingStep ==
    ASSUME Inv, Streaming(StreamNext) PROVE Inv'
  <1>1. Sound(stream)'
    BY StreamStep DEF Streaming, Inv, SystemInv, ControlInv, Pid
  <1>2. SystemInv'
    BY <1>1 DEF Streaming, Inv, SystemInv
  <1>. QED
    BY <1>2, OutsideStep DEF Streaming, Inv, ControlInv

\* A child whose end is told was dead, so that nothing is lost with it.
LEMMA ExitSeenStep ==
    ASSUME Inv, NEW c \in Children, ExitSeen(c) PROVE Inv'
  <1>1. /\ life' = [life EXCEPT ![c] = "unborn"] /\ asked' = asked \ {c}
        /\ exits' = [exits EXCEPT ![c] = "no"] /\ exits[c] # "no"
        /\ UNCHANGED <<listener, ended, stream>>
        /\ UNCHANGED <<computer, queue, operation, application, crashes>>
    BY DEF ExitSeen
  <1>2. life[c] = "dead" /\ c \in Processes
    BY <1>1, ChildrenAssumption DEF Inv, SystemInv
  <1>3. SystemInv'
    BY <1>1, <1>2, ChildrenAssumption
    DEF Inv, SystemInv, Sound, OnlyCurrentOpen, Pid
  <1>4. \A b \in Children : life'[b] = "alive" => life[b] = "alive" /\ b # c
    BY <1>1, <1>2, ChildrenAssumption DEF Inv, SystemInv
  <1>5. \/ UNCHANGED status
        \/ /\ process = c /\ process' = NoProcess /\ external' = FALSE
           /\ error' \in BOOLEAN
    BY DEF ExitSeen, Holds, Inv, ControlInv
  <1>6. /\ UNCHANGED <<windows, accepting, local, target, queue, op, phase, pc>>
        /\ UNCHANGED <<app, late, restarts, crashes, ended>>
    BY <1>1 DEF computer, operation, application
  <1>7. UNCHANGED status \/ process' = NoProcess
    BY <1>5
  <1>8. ControlInv'
    BY <1>5, <1>6 DEF Inv, ControlInv, status
  <1>9. OrderInv' /\ ForeignInv'
    BY <1>6 DEF Inv, OrderInv, ForeignInv
  <1>10. QuitInv'
    BY <1>6, <1>7 DEF Inv, QuitInv, status
  <1>11. ChildInv'
    BY <1>1, <1>4, <1>5 DEF Inv, ChildInv, status, operation
  <1>. QED
    BY <1>3, <1>8, <1>9, <1>10, <1>11 DEF Inv

-----------------------------------------------------------------------------
(* The application.                                                        *)

\* The steps of the application and of its owner.
LEMMA ApplicationStep ==
    ASSUME Inv, Restart \/ StopMonitoring \/ Quit \/ ShutdownDone \/ Exit
    PROVE  Inv'
  <1>1. UNCHANGED <<computer, system, process, external, operation, crashes>>
    BY DEF Restart, StopMonitoring, Quit, ShutdownDone, Exit, status
  <1>2. SystemInv'
    BY <1>1, SystemStutters DEF Inv
  <1>3. OrderInv' /\ ChildInv' /\ ForeignInv'
    BY <1>1 DEF Inv, OrderInv, ChildInv, ForeignInv, operation, computer, system
  <1>4. queue \in Seq(Operations)
    BY DEF Inv, ControlInv
  <1>5. CASE Restart
    <2>1. queue' \in Seq(Operations)
      BY <1>4, <1>5 DEF Restart, Operations
    <2>2. ControlInv'
      BY <1>1, <1>5, <2>1, ChildrenAssumption
      DEF Restart, Inv, ControlInv, operation, computer, status
    <2>3. QuitInv'
      BY <1>5 DEF Restart, Inv, ControlInv, QuitInv
    <2>. QED
      BY <1>2, <1>3, <2>2, <2>3 DEF Inv
  <1>6. CASE StopMonitoring
    <2>1. ControlInv'
      BY <1>1, <1>6
      DEF StopMonitoring, HaltErrors, Inv, ControlInv, operation, computer, application
    <2>2. QuitInv'
      BY <1>1, <1>6 DEF StopMonitoring, Inv, QuitInv, operation, application
    <2>. QED
      BY <1>2, <1>3, <2>1, <2>2 DEF Inv
  <1>7. CASE Quit
    <2>1. queue' = Append(queue, "shutdown") /\ app' = "quitting"
      BY <1>7 DEF Quit
    <2>2. queue' \in Seq(Operations) /\ queue' # <<>>
          /\ queue'[Len(queue')] = "shutdown"
      BY <1>4, <2>1 DEF Operations
    <2>3. ControlInv'
      BY <1>1, <1>7, <2>2
      DEF Quit, Inv, ControlInv, operation, computer, status
    <2>4. QuitInv'
      BY <2>1, <2>2 DEF QuitInv
    <2>. QED
      BY <1>2, <1>3, <2>3, <2>4 DEF Inv
  <1>8. CASE ShutdownDone
    <2>1. ControlInv'
      BY <1>1, <1>8
      DEF ShutdownDone, Inv, ControlInv, operation, computer, status
    <2>2. queue # <<>> => Len(queue) \in DOMAIN queue
      BY <1>4
    <2>3. QuitInv'
      BY <1>1, <1>8, <2>2
      DEF ShutdownDone, Inv, QuitInv, operation, status
    <2>. QED
      BY <1>2, <1>3, <2>1, <2>3 DEF Inv
  <1>9. CASE Exit
    <2>1. ControlInv'
      BY <1>1, <1>9 DEF Exit, Inv, ControlInv, operation, computer, status
    <2>2. QuitInv'
      BY <1>1, <1>9 DEF Exit, Inv, QuitInv, operation, status
    <2>. QED
      BY <1>2, <1>3, <2>1, <2>2 DEF Inv
  <1>. QED
    BY <1>5, <1>6, <1>7, <1>8, <1>9

-----------------------------------------------------------------------------
(* The steps of an operation.                                              *)

\* What no step of an operation touches.
LEMMA OperationFrame ==
    ASSUME Step
    PROVE  UNCHANGED <<computer, application>>
  BY DEF Step, Dequeue, Halt, Stopping, FindListener, Identify, Releasing,
         Probe, Check, Await

\* A step that neither takes an operation from the queue nor spawns a child.
\* What is left to show of it is where the operation goes.
LEMMA WithinOperation ==
    ASSUME Inv, UNCHANGED <<computer, application, queue, crashes, process>>,
           SystemInv', ~windows => ended' \subseteq ended \cup local,
           external' \in BOOLEAN, error' \in BOOLEAN,
           op' \in {op, "none"}, phase' \in {"stop", "start"}, pc' \in Awaits,
           target' \in Pid, (op' = "none") = (pc' = "idle"),
           op # "none", OrderInv',
           pc \notin {"idle", "halt", "await"} \/ pc' = "idle",
           pc' \notin {"halt", "await"},
           \A c \in Children : life'[c] = "alive" =>
              c = process \/ (c = target' /\ pc' = "stopping"),
           ~windows /\ pc' \in {"stopping", "releasing"} => target' \in local,
           op = "shutdown" /\ op' = "none" => process = NoProcess
    PROVE  Inv'
  <1>1. ControlInv'
    BY DEF Inv, ControlInv, computer, application
  <1>2. ChildInv'
    BY DEF Inv, ChildInv
  <1>3. ForeignInv'
    BY DEF Inv, ForeignInv, computer
  <1>4. QuitInv'
    BY DEF Inv, QuitInv, application
  <1>. QED
    BY <1>1, <1>2, <1>3, <1>4 DEF Inv

\* Where the supervisor is after an operation.
LEMMA FinishPlace ==
    ASSUME Finish
    PROVE  /\ op' = "none" /\ pc' = "idle" /\ phase' = "start"
           /\ target' = NoProcess /\ OrderInv'
  BY DEF Finish, OrderInv

\* Where the supervisor is after a stop: a restart goes on to start.
LEMMA AfterStopPlace ==
    ASSUME Inv, NEW o \in {"restart", "shutdown"}, AfterStop(o)
    PROVE  /\ target' = NoProcess /\ phase' = "start" /\ OrderInv'
           /\ \/ o = "restart" /\ op' = o /\ pc' = "probe"
              \/ o = "shutdown" /\ op' = "none" /\ pc' = "idle"
  BY DEF AfterStop, Finish, OrderInv

\* While an operation stops or starts a service, no child runs but one that
\* is being waited for.
LEMMA NoneRuns ==
    ASSUME Inv, pc \notin {"idle", "halt", "await", "stopping"}
    PROVE  process = NoProcess /\ \A c \in Children : life[c] # "alive"
  BY ChildrenAssumption, NoneAssumption DEF Inv, ChildInv

\* The child that was being stopped is killed when its time is over.
LEMMA StoppingStep ==
    ASSUME Inv, Stopping PROVE Inv'
  <1>1. /\ pc = "stopping" /\ Kill(target) /\ AfterStop(op)
        /\ UNCHANGED <<computer, status, queue, application, crashes>>
    BY DEF Stopping, At
  <1>2. /\ process = NoProcess /\ target \in Pid /\ op \in {"restart", "shutdown"}
        /\ external \in BOOLEAN /\ error \in BOOLEAN
    BY <1>1 DEF Inv, ControlInv, OrderInv, ChildInv, Operations
  <1>3. SystemInv' /\ NoBirth /\ ended' \subseteq ended \cup {target}
        /\ (target \in Processes => life'[target] # "alive")
    BY <1>1, <1>2, KillEffect DEF Inv
  <1>4. \A c \in Children : life'[c] # "alive"
    BY <1>2, <1>3, ChildrenAssumption, NoneAssumption DEF Inv, ChildInv, NoBirth
  <1>5. ~windows => ended' \subseteq ended \cup local
    BY <1>1, <1>3 DEF Inv, ForeignInv
  <1>6. UNCHANGED <<process, external, error>>
    BY <1>1 DEF status
  <1>. QED
    BY <1>1, <1>2, <1>3, <1>4, <1>5, <1>6, AfterStopPlace, WithinOperation
    DEF Awaits, Pid

\* The search for the process that holds the port.
LEMMA FindListenerStep ==
    ASSUME Inv, FindListener PROVE Inv'
  <1>1. /\ pc = "find" /\ UNCHANGED <<computer, system, process, queue>>
        /\ UNCHANGED <<application, crashes>>
        /\ external' \in BOOLEAN /\ error' \in BOOLEAN
    BY DEF FindListener, At, Inv, ControlInv
  <1>2. process = NoProcess /\ \A c \in Children : life[c] # "alive"
    BY <1>1, NoneRuns
  <1>3. SystemInv' /\ life' = life /\ ended' = ended
    BY <1>1, SystemStutters DEF Inv, system
  <1>4. op # "none" /\ phase \in {"stop", "start"} /\ op \in Operations
        /\ (phase = "stop" => op \in {"restart", "shutdown"})
    BY <1>1 DEF Inv, ControlInv, OrderInv, Operations
  <1>5. PICK pid \in Found :
          IF pid # NoProcess
            THEN /\ target' = pid /\ pc' = "identify" /\ UNCHANGED <<op, phase>>
            ELSE IF phase = "stop" THEN AfterStop(op) ELSE Finish
    BY DEF FindListener
  <1>6. CASE pid # NoProcess
    <2>1. target' \in Pid /\ OrderInv'
      BY <1>1, <1>5, <1>6 DEF Found, Inv, SystemInv, OrderInv, Pid
    <2>. QED
      BY <1>1, <1>2, <1>3, <1>4, <1>5, <1>6, <2>1, WithinOperation DEF Awaits
  <1>7. CASE pid = NoProcess /\ phase = "stop"
    BY <1>1, <1>2, <1>3, <1>4, <1>5, <1>7, AfterStopPlace, WithinOperation
    DEF Awaits, Pid
  <1>8. CASE pid = NoProcess /\ phase = "start"
    BY <1>1, <1>2, <1>3, <1>4, <1>5, <1>8, FinishPlace, WithinOperation
    DEF Awaits, Pid
  <1>. QED
    BY <1>4, <1>6, <1>7, <1>8

\* The question whether that process is one of this application.
LEMMA IdentifyStep ==
    ASSUME Inv, Identify PROVE Inv'
  <1>1. /\ pc = "identify" /\ UNCHANGED <<computer, process, external, queue>>
        /\ UNCHANGED <<application, crashes>>
    BY DEF Identify, At
  <1>2. process = NoProcess /\ \A c \in Children : life[c] # "alive"
    BY <1>1, NoneRuns
  <1>3. /\ op # "none" /\ phase \in {"stop", "start"} /\ op \in Operations
        /\ (phase = "stop" => op \in {"restart", "shutdown"})
        /\ external \in BOOLEAN /\ error \in BOOLEAN /\ target \in Pid
    BY <1>1 DEF Inv, ControlInv, OrderInv, Operations
  <1>4. CASE target \in local /\ Terminate(target) /\ Goto("releasing")
             /\ error' \in BOOLEAN
    <2>1. target \in Processes
      BY <1>4 DEF Inv, ControlInv
    <2>2. SystemInv' /\ NoBirth /\ ended' \subseteq ended \cup {target}
      BY <1>4, <2>1, TerminateEffect DEF Inv
    <2>3. \A c \in Children : life'[c] # "alive"
      BY <1>2, <2>2, ChildrenAssumption DEF NoBirth
    <2>4. OrderInv' /\ target' = target /\ pc' = "releasing"
          /\ op' = op /\ phase' = phase
      BY <1>1, <1>3, <1>4 DEF Goto, Inv, OrderInv
    <2>. QED
      BY <1>1, <1>2, <1>3, <1>4, <2>2, <2>3, <2>4, WithinOperation DEF Awaits
  <1>5. CASE /\ IF phase = "stop" THEN AfterStop(op) ELSE Finish
             /\ error' = TRUE /\ UNCHANGED system
    <2>1. SystemInv' /\ life' = life /\ ended' = ended
      BY <1>5, SystemStutters DEF Inv, system
    <2>2. CASE phase = "stop"
      BY <1>1, <1>2, <1>3, <1>5, <2>1, <2>2, AfterStopPlace, WithinOperation
      DEF Awaits, Pid
    <2>3. CASE phase = "start"
      BY <1>1, <1>2, <1>3, <1>5, <2>1, <2>3, FinishPlace, WithinOperation
      DEF Awaits, Pid
    <2>. QED
      BY <1>3, <2>2, <2>3
  <1>6. PICK known \in LooksLocal(target) :
          IF known
            THEN /\ Terminate(target) /\ Goto("releasing")
                 /\ error' = (error \/ life[target] # "alive")
            ELSE /\ IF phase = "stop" THEN AfterStop(op) ELSE Finish
                 /\ error' = TRUE /\ UNCHANGED system
    BY DEF Identify
  <1>7. CASE known = TRUE
    <2>1. target \in local
      BY <1>6, <1>7 DEF LooksLocal
    <2>. QED
      BY <1>3, <1>4, <1>6, <1>7, <2>1
  <1>8. CASE known = FALSE
    BY <1>5, <1>6, <1>8
  <1>. QED
    BY <1>7, <1>8 DEF LooksLocal

\* The process that held the port is killed when its time is over.
LEMMA ReleasingStep ==
    ASSUME Inv, Releasing PROVE Inv'
  <1>1. /\ pc = "releasing" /\ UNCHANGED <<computer, process, external, queue>>
        /\ UNCHANGED <<application, crashes>>
        /\ error' \in BOOLEAN
        /\ IF phase = "stop" THEN AfterStop(op) ELSE Goto("check")
    BY DEF Releasing, At, Inv, ControlInv
  <1>2. process = NoProcess /\ \A c \in Children : life[c] # "alive"
    BY <1>1, NoneRuns
  <1>3. /\ op # "none" /\ phase \in {"stop", "start"} /\ op \in Operations
        /\ (phase = "stop" => op \in {"restart", "shutdown"})
        /\ external \in BOOLEAN /\ target \in Pid
        /\ (~windows => target \in local)
    BY <1>1 DEF Inv, ControlInv, OrderInv, ForeignInv, Operations
  <1>4. SystemInv' /\ NoBirth /\ (~windows => ended' \subseteq ended \cup local)
    <2>1. CASE UNCHANGED system
      BY <2>1, SystemStutters DEF Inv, system
    <2>2. ASSUME NEW victim \in IF windows THEN Found ELSE {target}, Kill(victim)
          PROVE  SystemInv' /\ NoBirth /\ (~windows => ended' \subseteq ended \cup local)
      <3>1. victim \in Pid /\ (~windows => victim \in local)
        BY <1>3, <2>2 DEF Found, Inv, SystemInv, Pid
      <3>2. SystemInv' /\ NoBirth /\ ended' \subseteq ended \cup {victim}
        BY <2>2, <3>1, KillEffect DEF Inv
      <3>. QED
        BY <3>1, <3>2
    <2>. QED
      BY <2>1, <2>2 DEF Releasing
  <1>5. \A c \in Children : life'[c] # "alive"
    BY <1>2, <1>4, ChildrenAssumption DEF NoBirth
  <1>6. CASE phase = "stop"
    BY <1>1, <1>2, <1>3, <1>4, <1>5, <1>6, AfterStopPlace, WithinOperation
    DEF Awaits, Pid
  <1>7. CASE phase = "start"
    <2>1. OrderInv' /\ target' = target /\ pc' = "check" /\ op' = op
          /\ phase' = phase
      BY <1>1, <1>3, <1>7 DEF Goto, Inv, OrderInv
    <2>. QED
      BY <1>1, <1>2, <1>3, <1>4, <1>5, <1>7, <2>1, WithinOperation DEF Awaits
  <1>. QED
    BY <1>3, <1>6, <1>7

\* The only step that brings a child to life, when no other one runs.
LEMMA SpawnStep ==
    ASSUME Inv, pc \in {"probe", "check"}, Spawn,
           UNCHANGED <<computer, queue, application>>
    PROVE  Inv'
  <1>1. process = NoProcess /\ \A c \in Children : life[c] # "alive"
    BY NoneRuns
  <1>2. /\ error' = FALSE /\ external' = FALSE
        /\ pc' = "await" /\ UNCHANGED <<op, phase, target>>
        /\ UNCHANGED <<listener, asked, ended, stream>>
    BY DEF Spawn, Goto
  <1>3. PICK c \in Children :
          /\ life[c] = "unborn" /\ process' = c
          /\ \/ life' = [life EXCEPT ![c] = "alive"] /\ UNCHANGED <<exits, crashes>>
             \/ /\ crashes < MaxCrashes /\ crashes' = crashes + 1
                /\ life' = [life EXCEPT ![c] = "dead"]
                /\ exits' = [exits EXCEPT ![c] = "bad"]
    BY DEF Spawn
  <1>4. c \in Processes
    BY ChildrenAssumption
  <1>5. crashes' \in 0 .. MaxCrashes
    BY <1>3, ChildrenAssumption DEF Inv, ControlInv
  <1>6. SystemInv'
    <2>1. Sound(stream)'
      BY <1>2 DEF Inv, SystemInv, Sound, OnlyCurrentOpen
    <2>2. listener' \in Pid /\ (listener' # NoProcess => life'[listener'] = "alive")
      BY <1>2, <1>3, <1>4 DEF Inv, SystemInv, Pid
    <2>3. CASE life' = [life EXCEPT ![c] = "alive"] /\ UNCHANGED exits
      BY <1>2, <1>3, <1>4, <2>1, <2>2, <2>3, ChildrenAssumption DEF Inv, SystemInv
    <2>4. CASE /\ life' = [life EXCEPT ![c] = "dead"]
               /\ exits' = [exits EXCEPT ![c] = "bad"]
      BY <1>2, <1>3, <1>4, <2>1, <2>2, <2>4, ChildrenAssumption DEF Inv, SystemInv
    <2>. QED
      BY <1>3, <2>3, <2>4
  <1>7. \A b \in Children : life'[b] = "alive" => b = c
    BY <1>1, <1>3, <1>4, ChildrenAssumption DEF Inv, SystemInv
  <1>8. ControlInv'
    BY <1>2, <1>3, <1>5 DEF Inv, ControlInv, computer, application, Awaits
  <1>9. OrderInv' /\ ChildInv'
    BY <1>2, <1>3, <1>7 DEF Inv, OrderInv, ChildInv
  <1>10. ForeignInv'
    BY <1>2 DEF Inv, ForeignInv, computer
  <1>11. QuitInv'
    BY <1>2 DEF Inv, ControlInv, QuitInv, application
  <1>. QED
    BY <1>6, <1>8, <1>9, <1>10, <1>11 DEF Inv

\* The question whether a service answers already.
LEMMA ProbeStep ==
    ASSUME Inv, Probe PROVE Inv'
  <1>1. pc = "probe" /\ UNCHANGED <<computer, queue, application>>
    BY DEF Probe, At
  <1>2. process = NoProcess /\ \A c \in Children : life[c] # "alive"
    BY <1>1, NoneRuns
  <1>3. op # "none" /\ phase = "start" /\ external \in BOOLEAN /\ error \in BOOLEAN
        /\ target \in Pid
    BY <1>1 DEF Inv, ControlInv, OrderInv
  <1>4. CASE /\ external' = TRUE /\ error' = FALSE /\ Reconnect /\ Finish
             /\ UNCHANGED <<process, crashes>>
    <2>1. SystemInv' /\ NoBirth /\ ended' = ended
      BY <1>4, ReconnectEffect DEF Inv
    <2>2. \A c \in Children : life'[c] # "alive"
      BY <1>2, <2>1, ChildrenAssumption DEF NoBirth
    <2>. QED
      BY <1>1, <1>2, <1>3, <1>4, <2>1, <2>2, FinishPlace, WithinOperation
      DEF Awaits, Pid
  <1>5. CASE Goto("find") /\ UNCHANGED <<system, status, crashes>>
    <2>1. SystemInv' /\ life' = life /\ ended' = ended
      BY <1>5, SystemStutters DEF Inv, system
    <2>2. OrderInv' /\ target' = target /\ pc' = "find" /\ op' = op
          /\ phase' = phase /\ UNCHANGED <<process, external, error>>
      BY <1>1, <1>3, <1>5 DEF Goto, Inv, OrderInv, status
    <2>. QED
      BY <1>1, <1>2, <1>3, <1>5, <2>1, <2>2, WithinOperation DEF Awaits
  <1>6. CASE Spawn
    BY <1>1, <1>6, SpawnStep
  <1>. QED
    BY <1>4, <1>5, <1>6 DEF Probe

\* The last look at the port before a child is spawned.
LEMMA CheckStep ==
    ASSUME Inv, Check PROVE Inv'
  <1>1. pc = "check" /\ UNCHANGED <<computer, queue, application>>
    BY DEF Check, At
  <1>2. process = NoProcess /\ \A c \in Children : life[c] # "alive"
    BY <1>1, NoneRuns
  <1>3. op # "none" /\ external \in BOOLEAN
    BY <1>1 DEF Inv, ControlInv
  <1>4. CASE /\ error' = TRUE /\ Finish
             /\ UNCHANGED <<system, process, external, crashes>>
    <2>1. SystemInv' /\ life' = life /\ ended' = ended
      BY <1>4, SystemStutters DEF Inv, system
    <2>. QED
      BY <1>1, <1>2, <1>3, <1>4, <2>1, FinishPlace, WithinOperation
      DEF Awaits, Pid
  <1>5. CASE Spawn
    BY <1>1, <1>5, SpawnStep
  <1>. QED
    BY <1>4, <1>5 DEF Check

\* The wait for the health of a new child.
LEMMA AwaitStep ==
    ASSUME Inv, Await PROVE Inv'
  <1>1. /\ pc = "await" /\ Finish /\ error' \in BOOLEAN
        /\ UNCHANGED <<computer, process, external, queue, application, crashes>>
    BY DEF Await, At
  <1>2. /\ op # "none" /\ op # "shutdown" /\ external \in BOOLEAN
        /\ \A c \in Children : life[c] = "alive" => c = process
    BY <1>1 DEF Inv, ControlInv, OrderInv, ChildInv
  <1>3. SystemInv' /\ NoBirth /\ ended' = ended
    BY ReconnectEffect, SystemStutters DEF Await, Inv, system
  <1>4. \A c \in Children : life'[c] = "alive" => c = process
    BY <1>2, <1>3, ChildrenAssumption DEF NoBirth
  <1>5. /\ op' = "none" /\ pc' = "idle" /\ phase' = "start"
        /\ target' = NoProcess /\ OrderInv'
    BY <1>1, FinishPlace
  <1>. QED
    BY <1>1, <1>2, <1>3, <1>4, <1>5, WithinOperation DEF Pid, Awaits

-----------------------------------------------------------------------------
(* The beginning of a stop, which a restart and a shutdown share.          *)

\* What the beginning of a stop changes, and where it leads.
LEMMA StopEffect ==
    ASSUME Inv, pc \in {"idle", "halt"}, NEW o \in {"restart", "shutdown"}, Stop(o)
    PROVE  /\ SystemInv' /\ (~windows => ended' \subseteq ended \cup local)
           /\ process' = NoProcess /\ external' \in BOOLEAN /\ target' \in Pid
           /\ \/ op' = o /\ phase' = "stop" /\ pc' \in {"find", "releasing", "stopping"}
              \/ o = "restart" /\ op' = o /\ phase' = "start" /\ pc' = "probe"
              \/ o = "shutdown" /\ op' = "none" /\ phase' = "start" /\ pc' = "idle"
           /\ \A c \in Children :
                life'[c] = "alive" => c = target' /\ pc' = "stopping"
           /\ ~windows /\ pc' \in {"stopping", "releasing"} => target' \in local
  <1>1. \A c \in Children : life[c] = "alive" => c = process
    BY DEF Inv, ChildInv
  <1>2. external \in BOOLEAN /\ process \in Children \cup {NoProcess}
        /\ Children \subseteq local /\ Children \subseteq Processes
        /\ NoProcess \notin Children
    BY ChildrenAssumption, NoneAssumption DEF Inv, ControlInv, ForeignInv
  <1>3. CASE external /\ process = NoProcess
    <2>1. /\ op' = o /\ phase' = "stop" /\ pc' = "find" /\ target' = NoProcess
          /\ UNCHANGED <<process, external>> /\ UNCHANGED system
      BY <1>3 DEF Stop
    <2>2. SystemInv' /\ life' = life /\ ended' = ended
      BY <2>1, SystemStutters DEF Inv, system
    <2>. QED
      BY <1>1, <1>2, <1>3, <2>1, <2>2 DEF Pid
  <1>4. CASE ~external /\ process = NoProcess
    <2>1. /\ external' = FALSE /\ process' = NoProcess
          /\ AfterStop(o) /\ UNCHANGED system
      BY <1>4 DEF Stop
    <2>2. SystemInv' /\ life' = life /\ ended' = ended
      BY <2>1, SystemStutters DEF Inv, system
    <2>. QED
      BY <1>1, <1>2, <1>4, <2>1, <2>2, AfterStopPlace DEF Pid
  <1>5. CASE process # NoProcess
    <2>1. /\ external' = FALSE /\ process' = NoProcess
          /\ op' = o /\ phase' = "stop" /\ target' = process
          /\ pc' = IF windows THEN "releasing" ELSE "stopping"
          /\ Terminate(process)
      BY <1>5 DEF Stop
    <2>2. process \in Children /\ process \in Processes
      BY <1>2, <1>5
    <2>3. /\ SystemInv' /\ NoBirth /\ ended' \subseteq ended \cup {process}
          /\ windows => life'[process] # "alive"
      BY <2>1, <2>2, TerminateEffect DEF Inv
    <2>4. \A c \in Children : life'[c] = "alive" => c = target' /\ pc' = "stopping"
      BY <1>1, <1>2, <2>1, <2>3 DEF NoBirth
    <2>. QED
      BY <1>2, <2>1, <2>2, <2>3, <2>4 DEF Pid
  <1>. QED
    BY <1>2, <1>3, <1>4, <1>5

\* The shutdown after its request to the service.
LEMMA HaltStep ==
    ASSUME Inv, Halt PROVE Inv'
  <1>1. /\ pc = "halt" /\ Stop("shutdown") /\ error' \in BOOLEAN
        /\ UNCHANGED <<computer, queue, application, crashes>>
    BY DEF Halt, At, HaltErrors, Inv, ControlInv
  <1>2. op = "shutdown"
    BY <1>1 DEF Inv, OrderInv
  <1>3. /\ SystemInv' /\ (~windows => ended' \subseteq ended \cup local)
        /\ process' = NoProcess /\ external' \in BOOLEAN /\ target' \in Pid
        /\ \/ op' = "shutdown" /\ phase' = "stop"
              /\ pc' \in {"find", "releasing", "stopping"}
           \/ op' = "none" /\ phase' = "start" /\ pc' = "idle"
        /\ \A c \in Children :
             life'[c] = "alive" => c = target' /\ pc' = "stopping"
        /\ ~windows /\ pc' \in {"stopping", "releasing"} => target' \in local
    BY <1>1, StopEffect
  <1>4. ControlInv'
    BY <1>1, <1>3
    DEF Inv, ControlInv, computer, application, Awaits, Operations
  <1>5. OrderInv' /\ ChildInv'
    BY <1>3 DEF OrderInv, ChildInv
  <1>6. ForeignInv'
    BY <1>1, <1>3 DEF Inv, ForeignInv, computer
  <1>7. QuitInv'
    BY <1>1, <1>2, <1>3 DEF Inv, QuitInv, application
  <1>. QED
    BY <1>3, <1>4, <1>5, <1>6, <1>7 DEF Inv

\* What is taken from the queue of an application that is being quit.
LEMMA TakenFromQueue ==
    ASSUME Inv, pc = "idle", queue # <<>>, queue' = Tail(queue),
           UNCHANGED application
    PROVE  /\ queue' \in Seq(Operations) /\ Head(queue) \in Operations
           /\ app \in {"closing", "exited"} => late
           /\ app = "quitting" /\ ~late =>
                \/ queue' # <<>> /\ queue'[Len(queue')] = "shutdown"
                \/ queue' = <<>> /\ Head(queue) = "shutdown"
  <1>1. queue \in Seq(Operations) /\ Len(queue) \in Nat /\ Len(queue) > 0
    BY DEF Inv, ControlInv
  <1>2. queue' \in Seq(Operations) /\ Head(queue) \in Operations
        /\ Len(queue') = Len(queue) - 1
        /\ Head(queue) = queue[1]
        /\ \A i \in 1 .. Len(queue') : queue'[i] = queue[i + 1]
    BY <1>1
  <1>3. app \in {"closing", "exited"} => late
    BY DEF Inv, QuitInv
  <1>4. ASSUME app = "quitting", ~late
        PROVE  \/ queue' # <<>> /\ queue'[Len(queue')] = "shutdown"
               \/ queue' = <<>> /\ Head(queue) = "shutdown"
    <2>1. queue[Len(queue)] = "shutdown"
      BY <1>4 DEF Inv, QuitInv
    <2>2. CASE Len(queue) = 1
      BY <1>2, <2>1, <2>2
    <2>3. CASE Len(queue) > 1
      <3>1. Len(queue') \in 1 .. Len(queue') /\ Len(queue') + 1 = Len(queue)
        BY <1>1, <1>2, <2>3
      <3>2. queue'[Len(queue')] = "shutdown"
        BY <1>2, <2>1, <3>1
      <3>3. queue' # <<>>
        <4>1. Len(queue') # 0 /\ Len(<<>>) = 0
          BY <1>1, <1>2, <2>3
        <4>. QED
          BY <4>1
      <3>. QED
        BY <3>2, <3>3
    <2>4. \A n \in Nat : n > 0 => n = 1 \/ n > 1
      OBVIOUS
    <2>. QED
      BY <1>1, <2>2, <2>3, <2>4
  <1>. QED
    BY <1>2, <1>3, <1>4

\* The next operation of the queue begins.
LEMMA DequeueStep ==
    ASSUME Inv, Dequeue PROVE Inv'
  <1>1. /\ pc = "idle" /\ queue # <<>> /\ queue' = Tail(queue)
        /\ UNCHANGED <<computer, application, crashes>>
    BY DEF Dequeue, At
  <1>2. /\ queue' \in Seq(Operations)
        /\ app \in {"closing", "exited"} => late
        /\ app = "quitting" /\ ~late =>
             \/ queue' # <<>> /\ queue'[Len(queue')] = "shutdown"
             \/ queue' = <<>> /\ Head(queue) = "shutdown"
    BY <1>1, TakenFromQueue
  <1>3. op = "none" /\ phase = "start" /\ external \in BOOLEAN /\ error \in BOOLEAN
        /\ process \in Children \cup {NoProcess} /\ target \in Pid
    BY <1>1 DEF Inv, ControlInv, OrderInv
  <1>4. \A c \in Children : life[c] = "alive" => c = process
    BY <1>1 DEF Inv, ChildInv
  <1>5. UNCHANGED <<app, late>> /\ UNCHANGED <<windows, local>>
    BY <1>1 DEF application, computer
  <1>6. CASE /\ Head(queue) = "start" /\ UNCHANGED <<status, system>>
             /\ \/ UNCHANGED operation
                \/ /\ ~isMlServiceRunning /\ op' = "start" /\ pc' = "probe"
                   /\ UNCHANGED <<phase, target>>
    <2>1. SystemInv' /\ life' = life /\ ended' = ended
      BY <1>6, SystemStutters DEF Inv, system
    <2>2. ControlInv'
      BY <1>1, <1>2, <1>6
      DEF Inv, ControlInv, computer, application, operation, status, Awaits, Operations
    <2>3. OrderInv' /\ ChildInv'
      BY <1>1, <1>3, <1>4, <1>6, <2>1
      DEF Inv, OrderInv, ChildInv, operation, status, isMlServiceRunning
    <2>4. ForeignInv'
      BY <1>1, <1>5, <1>6, <2>1 DEF Inv, ForeignInv, operation
    <2>5. QuitInv'
      BY <1>2, <1>5, <1>6 DEF QuitInv
    <2>. QED
      BY <2>1, <2>2, <2>3, <2>4, <2>5 DEF Inv
  <1>7. CASE Head(queue) = "restart" /\ Stop("restart") /\ UNCHANGED error
    <2>1. /\ SystemInv' /\ (~windows => ended' \subseteq ended \cup local)
          /\ process' = NoProcess /\ external' \in BOOLEAN /\ target' \in Pid
          /\ \/ op' = "restart" /\ phase' = "stop"
                /\ pc' \in {"find", "releasing", "stopping"}
             \/ op' = "restart" /\ phase' = "start" /\ pc' = "probe"
          /\ \A c \in Children :
               life'[c] = "alive" => c = target' /\ pc' = "stopping"
          /\ ~windows /\ pc' \in {"stopping", "releasing"} => target' \in local
      BY <1>1, <1>7, StopEffect
    <2>2. ControlInv'
      BY <1>1, <1>2, <1>7, <2>1
      DEF Inv, ControlInv, computer, application, Awaits, Operations
    <2>3. OrderInv' /\ ChildInv'
      BY <2>1 DEF OrderInv, ChildInv
    <2>4. ForeignInv'
      BY <1>5, <2>1 DEF Inv, ForeignInv
    <2>5. QuitInv'
      BY <1>2, <1>5, <1>7 DEF QuitInv
    <2>. QED
      BY <2>1, <2>2, <2>3, <2>4, <2>5 DEF Inv
  <1>8. CASE /\ Head(queue) = "shutdown" /\ op' = "shutdown" /\ phase' = "stop"
             /\ pc' = "halt" /\ stream' = Disposed(stream)
             /\ UNCHANGED <<listener, life, asked, exits, ended>>
             /\ UNCHANGED <<status, target>>
    <2>1. Sound(stream)'
      BY <1>8, DisposedSound DEF Inv, SystemInv, Sound, OnlyCurrentOpen
    <2>2. SystemInv'
      BY <1>8, <2>1 DEF Inv, SystemInv
    <2>3. ControlInv'
      BY <1>1, <1>2, <1>8
      DEF Inv, ControlInv, computer, application, status, Awaits, Operations
    <2>4. OrderInv' /\ ChildInv'
      BY <1>4, <1>8 DEF OrderInv, ChildInv, status
    <2>5. ForeignInv'
      BY <1>5, <1>8 DEF Inv, ForeignInv
    <2>6. QuitInv'
      BY <1>2, <1>5, <1>8 DEF QuitInv
    <2>. QED
      BY <2>2, <2>3, <2>4, <2>5, <2>6 DEF Inv
  <1>. QED
    BY <1>6, <1>7, <1>8 DEF Dequeue

-----------------------------------------------------------------------------
(* All steps together.                                                     *)

\* Every step of an operation keeps the invariant.
LEMMA StepKeeps == Inv /\ Step => Inv'
  BY DequeueStep, HaltStep, StoppingStep, FindListenerStep, IdentifyStep,
     ReleasingStep, ProbeStep, CheckStep, AwaitStep DEF Step

\* A step that changes nothing keeps the invariant.
LEMMA StutterKeeps == Inv /\ UNCHANGED vars => Inv'
  <1>. SUFFICES ASSUME Inv, UNCHANGED vars PROVE Inv'
    OBVIOUS
  <1>1. /\ UNCHANGED <<computer, system, status, queue, operation>>
        /\ UNCHANGED <<application, crashes>>
    BY DEF vars
  <1>2. SystemInv' /\ life' = life /\ ended' = ended
    BY <1>1, SystemStutters DEF Inv, system
  <1>. QED
    BY <1>1, <1>2, OutsideStep DEF Inv, ControlInv

\* Every step keeps the invariant.
LEMMA InvStep == Inv /\ [Next]_vars => Inv'
  <1>. SUFFICES ASSUME Inv, [Next]_vars PROVE Inv'
    OBVIOUS
  <1>1. ASSUME NEW p \in Processes, Launch(p) \/ Bind(p) \/ Die(p) PROVE Inv'
    BY <1>1, ProcessStep
  <1>2. ASSUME NEW c \in Children, ExitSeen(c) PROVE Inv'
    BY <1>2, ExitSeenStep
  <1>3. CASE Step
    BY <1>3, StepKeeps
  <1>4. CASE Streaming(StreamNext)
    BY <1>4, StreamingStep
  <1>5. CASE Restart \/ StopMonitoring \/ Quit \/ ShutdownDone \/ Exit
    BY <1>5, ApplicationStep
  <1>6. CASE UNCHANGED vars
    BY <1>6, StutterKeeps
  <1>. QED
    BY <1>1, <1>2, <1>3, <1>4, <1>5, <1>6 DEF Next

\* The invariant holds in every state of every behaviour.
LEMMA Invariance == Spec => []Inv
  BY InvInit, InvStep, PTL DEF Spec

(* The type invariant: in particular the supervisor never holds anything   *)
(* but a child of its own, and an operation is under way exactly while it  *)
(* is at one of its awaits.                                                *)
THEOREM TypeCorrect == Spec => []TypeOK
  <1>1. Inv => TypeOK
    BY DEF Inv, SystemInv, ControlInv, Sound, TypeOK
  <1>. QED
    BY <1>1, Invariance, PTL

(* There is never a second socket, nor one beside a reconnection that is   *)
(* scheduled, nor one after dispose, in whatever order restarts, events of *)
(* sockets and timers come.                                                *)
THEOREM SingleSocket == Spec => []OneSocket
  <1>1. Inv => OneSocket
    BY SoundIsOneSocket DEF Inv, SystemInv
  <1>. QED
    BY <1>1, Invariance, PTL

(* No child runs that the supervisor neither holds nor is ending, and      *)
(* there is never more than one.                                           *)
THEOREM NoChildIsLost == Spec => []NoOrphan
  <1>1. Inv => NoOrphan
    <2>. SUFFICES ASSUME Inv PROVE NoOrphan
      OBVIOUS
    <2>. DEFINE running == {c \in Children : life[c] = "alive"}
    <2>1. \A c \in running : c = process \/ (c = target /\ pc = "stopping")
      BY DEF Inv, ChildInv
    <2>2. pc = "stopping" => process = NoProcess
      BY DEF Inv, ChildInv
    <2>3. NoProcess \notin running
      BY ChildrenAssumption, NoneAssumption
    <2>4. \E x : running \subseteq {x}
      <3>1. CASE pc = "stopping"
        BY <2>1, <2>2, <2>3, <3>1
      <3>2. CASE pc # "stopping"
        <4>1. running \subseteq {process}
          BY <2>1, <3>2
        <4>. QED
          BY <4>1
      <3>. QED
        BY <3>1, <3>2
    <2>. HIDE DEF running
    <2>5. Cardinality(running) <= 1
      <3>1. PICK x : running \subseteq {x}
        BY <2>4
      <3>2. IsFiniteSet({x}) /\ Cardinality({x}) = 1
        BY FS_Singleton
      <3>. QED
        BY <3>1, <3>2, FS_Subset
    <2>. QED
      BY <2>1, <2>5 DEF NoOrphan, running
  <1>. QED
    BY <1>1, Invariance, PTL

(* Outside Windows, what the supervisor tells to end was started from the  *)
(* workspace, whoever holds the port by then.                              *)
THEOREM OthersAreLeftAlone == Spec => []ForeignUntouched
  <1>1. Inv => ForeignUntouched
    BY DEF Inv, ForeignInv, ForeignUntouched
  <1>. QED
    BY <1>1, Invariance, PTL

(* When the application has exited, no child of it runs, unless a restart  *)
(* was asked for after the quit.                                           *)
THEOREM NothingIsLeft == Spec => []LeavesNothing
  <1>1. Inv => LeavesNothing
    <2>. SUFFICES ASSUME Inv, app = "exited", ~late, NEW c \in Children
                  PROVE  life[c] # "alive"
      BY DEF LeavesNothing
    <2>1. op = "none" /\ process = NoProcess
      BY DEF Inv, QuitInv
    <2>2. pc = "idle"
      BY <2>1 DEF Inv, ControlInv
    <2>. QED
      BY <2>1, <2>2, ChildrenAssumption, NoneAssumption DEF Inv, ChildInv
  <1>. QED
    BY <1>1, Invariance, PTL

-----------------------------------------------------------------------------
(* What a start ends with.                                                 *)

StartEnds == op' = "none" /\ op \in {"start", "restart"}
Answered == \/ process' # NoProcess \/ external' \/ error' = TRUE
            \/ listener \in accepting \ Children

\* A start that ends has a child, an outside service, or an error.
LEMMA EndsAnswered == Inv /\ [Next]_vars => (StartEnds => Answered)
  <1>. SUFFICES ASSUME Inv, [Next]_vars, StartEnds PROVE Answered
    OBVIOUS
  <1>0. op \in {"start", "restart"} /\ op' = "none" /\ pc # "idle"
    BY DEF StartEnds, Inv, ControlInv
  <1>1. Step
    <2>1. ~UNCHANGED operation
      BY <1>0 DEF operation
    <2>. QED
      BY <2>1 DEF Next, vars, Launch, Bind, Die, ExitSeen, Streaming, Restart,
                  StopMonitoring, Quit, ShutdownDone, Exit
  <1>2. phase = "stop" => op = "restart"
    BY <1>0 DEF Inv, OrderInv
  <1>3. ~AfterStop("restart")
    BY <1>0 DEF AfterStop
  <1>4. external \in BOOLEAN /\ error \in BOOLEAN /\ phase \in {"stop", "start"}
    BY DEF Inv, ControlInv
  <1>5. ~Dequeue /\ ~Halt
    BY <1>0 DEF Dequeue, Halt, At, Inv, OrderInv
  <1>6. ~Stopping
    <2>1. pc = "stopping" => phase = "stop"
      BY DEF Inv, OrderInv
    <2>. QED
      BY <1>2, <1>3, <2>1 DEF Stopping, At
  <1>7. ASSUME FindListener PROVE Answered
    <2>1. PICK pid \in Found :
            IF pid # NoProcess
              THEN UNCHANGED op
              ELSE /\ IF phase = "stop" THEN AfterStop(op) ELSE Finish
                   /\ error' = (error \/ phase = "start")
      BY <1>7 DEF FindListener
    <2>2. phase = "start" /\ error' = (error \/ phase = "start")
      BY <1>0, <1>2, <1>3, <1>4, <2>1
    <2>. QED
      BY <1>4, <2>2 DEF Answered
  <1>8. ASSUME Identify PROVE Answered
    <2>1. error' = TRUE
      BY <1>0, <1>8 DEF Identify, Goto
    <2>. QED
      BY <2>1 DEF Answered
  <1>9. ~Releasing
    BY <1>0, <1>2, <1>3 DEF Releasing, Goto
  <1>10. ASSUME Probe PROVE Answered
    BY <1>0, <1>10 DEF Probe, Goto, Spawn, Answered
  <1>11. ASSUME Check PROVE Answered
    BY <1>0, <1>11 DEF Check, Goto, Spawn, Answered
  <1>12. ASSUME Await PROVE Answered
    <2>1. CASE error' = TRUE
      BY <2>1 DEF Answered
    <2>2. CASE listener \in accepting
      <3>1. CASE listener \notin Children
        BY <2>2, <3>1 DEF Answered
      <3>2. CASE listener \in Children
        <4>1. listener = process /\ process' = process
          BY <1>12, <3>2, ChildrenAssumption, NoneAssumption
          DEF Await, At, Inv, SystemInv, ChildInv
        <4>. QED
          BY <3>2, <4>1, ChildrenAssumption, NoneAssumption DEF Answered
      <3>. QED
        BY <3>1, <3>2
    <2>. QED
      BY <1>12, <2>1, <2>2 DEF Await
  <1>. QED
    BY <1>1, <1>5, <1>6, <1>7, <1>8, <1>9, <1>10, <1>11, <1>12 DEF Step

(* A start or a restart ends with a service that is held or connected to,  *)
(* or with an error, unless a service that is not a child answers at that  *)
(* moment.                                                                 *)
THEOREM StartsAreAnswered == Spec => ConnectsOrReports
  <1>1. Inv /\ [Next]_vars
          => [op' = "none" /\ op \in {"start", "restart"}
                => \/ process' # NoProcess \/ external' \/ error' = TRUE
                   \/ listener \in accepting \ Children]_vars
    BY EndsAnswered DEF StartEnds, Answered
  <1>. QED
    BY <1>1, Invariance, PTL DEF Spec, ConnectsOrReports
=============================================================================
