-------------------------- MODULE LiveEventStream --------------------------
(***************************************************************************)
(* MlReportLiveEventStream (desktop-tanaw/electron/services): the one      *)
(* websocket that the main process of the desktop keeps to the local ML    *)
(* service, on behalf of the page that has asked for the camera states.    *)
(*                                                                         *)
(* The stream is one record, and what the methods of the class do to it    *)
(* are functions of that record, so that a method that calls another one   *)
(* is their composition.  The delay before a reconnection is left out: the *)
(* timer may fire at any time.                                             *)
(***************************************************************************)
EXTENDS FiniteSets, Integers

CONSTANTS
    Processes,  \* processes that may serve the port of the ML service
    NoProcess,
    Sockets,    \* websockets; one that has gone may be used again
    NoSocket

ASSUME NoneAssumption == NoProcess \notin Processes /\ NoSocket \notin Sockets

VARIABLES
    listener,   \* the process that listens on the port of the ML service
    accepting,  \* processes that know our token and speak our API
    stream

Stream == [subscribed: BOOLEAN,  \* #subscribers holds the page
           disposed: BOOLEAN,    \* #disposed
           permanent: BOOLEAN,   \* #permanentFailure
           timer: BOOLEAN,       \* #reconnectTimer is set
           current: Sockets \cup {NoSocket},                  \* #socket
           state: [Sockets -> {"gone", "connecting", "open"}],
           peer: [Sockets -> Processes \cup {NoProcess}]]

InitialStream ==
    [subscribed |-> FALSE, disposed |-> FALSE, permanent |-> FALSE,
     timer |-> FALSE, current |-> NoSocket,
     state |-> [s \in Sockets |-> "gone"],
     peer |-> [s \in Sockets |-> NoProcess]]

-----------------------------------------------------------------------------
Gone(st) == {s \in Sockets : st.state[s] = "gone"}

(* #connect: a new socket, unless there is one, or one is to come, or none *)
(* is wanted.                                                              *)
Connected(st) ==
    IF \/ st.disposed \/ st.permanent \/ ~st.subscribed
       \/ st.current # NoSocket \/ st.timer
      THEN st
      ELSE LET s == CHOOSE s \in Gone(st) : TRUE
           IN [st EXCEPT !.current = s, !.state[s] = "connecting"]

(* #disconnect: an open socket is closed; one that is still connecting is  *)
(* left behind and closed when it opens.                                   *)
Disconnected(st) ==
    LET closed == IF st.current # NoSocket /\ st.state[st.current] = "open"
                    THEN [st EXCEPT !.state[st.current] = "gone",
                                    !.peer[st.current] = NoProcess]
                    ELSE st
    IN [closed EXCEPT !.current = NoSocket, !.timer = FALSE, !.permanent = FALSE]

(* unsubscribe, from the page or because its window was destroyed *)
Unsubscribed(st) ==
    IF st.subscribed THEN Disconnected([st EXCEPT !.subscribed = FALSE]) ELSE st

(* reconnectAfterServiceRestart *)
Reconnected(st) == IF st.disposed THEN st ELSE Connected(Disconnected(st))

Disposed(st) ==
    IF st.disposed
      THEN st
      ELSE Disconnected(Unsubscribed([st EXCEPT !.disposed = TRUE]))

\* #scheduleReconnect; mutant: a connection that was lost is not made again.
NotScheduled(st) == st
Scheduled(st) ==
    [st EXCEPT !.timer = @ \/ ~(st.disposed \/ st.permanent \/ ~st.subscribed)]

(* The close event of a socket: without effect unless it is the current    *)
(* one.  The code 1008 says that the service will not have this client.    *)
Closed(st, s, refused) ==
    LET after == [st EXCEPT !.state[s] = "gone", !.peer[s] = NoProcess]
        lost == [after EXCEPT !.current = NoSocket]
    IN IF s # st.current THEN after
       ELSE IF refused THEN [lost EXCEPT !.permanent = TRUE]
       ELSE Scheduled(lost)

(* Process p has gone: the other end of its connections is not there. *)
Severed(st, p) ==
    [st EXCEPT !.peer = [s \in Sockets |-> IF @[s] = p THEN NoProcess ELSE @[s]]]

-----------------------------------------------------------------------------
Subscribe ==
    /\ ~stream.disposed /\ ~stream.subscribed /\ Gone(stream) # {}
    /\ stream' = Connected([stream EXCEPT !.subscribed = TRUE])

Unsubscribe ==
    /\ stream.subscribed
    /\ stream' = Unsubscribed(stream)

\* Mutant: a socket that was left behind stays open.
SocketOpensAnyway(s) ==
    /\ stream.state[s] = "connecting" /\ listener \in accepting
    /\ stream' = [stream EXCEPT !.state[s] = "open", !.peer[s] = listener]

(* The open event: the current socket is announced to the page, one that   *)
(* was left behind is closed.                                              *)
SocketOpens(s) ==
    /\ stream.state[s] = "connecting" /\ listener \in accepting
    /\ stream' = IF s = stream.current
                   THEN [stream EXCEPT !.state[s] = "open",
                                       !.peer[s] = listener]
                   ELSE [stream EXCEPT !.state[s] = "gone"]

(* Nobody listens, or whoever does refuses; or the service has gone. *)
SocketCloses(s) ==
    \/ /\ stream.state[s] = "connecting"
       /\ \/ /\ listener = NoProcess
             /\ stream' = Closed(stream, s, FALSE)
          \/ /\ listener # NoProcess /\ listener \notin accepting
             /\ \E refused \in BOOLEAN : stream' = Closed(stream, s, refused)
    \/ /\ stream.state[s] = "open" /\ stream.peer[s] = NoProcess
       /\ stream' = Closed(stream, s, FALSE)

TimerFires ==
    /\ stream.timer /\ Gone(stream) # {}
    /\ stream' = Connected([stream EXCEPT !.timer = FALSE])

StreamNext ==
    \/ Subscribe
    \/ Unsubscribe
    \/ \E s \in Sockets : SocketOpens(s) \/ SocketCloses(s)
    \/ TimerFires

-----------------------------------------------------------------------------
(* Whatever restarts, reconnections and late answers come in whatever      *)
(* order, no socket stays open beside the current one, none survives       *)
(* dispose, and a current socket and a reconnection that is scheduled      *)
(* exclude each other (two sockets would deliver every state twice).       *)
OneSocket ==
    /\ \A s \in Sockets : stream.state[s] = "open" => s = stream.current
    /\ stream.current # NoSocket => /\ stream.state[stream.current] # "gone"
                                    /\ ~stream.timer /\ ~stream.permanent
    /\ stream.disposed => stream.current = NoSocket /\ ~stream.timer

(* The current page holds a connection to the service that listens. *)
Live == /\ stream.current # NoSocket
        /\ stream.state[stream.current] = "open"
        /\ stream.peer[stream.current] = listener
=============================================================================
