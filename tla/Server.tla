------------------------------- MODULE Server -------------------------------
(***************************************************************************)
(* The TCP server: Server, Connection and EventLoop, one thread, with the  *)
(* sockets of the operating system and the clients around them.            *)
(*                                                                         *)
(* The thread is in the event loop (handler = Nobody) or inside a callback *)
(* whose loop is under way: accept() for the Listener, process_messages()  *)
(* for a connection.  One step of such a loop is one step of the model, so *)
(* clients run between them.  What happens inside one recv or send loop is *)
(* not seen by anyone and is one step.                                     *)
(*                                                                         *)
(* A Connection object is named after the client it serves; a descriptor   *)
(* is a number that the next accept may get again.                         *)
(***************************************************************************)
EXTENDS Protocol, FiniteSets

CONSTANTS
    Clients,
    Raw,           \* the clients that frame their messages without a limit
    Lines,         \* the lines that each client may send
    Listener,      \* the callback that accepts connections
    Nobody,
    MaxFds,        \* the descriptors the process may have for connections
    MaxEvents,     \* MAX_EVENTS
    SendBuffer,    \* the units a socket holds on their way to a client
    Window,        \* the requests a client sends without a reply: 1 in the CLI
    Faults,        \* the kinds of failure that may happen
    MaxRequests, MaxFaults  \* bounds for model checking

FaultKinds ==
    {"listen", "nonblock", "register", "kevent", "event", "socket", "database"}

ASSUME ServerAssumption ==
    /\ IsFiniteSet(Clients)
    /\ Raw \subseteq Clients
    /\ DOMAIN Lines = Clients
    /\ \A c \in Clients : \A line \in Lines[c] : IsMessage(line)
    /\ Listener \notin Clients
    /\ Nobody \notin Clients \cup {Listener}
    /\ MaxFds \in Nat
    /\ MaxEvents \in Nat \ {0}
    /\ SendBuffer \in Nat \ {0}
    /\ Window \in Nat \ {0}
    /\ Faults \subseteq FaultKinds
    /\ MaxRequests \in [Clients -> Nat]
    /\ MaxFaults \in Nat

ServerFd == 0
Fds      == 1..MaxFds
NoFd     == -1
Honest   == Clients \ Raw

VARIABLES
    server,       \* "starting", "running" or "stopped"
    connections,  \* Server::connections_: the connection of every descriptor
    readCb,       \* EventLoop::read_callbacks_: whose handle_readable
    writeCb,      \* EventLoop::write_callbacks_: whose handle_writable
    batch,        \* the events of the last kevent call still to dispatch
    handler,      \* the callback whose loop is under way
    conn,         \* the Connection objects
    backlog,      \* kernel: the clients waiting for accept
    toServer,     \* kernel: sent by a client and not yet read
    toClient,     \* kernel: sent to a client and not yet received
    peer,         \* a client's end: "idle", "open" or "closed"
    received,     \* a client's buffer of a reply in pieces
    db,           \* the data behind Database::execute
    pending,      \* history: an honest client's requests not yet executed
    due,          \* history: the replies it has not taken yet
    requests, faults  \* how many there were

loop     == <<server, connections, readCb, writeCb, batch, handler>>
network  == <<backlog, toServer, toClient>>
client   == <<peer, received, requests>>
history  == <<pending, due>>
vars     == <<loop, conn, network, client, db, history, faults>>

NoConnection == [fd |-> NoFd, state |-> "CLOSED", input |-> << >>,
                 output |-> << >>, offset |-> 0]

NewConnection(fd) == [NoConnection EXCEPT !.fd = fd, !.state = "READING"]

Init ==
    /\ server = "starting"
    /\ connections = [fd \in Fds |-> Nobody]
    /\ readCb = [fd \in Fds \cup {ServerFd} |-> Nobody]
    /\ writeCb = [fd \in Fds |-> Nobody]
    /\ batch = {}
    /\ handler = Nobody
    /\ conn = [c \in Clients |-> NoConnection]
    /\ backlog = << >>
    /\ toServer = [c \in Clients |-> << >>]
    /\ toClient = [c \in Clients |-> << >>]
    /\ peer = [c \in Clients |-> "idle"]
    /\ received = [c \in Clients |-> << >>]
    /\ db = << >>
    /\ pending = [c \in Clients |-> << >>]
    /\ due = [c \in Clients |-> << >>]
    /\ requests = [c \in Clients |-> 0]
    /\ faults = 0

\* One failure of kind f.
Fault(f) ==
    /\ f \in Faults
    /\ faults < MaxFaults
    /\ faults' = faults + 1

Drop(s, n) == SubSeq(s, n + 1, Len(s))

-----------------------------------------------------------------------------
(***************************************************************************)
(* The callbacks of EventLoop.  When kevent refuses a registration, no     *)
(* callback is left, not even an earlier one.                              *)
(***************************************************************************)

AddRead(fd, who, registered) ==
    readCb' = [readCb EXCEPT ![fd] = IF registered THEN who ELSE Nobody]

AddWrite(fd, who, registered) ==
    writeCb' = [writeCb EXCEPT ![fd] = IF registered THEN who ELSE Nobody]

RemoveWrite(fd) == writeCb' = [writeCb EXCEPT ![fd] = Nobody]

Remove(fd) ==
    /\ readCb' = [readCb EXCEPT ![fd] = Nobody]
    /\ writeCb' = [f \in Fds |-> IF f = fd THEN Nobody ELSE writeCb[f]]

-----------------------------------------------------------------------------
(***************************************************************************)
(* Clients and the network.                                                *)
(***************************************************************************)

\* connect_to_server.
Connect(c) ==
    /\ server = "running"
    /\ peer[c] = "idle"
    /\ peer' = [peer EXCEPT ![c] = "open"]
    /\ backlog' = Append(backlog, c)
    /\ UNCHANGED <<loop, conn, toServer, toClient, received, requests, db,
                   history, faults>>

\* run_cli up to send_all: a line that create_frame refuses is not sent, and
\* the next one waits for the reply.  What was sent arrives piece by piece.
Send(c, line) ==
    /\ peer[c] = "open"
    /\ requests[c] < MaxRequests[c]
    /\ line # << >>
    /\ IF c \in Raw
       THEN /\ toServer' = [toServer EXCEPT ![c] = @ \o RawFrame(line)]
            /\ UNCHANGED pending
       ELSE /\ CreateFrame(line) # << >>
            /\ Len(pending[c]) + Len(due[c]) < Window
            /\ toServer' = [toServer EXCEPT ![c] = @ \o CreateFrame(line)]
            /\ pending' = [pending EXCEPT ![c] = Append(@, line)]
    /\ requests' = [requests EXCEPT ![c] = @ + 1]
    /\ UNCHANGED <<loop, conn, backlog, toClient, peer, received, db, due,
                   faults>>

\* receive_response: recv takes what the socket holds.
ReceiveBytes(c) ==
    /\ peer[c] = "open"
    /\ \A r \in TryExtractFrame(received[c]) : ~r.found
    /\ toClient[c] # << >>
    /\ received' = [received EXCEPT ![c] = @ \o toClient[c]]
    /\ toClient' = [toClient EXCEPT ![c] = << >>]
    /\ UNCHANGED <<loop, conn, backlog, toServer, peer, requests, db, history,
                   faults>>

\* receive_response: a complete frame is the reply.  The CLI starts the next
\* one with an empty buffer, and with its window of 1 there is nothing behind
\* a reply; a client with a larger window keeps what is.
TakeReply(c) ==
    /\ peer[c] = "open"
    /\ \E r \in TryExtractFrame(received[c]) :
        /\ r.found
        /\ received' = [received EXCEPT ![c] = r.rest]
    /\ due' = [due EXCEPT ![c] = Drop(@, 1)]
    /\ UNCHANGED <<loop, conn, network, peer, requests, db, pending, faults>>

\* The client ends, at EXIT, at the end of its input, after a failed send or
\* recv, or because it is killed.  How much of what it sent still arrives is
\* left to HandleEndOfStream.
ClientClose(c) ==
    /\ peer[c] = "open"
    /\ peer' = [peer EXCEPT ![c] = "closed"]
    /\ toClient' = [toClient EXCEPT ![c] = << >>]
    /\ received' = [received EXCEPT ![c] = << >>]
    /\ UNCHANGED <<loop, conn, backlog, toServer, requests, db, history, faults>>

Client(c) ==
    \/ Connect(c)
    \/ \E line \in Lines[c] : Send(c, line)
    \/ ReceiveBytes(c)
    \/ TakeReply(c)
    \/ ClientClose(c)

-----------------------------------------------------------------------------
(***************************************************************************)
(* Starting and stopping.                                                  *)
(***************************************************************************)

\* Server::initialize: the listening socket, registered with the loop.
Initialize ==
    /\ server = "starting"
    /\ server' = "running"
    /\ AddRead(ServerFd, Listener, TRUE)
    /\ UNCHANGED <<connections, writeCb, batch, handler, conn, network, client,
                   db, history, faults>>

\* socket, setsockopt, bind, listen, fcntl or add_read fails: main returns.
InitializeFails ==
    /\ server = "starting"
    /\ Fault("listen")
    /\ server' = "stopped"
    /\ UNCHANGED <<connections, readCb, writeCb, batch, handler, conn, network,
                   client, db, history>>

\* Server::stop from its destructor, or the end of the process.
Stop ==
    /\ server' = "stopped"
    /\ connections' = [fd \in Fds |-> Nobody]
    /\ readCb' = [fd \in Fds \cup {ServerFd} |-> Nobody]
    /\ writeCb' = [fd \in Fds |-> Nobody]
    /\ batch' = {}
    /\ handler' = Nobody
    /\ conn' = [c \in Clients |-> NoConnection]
    /\ backlog' = << >>
    /\ toServer' = [c \in Clients |-> << >>]

-----------------------------------------------------------------------------
(***************************************************************************)
(* EventLoop::run.  Events are level-triggered: one is ready as long as    *)
(* its callback is registered and there is something to accept or read, or *)
(* room to write.  A client that ended makes its socket readable (end of   *)
(* file) and writable (an error).                                          *)
(***************************************************************************)

Ready ==
    {e \in {<<ServerFd, "read">>} :
        readCb[ServerFd] = Listener /\ backlog # << >>}
    \cup {e \in Fds \X {"read"} :
        LET c == readCb[e[1]]
        IN c # Nobody /\ (toServer[c] # << >> \/ peer[c] = "closed")}
    \cup {e \in Fds \X {"write"} :
        LET c == writeCb[e[1]]
        IN c # Nobody /\ (Len(toClient[c]) < SendBuffer \/ peer[c] = "closed")}

InLoop == server = "running" /\ handler = Nobody

\* kevent returns some of the ready events, in any order.
WaitEvents ==
    /\ InLoop
    /\ batch = {}
    /\ batch' \in {b \in SUBSET Ready : b # {} /\ Cardinality(b) <= MaxEvents}
    /\ UNCHANGED <<server, connections, readCb, writeCb, handler, conn, network,
                   client, db, history, faults>>

\* kevent fails for another reason than a signal: run returns, and main with
\* it, which destroys the server.
LoopFails ==
    /\ InLoop
    /\ batch = {}
    /\ Fault("kevent")
    /\ Stop
    /\ UNCHANGED <<toClient, client, db, history>>

\* EV_ERROR: EventLoop::remove.
EventError(e) ==
    /\ InLoop
    /\ e \in batch
    /\ Fault("event")
    /\ batch' = batch \ {e}
    /\ Remove(e[1])
    /\ UNCHANGED <<server, connections, handler, conn, network, client, db,
                   history>>

Callback(e) == IF e[2] = "read" THEN readCb[e[1]] ELSE writeCb[e[1]]

\* The event is for a descriptor that an earlier callback of the batch gave
\* up: nobody is registered for it any more.
IgnoreEvent(e) ==
    /\ InLoop
    /\ e \in batch
    /\ Callback(e) = Nobody
    /\ batch' = batch \ {e}
    /\ UNCHANGED <<server, connections, readCb, writeCb, handler, conn, network,
                   client, db, history, faults>>

-----------------------------------------------------------------------------
(***************************************************************************)
(* Server::handle_accept.                                                  *)
(***************************************************************************)

HandleAccept(e) ==
    /\ InLoop
    /\ e \in batch
    /\ Callback(e) = Listener
    /\ batch' = batch \ {e}
    /\ handler' = Listener
    /\ UNCHANGED <<server, connections, readCb, writeCb, conn, network, client,
                   db, history, faults>>

FreeFds == {fd \in Fds : \A c \in Clients : conn[c].fd # fd}

\* The descriptor accept returns: the smallest that is free.
NewFd == CHOOSE fd \in FreeFds : \A f \in FreeFds : fd <= f

\* The next waiting client gets a Connection, which start() registers; the
\* result of add_read is not looked at.
AcceptClient ==
    /\ handler = Listener
    /\ backlog # << >>
    /\ FreeFds # {}
    /\ LET c == Head(backlog)  fd == NewFd IN
        /\ conn' = [conn EXCEPT ![c] = NewConnection(fd)]
        /\ connections' = [connections EXCEPT ![fd] = c]
        /\ \/ AddRead(fd, c, TRUE) /\ UNCHANGED faults
           \/ AddRead(fd, c, FALSE) /\ Fault("register")
    /\ backlog' = Tail(backlog)
    /\ UNCHANGED <<server, writeCb, batch, handler, toServer, toClient, client,
                   db, history>>

\* set_non_blocking fails: the client's socket is closed.
AcceptRefuses ==
    /\ handler = Listener
    /\ backlog # << >>
    /\ FreeFds # {}
    /\ Fault("nonblock")
    /\ toServer' = [toServer EXCEPT ![Head(backlog)] = << >>]
    /\ backlog' = Tail(backlog)
    /\ UNCHANGED <<loop, conn, toClient, client, db, history>>

\* accept fails: nobody is waiting, or the process has no descriptor left.
AcceptDone ==
    /\ handler = Listener
    /\ backlog = << >> \/ FreeFds = {}
    /\ handler' = Nobody
    /\ UNCHANGED <<server, connections, readCb, writeCb, batch, conn, network,
                   client, db, history, faults>>

-----------------------------------------------------------------------------
(***************************************************************************)
(* Connection.                                                             *)
(***************************************************************************)

\* Server::remove_connection, which destroys the Connection.
RemoveConnection(c) ==
    /\ connections' = [connections EXCEPT ![conn[c].fd] = Nobody]
    /\ conn' = [conn EXCEPT ![c] = NoConnection]

\* Mutant: the callbacks stay in the event loop.
CloseKeepsCallbacks(c) ==
    /\ UNCHANGED <<readCb, writeCb>>
    /\ RemoveConnection(c)
    /\ toServer' = [toServer EXCEPT ![c] = << >>]

\* Connection::close: out of the event loop, ::close, which drops what was
\* not read, and the close handler.
Close(c) ==
    /\ Remove(conn[c].fd)
    /\ RemoveConnection(c)
    /\ toServer' = [toServer EXCEPT ![c] = << >>]

\* handle_readable: everything that has arrived goes into the input buffer,
\* then process_messages.
HandleReadable(e, c) ==
    /\ InLoop
    /\ e \in batch
    /\ e[2] = "read" /\ Callback(e) = c
    /\ toServer[c] # << >> \/ peer[c] = "open"
    /\ batch' = batch \ {e}
    /\ \E n \in IF toServer[c] = << >> THEN {0} ELSE 1..Len(toServer[c]) :
        /\ conn' = [conn EXCEPT ![c].input = @ \o SubSeq(toServer[c], 1, n)]
        /\ toServer' = [toServer EXCEPT ![c] = Drop(@, n)]
    /\ handler' = c
    /\ UNCHANGED <<server, connections, readCb, writeCb, backlog, toClient,
                   client, db, history, faults>>

\* handle_readable reads the last of what arrived, meets the end of the
\* stream or the client's reset, and closes the connection without processing
\* what it has read.
HandleEndOfStream(e, c) ==
    /\ InLoop
    /\ e \in batch
    /\ e[2] = "read" /\ Callback(e) = c
    /\ peer[c] = "closed"
    /\ batch' = batch \ {e}
    /\ Close(c)
    /\ UNCHANGED <<server, handler, backlog, toClient, client, db, history,
                   faults>>

\* Mutant: writing is not enabled.
QueueResponseQuietly(c, rest, response, registered) ==
    /\ conn' = [conn EXCEPT
                    ![c].input = rest,
                    ![c].output = @ \o CreateFrame(response),
                    ![c].state = "WRITING"]
    /\ UNCHANGED <<readCb, writeCb, connections, toServer>>

\* queue_response for a response that can be framed.  enable_writing calls
\* add_write and does not look at its result.
QueueResponse(c, rest, response, registered) ==
    /\ conn' = [conn EXCEPT
                    ![c].input = rest,
                    ![c].output = @ \o CreateFrame(response),
                    ![c].state = "WRITING"]
    /\ AddWrite(conn[c].fd, c, registered)
    /\ UNCHANGED <<readCb, connections, toServer>>

\* The rest of a turn of process_messages.  A response that cannot be framed
\* closes the connection, and so destroys the object whose loop is still
\* under way: handler stays.
Respond(c, rest, response, registered) ==
    /\ IF c \in Raw
       THEN UNCHANGED history
       ELSE /\ pending' = [pending EXCEPT ![c] = Drop(@, 1)]
            /\ due' = [due EXCEPT ![c] = Append(@, response)]
    /\ IF CreateFrame(response) = << >>
       THEN Close(c)
       ELSE QueueResponse(c, rest, response, registered)
    /\ UNCHANGED <<server, batch, handler, backlog, toClient, client>>

\* One turn of process_messages with a complete frame: parse, execute and
\* queue the response.  execute may return an error or throw, with or
\* without an effect on the data.
ProcessMessage(c) ==
    /\ handler = c
    /\ conn[c].state # "CLOSED"
    /\ \E r \in TryExtractFrame(conn[c].input) :
        /\ r.found
        /\ LET command == ParseCommand(r.payload) IN
            \/ /\ db' = Effect(command, db)
               /\ Respond(c, r.rest, Reply(command, db), TRUE)
               /\ UNCHANGED faults
            \/ /\ Fault("register")
               /\ db' = Effect(command, db)
               /\ Respond(c, r.rest, Reply(command, db), FALSE)
            \/ /\ Fault("database")
               /\ db' \in {db, Effect(command, db)}
               /\ Respond(c, r.rest, Error, TRUE)

\* No complete frame is left: back to the event loop.
ProcessDone(c) ==
    /\ handler = c
    /\ conn[c].state # "CLOSED"
    /\ \E r \in TryExtractFrame(conn[c].input) :
        /\ ~r.found
        /\ conn' = [conn EXCEPT ![c].input = r.rest]
    /\ handler' = Nobody
    /\ UNCHANGED <<server, connections, readCb, writeCb, batch, network, client,
                   db, history, faults>>

\* Mutant: what was sent is not counted, and is sent again.
SendSomeAgain(c) ==
    LET sent == conn[c].offset + SendBuffer - Len(toClient[c])
    IN /\ sent < Len(conn[c].output)
       /\ toClient' = [toClient EXCEPT ![c] =
                        @ \o SubSeq(conn[c].output, conn[c].offset + 1, sent)]
       /\ UNCHANGED <<conn, writeCb, handler>>

\* handle_writable when the socket does not take all of the output: send
\* ends with EAGAIN, and the loop waits for the next event.
SendSome(c) ==
    LET sent == conn[c].offset + SendBuffer - Len(toClient[c])
    IN /\ sent < Len(conn[c].output)
       /\ conn' = [conn EXCEPT ![c].offset = sent]
       /\ toClient' = [toClient EXCEPT ![c] =
                        @ \o SubSeq(conn[c].output, conn[c].offset + 1, sent)]
       /\ UNCHANGED <<writeCb, handler>>

\* Mutant: the offset into the output buffer is not set back.
WrittenKeepsOffset(c) ==
    /\ conn' = [conn EXCEPT ![c].output = << >>, ![c].state = "READING",
                            ![c].offset = Len(conn[c].output)]
    /\ RemoveWrite(conn[c].fd)
    /\ handler' = c

\* The end of handle_writable: disable_writing and process_messages.
Written(c) ==
    /\ conn' = [conn EXCEPT ![c].output = << >>, ![c].state = "READING",
                            ![c].offset = 0]
    /\ RemoveWrite(conn[c].fd)
    /\ handler' = c

\* handle_writable with all of the output sent.
SendAll(c) ==
    /\ Len(conn[c].output) - conn[c].offset <= SendBuffer - Len(toClient[c])
    /\ toClient' = [toClient EXCEPT ![c] = @ \o Drop(conn[c].output, conn[c].offset)]
    /\ Written(c)

HandleWritable(e, c) ==
    /\ InLoop
    /\ e \in batch
    /\ e[2] = "write" /\ Callback(e) = c
    /\ peer[c] = "open"
    /\ batch' = batch \ {e}
    /\ SendSome(c) \/ SendAll(c)
    /\ UNCHANGED <<server, connections, readCb, backlog, toServer, client, db,
                   history, faults>>

\* handle_writable when the client has ended: send may still succeed, into
\* the void, or fail, and then the connection is closed.
HandleWritableClosed(e, c) ==
    /\ InLoop
    /\ e \in batch
    /\ e[2] = "write" /\ Callback(e) = c
    /\ peer[c] = "closed"
    /\ batch' = batch \ {e}
    /\ \/ Written(c) /\ UNCHANGED <<connections, readCb, toServer>>
       \/ Close(c) /\ UNCHANGED handler
    /\ UNCHANGED <<server, backlog, toClient, client, db, history, faults>>

\* SIGPIPE, which send raises on a connection that the peer has reset, ends
\* the process: the code neither ignores the signal nor asks send not to.
BrokenPipe(e, c) ==
    /\ InLoop
    /\ e \in batch
    /\ e[2] = "write" /\ Callback(e) = c
    /\ peer[c] = "closed"
    /\ Stop
    /\ UNCHANGED <<toClient, client, db, history, faults>>

\* recv or send fails although the client is there: handle_readable or
\* handle_writable closes the connection, with what it had read, or with the
\* rest of the output behind what send had taken.
SocketError(e, c) ==
    LET unsent == Drop(conn[c].output, conn[c].offset)
    IN /\ InLoop
       /\ e \in batch
       /\ Callback(e) = c
       /\ peer[c] = "open"
       /\ Fault("socket")
       /\ batch' = batch \ {e}
       /\ \/ e[2] = "read" /\ UNCHANGED toClient
          \/ /\ e[2] = "write"
             /\ \E n \in 0 .. SendBuffer - Len(toClient[c]) :
                /\ n < Len(unsent)
                /\ toClient' = [toClient EXCEPT ![c] = @ \o SubSeq(unsent, 1, n)]
       /\ Close(c)
       /\ UNCHANGED <<server, handler, backlog, client, db, history>>

-----------------------------------------------------------------------------

Accept == AcceptClient \/ AcceptRefuses \/ AcceptDone

Dispatch ==
    \E e \in batch :
        \/ EventError(e)
        \/ IgnoreEvent(e)
        \/ HandleAccept(e)
        \/ \E c \in Clients :
            \/ HandleReadable(e, c)
            \/ HandleEndOfStream(e, c)
            \/ HandleWritable(e, c)
            \/ HandleWritableClosed(e, c)
            \/ BrokenPipe(e, c)
            \/ SocketError(e, c)

Process == \E c \in Clients : ProcessMessage(c) \/ ProcessDone(c)

ServerStep ==
    \/ Initialize \/ InitializeFails
    \/ WaitEvents \/ LoopFails
    \/ Dispatch
    \/ Accept
    \/ Process

Next == ServerStep \/ \E c \in Clients : Client(c)

\* The server's thread keeps running, and so does a client that waits for a
\* reply.  Nobody has to connect, to send, to end, or to fail.
Fairness ==
    /\ WF_vars(ServerStep)
    /\ \A c \in Clients : WF_vars(ReceiveBytes(c) \/ TakeReply(c))

Spec == Init /\ [][Next]_vars

FairSpec == Spec /\ Fairness

-----------------------------------------------------------------------------
(***************************************************************************)
(* Properties.                                                             *)
(***************************************************************************)

\* Every variable keeps its type: in particular a connection is CLOSED
\* exactly when it has no descriptor, and never sends from beyond the end of
\* its output buffer (connection.cpp:16-75, 212-270).
TypeOK ==
    /\ server \in {"starting", "running", "stopped"}
    /\ connections \in [Fds -> Clients \cup {Nobody}]
    /\ readCb \in [Fds \cup {ServerFd} -> Clients \cup {Listener, Nobody}]
    /\ writeCb \in [Fds -> Clients \cup {Nobody}]
    /\ batch \subseteq (Fds \cup {ServerFd}) \X {"read", "write"}
    /\ handler \in Clients \cup {Listener, Nobody}
    /\ peer \in [Clients -> {"idle", "open", "closed"}]
    /\ \A c \in Clients :
        /\ conn[c].fd \in Fds \cup {NoFd}
        /\ conn[c].state \in {"READING", "WRITING", "CLOSED"}
        /\ conn[c].state = "CLOSED" <=> conn[c].fd = NoFd
        /\ conn[c].offset \in 0..Len(conn[c].output)
        /\ Len(toClient[c]) <= SendBuffer
    /\ faults \in 0..MaxFaults

Waiting(c) == \E i \in DOMAIN backlog : backlog[i] = c

Served(c) == conn[c].state # "CLOSED"

\* However the stream is cut into pieces, what a connection has buffered and
\* what is still on its way are the frames of exactly the requests that were
\* not executed yet: none is lost, executed twice, out of order or under a
\* wrong boundary (connection.cpp:77-166, protocol.cpp:32-77).  A client that
\* ends loses its last requests only, and one that sends oversized frames
\* garbles no requests but its own.
RequestsArriveInOrder ==
    \A c \in Honest :
        Served(c) \/ Waiting(c) =>
            conn[c].input \o toServer[c] = Frames(pending[c])

\* A client gets the replies to its own requests, whole and in the order of
\* the requests, whatever part of them each send takes: what it has received,
\* what is on its way and what the output buffer still holds are the frames of
\* the replies that it has not taken yet (connection.cpp:168-195, 212-284).
RepliesComeInOrder ==
    \A c \in Honest :
        peer[c] = "open" /\ Served(c) =>
            received[c] \o toClient[c] \o Drop(conn[c].output, conn[c].offset)
                = Frames(due[c])

\* A callback in the event loop belongs to the connection that owns its
\* descriptor now, although a descriptor is closed and given to another
\* client while events for it are still in the batch (connection.cpp:56-75,
\* event_loop.cpp:187-226, server.cpp:264-322).
CallbacksAreLive ==
    /\ \A fd \in Fds :
        /\ readCb[fd] # Nobody => readCb[fd] = connections[fd]
        /\ writeCb[fd] # Nobody => writeCb[fd] = connections[fd]
        /\ \A c \in Clients : connections[fd] = c <=> conn[c].fd = fd

\* process_messages never goes on in a Connection that close() has already
\* destroyed: every response it queues can be framed, because a stored value
\* is shorter than the message that brought it (connection.cpp:131, 178-186).
HandlerIsLive == handler \in Clients => Served(handler)

\* A connection between two callbacks has output left if and only if it is
\* WRITING and registered for writing; otherwise the reply would wait for an
\* event that never comes, or the loop would spin on a socket that is always
\* writable (connection.cpp:188-194, 269-274).  Registration must succeed.
WritesAreArmed ==
    \A c \in Clients :
        Served(c) =>
            LET unsent == conn[c].offset < Len(conn[c].output)
            IN /\ unsent <=> conn[c].state = "WRITING"
               /\ unsent <=> writeCb[conn[c].fd] = c

\* Every request of a client that stays gets its reply: no frame that is
\* complete stays in a buffer, no reply waits for another request, and no
\* client waits for another, unless the server ends (connection.cpp:77-284,
\* event_loop.cpp:153-228).
RequestsAreAnswered ==
    \A c \in Honest :
        (pending[c] # << >> \/ due[c] # << >>)
            ~> \/ pending[c] = << >> /\ due[c] = << >>
               \/ peer[c] = "closed"
               \/ server = "stopped"
=============================================================================
