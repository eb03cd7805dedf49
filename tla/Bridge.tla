------------------------------- MODULE Bridge -------------------------------
(***************************************************************************)
(* The relay between the driver's TCP connection and the app's named pipe  *)
(* (bridge/bridge.c).                                                      *)
(*                                                                         *)
(* Two threads serve one session at a time: main accepts a client, waits   *)
(* for the pipe, moves frames from the socket to the pipe and tears the    *)
(* session down; a reader thread moves messages from the pipe to the       *)
(* socket.  They share the session: its socket, pipe handle and the        *)
(* closing flag.                                                           *)
(*                                                                         *)
(* A frame on the socket is two cells, its header and its payload, so that *)
(* a client can be gone between them.  A pipe message is one element.  An  *)
(* overlapped operation is pending until it completes, fails or is         *)
(* cancelled.                                                              *)
(***************************************************************************)
EXTENDS Naturals, Sequences, SequencesExt

CONSTANTS
    Frames,      \* frames of clients that fit into a pipe message
    Oversized,   \* frames of clients that do not (len > MAX_PAYLOAD)
    Messages,    \* pipe messages of the app whose header tells their length
    Malformed,   \* pipe messages of the app whose header does not
    TooLong,     \* pipe messages of the app longer than the buffer
    PipeSize,    \* messages the pipe holds on their way to the app
    SendSize,    \* messages the socket holds on their way to the client
    MaxSent,     \* bound: messages each side sends in a session
    None

ASSUME BridgeAssumption ==
    /\ PipeSize \in Nat \ {0} /\ SendSize \in Nat \ {0} /\ MaxSent \in Nat
    /\ Frames \cap Oversized = {}
    /\ Messages \cap (Malformed \cup TooLong) = {} /\ Malformed \cap TooLong = {}
    /\ None \notin Frames \cup Oversized \cup Messages

VARIABLES
    mpc, frame,           \* main: where it is, the frame in its buffer
    rpc, message,         \* the reader: where it is, the message in its buffer
    closing,
    shut,                 \* shutdown(sock, SD_BOTH) was called
    rio, wio,             \* the overlapped read and write
    client,               \* the client's end of the connection
    inq, outq,            \* cells to the bridge, messages to the client
    half,                 \* the frame whose payload the client has yet to send
    server,               \* the app's pipe: "down", "free" or "busy"
    pipe,                 \* the bridge's handle: "none", "open" or "broken"
    appq, pipeq,          \* messages from the app, frames to the app
    clientSent, appGot, appSent, clientGot    \* history of the session

main    == <<mpc, frame>>
reader  == <<rpc, message>>
socket  == <<client, inq, outq, half, shut>>
app     == <<server, pipe, appq, pipeq>>
io      == <<rio, wio>>
history == <<clientSent, appGot, appSent, clientGot>>
vars    == <<main, reader, closing, socket, app, io, history>>

Init ==
    /\ mpc = "accept" /\ frame = None
    /\ rpc = "none" /\ message = None
    /\ closing = FALSE
    /\ rio = "none" /\ wio = "none"
    /\ client = "none" /\ inq = << >> /\ outq = << >> /\ half = None /\ shut = FALSE
    /\ server = "down" /\ pipe = "none" /\ appq = << >> /\ pipeq = << >>
    /\ clientSent = << >> /\ appGot = << >> /\ appSent = << >> /\ clientGot = << >>

-----------------------------------------------------------------------------
(* The driver, or whatever else connects to the port *)

ClientUnchanged == UNCHANGED <<main, reader, closing, shut, io, app, appGot, appSent>>

Connect ==
    /\ mpc = "accept" /\ client = "none"
    /\ client' = "open"
    /\ UNCHANGED <<inq, outq, half, clientSent, clientGot>>
    /\ ClientUnchanged

SendsHeader(m) ==
    /\ client = "open" /\ half = None
    /\ Len(clientSent) < MaxSent
    /\ inq' = Append(inq, <<"header", m>>)
    /\ half' = m
    /\ UNCHANGED <<client, outq, clientSent, clientGot>>
    /\ ClientUnchanged

SendsPayload ==
    /\ client = "open" /\ half # None
    /\ inq' = Append(inq, <<"payload", half>>)
    /\ clientSent' = Append(clientSent, half)
    /\ half' = None
    /\ UNCHANGED <<client, outq, clientGot>>
    /\ ClientUnchanged

ClientReads ==
    /\ client = "open"
    /\ outq # << >>
    /\ clientGot' = Append(clientGot, Head(outq))
    /\ outq' = Tail(outq)
    /\ UNCHANGED <<client, inq, half, clientSent>>
    /\ ClientUnchanged

ClientCloses ==
    /\ client = "open"
    /\ client' = "closed"
    /\ UNCHANGED <<inq, outq, half, clientSent, clientGot>>
    /\ ClientUnchanged

-----------------------------------------------------------------------------
(* The app behind the pipe *)

AppUnchanged == UNCHANGED <<main, reader, closing, socket, io, clientSent, clientGot>>

\* The app creates the pipe, or a new instance of it once the last is done.
AppServes ==
    /\ server # "free" /\ pipe = "none"
    /\ server' = "free"
    /\ UNCHANGED <<pipe, appq, pipeq, appGot, appSent>>
    /\ AppUnchanged

\* The app closes its end, or ends.  Messages not yet read may be lost.
AppCloses ==
    /\ server # "down"
    /\ server' = "down"
    /\ pipe' = IF pipe = "open" THEN "broken" ELSE pipe
    /\ appq' \in {appq, << >>}
    /\ pipeq' = << >>
    /\ UNCHANGED <<appGot, appSent>>
    /\ AppUnchanged

AppSends(m) ==
    /\ pipe = "open"
    /\ Len(appSent) < MaxSent
    /\ appq' = Append(appq, m)
    /\ appSent' = Append(appSent, m)
    /\ UNCHANGED <<server, pipe, pipeq, appGot>>
    /\ AppUnchanged

AppReads ==
    /\ pipe = "open"
    /\ pipeq # << >>
    /\ appGot' = Append(appGot, Head(pipeq))
    /\ pipeq' = Tail(pipeq)
    /\ UNCHANGED <<server, pipe, appq, appSent>>
    /\ AppUnchanged

-----------------------------------------------------------------------------
(* main: accept and open_pipe() *)

MainUnchanged == UNCHANGED <<frame, reader, closing, io, history>>

Accept ==
    /\ mpc = "accept" /\ client # "none"
    /\ mpc' = "create"
    /\ UNCHANGED <<socket, app>>
    /\ MainUnchanged

\* CreateFileA succeeds: both threads start to relay.
OpenPipe ==
    /\ mpc = "create" /\ server = "free"
    /\ pipe' = "open" /\ server' = "busy"
    /\ mpc' = "top" /\ rpc' = "top"
    /\ UNCHANGED <<frame, message, closing, io, history, socket, appq, pipeq>>

\* ERROR_PIPE_BUSY: WaitNamedPipeA.
PipeBusy ==
    /\ mpc = "create" /\ server = "busy"
    /\ mpc' = "sleep"
    /\ UNCHANGED <<socket, app>>
    /\ MainUnchanged

PipeMissing ==
    /\ mpc = "create" /\ server = "down"
    /\ mpc' = "select"
    /\ UNCHANGED <<socket, app>>
    /\ MainUnchanged

\* select() and the peek: nothing for a second, data, or the end of the stream.
Peek ==
    /\ mpc = "select"
    /\ \/ inq = << >> /\ client = "open" /\ mpc' = "create"
       \/ inq # << >> /\ mpc' = "sleep"
       \/ inq = << >> /\ client = "closed" /\ mpc' = "close"
    /\ UNCHANGED <<socket, app>>
    /\ MainUnchanged

Wake ==
    /\ mpc = "sleep"
    /\ mpc' = "create"
    /\ UNCHANGED <<socket, app>>
    /\ MainUnchanged

-----------------------------------------------------------------------------
(* main: sock_to_pipe() *)

WriterTop ==
    /\ mpc = "top"
    /\ mpc' = IF closing THEN "end" ELSE "header"
    /\ UNCHANGED <<socket, app>>
    /\ MainUnchanged

\* Mutant: an oversized frame is relayed like any other.
FitsAlways(m) == TRUE

Fits(m) == m \notin Oversized

\* recv_all() of the header and the check of the length.
RecvHeader ==
    /\ mpc = "header"
    /\ inq # << >>
    /\ frame' = Head(inq)[2]
    /\ inq' = Tail(inq)
    /\ mpc' = IF Fits(frame') THEN "payload" ELSE "end"
    /\ UNCHANGED <<reader, closing, io, history, client, outq, half, shut, app>>

\* recv_all() of the payload.
RecvPayload ==
    /\ mpc = "payload"
    /\ inq # << >>
    /\ inq' = Tail(inq)
    /\ mpc' = "write"
    /\ UNCHANGED <<frame, reader, closing, io, history, client, outq, half, shut, app>>

\* Mutant: the frame cut off by the end of the stream is relayed.
AfterCutWrites(pc) == IF pc = "header" THEN "end" ELSE "write"

AfterCut(pc) == "end"

\* recv() returns 0 or an error.  After the shutdown it may do so before the
\* data that has arrived is used up.
RecvFails ==
    /\ mpc \in {"header", "payload"}
    /\ shut \/ (inq = << >> /\ client = "closed")
    /\ mpc' = AfterCut(mpc)
    /\ UNCHANGED <<socket, app>>
    /\ MainUnchanged

\* pipe_io(TRUE): WriteFile, then the wait for its result.
WriteStart ==
    /\ mpc = "write"
    /\ wio' = "pending"
    /\ mpc' = "writing"
    /\ UNCHANGED <<frame, reader, closing, rio, history, socket, app>>

WriteDone ==
    /\ mpc = "writing" /\ wio = "pending"
    /\ pipe = "open" /\ Len(pipeq) < PipeSize
    /\ pipeq' = Append(pipeq, frame)
    /\ wio' = "none"
    /\ mpc' = "top"
    /\ UNCHANGED <<frame, reader, closing, rio, history, socket, server, pipe, appq>>

WriteFails ==
    /\ mpc = "writing"
    /\ wio = "cancelled" \/ pipe = "broken"
    /\ wio' = "none"
    /\ mpc' = "end"
    /\ UNCHANGED <<frame, reader, closing, rio, history, socket, app>>

-----------------------------------------------------------------------------
(* The reader: pipe_to_sock() *)

ReaderTop ==
    /\ rpc = "top"
    /\ rpc' = IF closing THEN "end" ELSE "read"
    /\ UNCHANGED <<main, message, closing, io, history, socket, app>>

\* pipe_io(FALSE): ReadFile, then the wait for its result.
ReadStart ==
    /\ rpc = "read"
    /\ rio' = "pending"
    /\ rpc' = "reading"
    /\ UNCHANGED <<main, message, closing, wio, history, socket, app>>

\* Mutant: the header of one message is compared with the length of the last.
DropsAfter(m) == m \in Malformed \/ message \in Malformed

Drops(m) == m \in Malformed

\* A message arrives.  A malformed one is dropped.
ReadDone ==
    /\ rpc = "reading" /\ rio = "pending"
    /\ appq # << >> /\ Head(appq) \notin TooLong
    /\ message' = Head(appq)
    /\ appq' = Tail(appq)
    /\ rio' = "none"
    /\ rpc' = IF Drops(message') THEN "top" ELSE "send"
    /\ UNCHANGED <<main, closing, wio, history, socket, server, pipe, pipeq>>

\* Cancelled, ERROR_BROKEN_PIPE or ERROR_MORE_DATA.
ReadFails ==
    /\ rpc = "reading"
    /\ \/ rio = "cancelled"
       \/ pipe = "broken" /\ appq = << >>
       \/ appq # << >> /\ Head(appq) \in TooLong
    /\ rio' = "none"
    /\ rpc' = "end"
    /\ UNCHANGED <<main, message, closing, wio, history, socket, app>>

Send ==
    /\ rpc = "send"
    /\ ~shut
    /\ Len(outq) < SendSize
    /\ outq' = Append(outq, message)
    /\ rpc' = "top"
    /\ UNCHANGED <<main, message, closing, io, history, client, inq, half, shut, app>>

SendFails ==
    /\ rpc = "send"
    /\ shut \/ client = "closed"
    /\ rpc' = "end"
    /\ UNCHANGED <<main, message, closing, io, history, socket, app>>

-----------------------------------------------------------------------------
(* end_session(), by either thread: InterlockedExchange, shutdown, CancelIoEx.
   The thread that finds closing set does nothing. *)

Cancelled(op) == IF op = "pending" THEN "cancelled" ELSE op

Ended(pc, next, exit) ==
    \/ pc = "end" /\ closing /\ next = exit
    \/ pc = "end" /\ ~closing /\ next = "shut"

EndMain ==
    /\ Ended(mpc, mpc', "join")
    /\ closing' = TRUE
    /\ UNCHANGED <<frame, reader, io, history, socket, app>>

EndReader ==
    /\ Ended(rpc, rpc', "exit")
    /\ closing' = TRUE
    /\ UNCHANGED <<main, message, io, history, socket, app>>

Shutdown ==
    /\ \/ mpc = "shut" /\ mpc' = "cancel" /\ UNCHANGED rpc
       \/ rpc = "shut" /\ rpc' = "cancel" /\ UNCHANGED mpc
    /\ shut' = TRUE
    /\ UNCHANGED <<frame, message, closing, io, history, client, inq, outq, half, app>>

Cancel ==
    /\ \/ mpc = "cancel" /\ mpc' = "join" /\ UNCHANGED rpc
       \/ rpc = "cancel" /\ rpc' = "exit" /\ UNCHANGED mpc
    /\ rio' = Cancelled(rio) /\ wio' = Cancelled(wio)
    /\ UNCHANGED <<frame, message, closing, history, socket, app>>

-----------------------------------------------------------------------------
(* main: the wait for the reader, and the end of the session *)

\* Mutant: one wait of 100 ms is thought to be enough.
JoinOnce ==
    /\ mpc = "join"
    /\ mpc' = "close"
    /\ UNCHANGED <<frame, reader, closing, io, history, socket, app>>

Join ==
    /\ mpc = "join" /\ rpc = "exit"
    /\ mpc' = "close"
    /\ rpc' = "none"
    /\ UNCHANGED <<frame, message, closing, io, history, socket, app>>

\* Mutant: WaitForSingleObject(thread, INFINITE).
JoinTimeoutWaits ==
    /\ mpc = "join" /\ rpc # "exit"
    /\ UNCHANGED vars

\* WAIT_TIMEOUT
JoinTimeout ==
    /\ mpc = "join" /\ rpc # "exit"
    /\ rio = "pending" \/ wio = "pending"
    /\ rio' = Cancelled(rio) /\ wio' = Cancelled(wio)
    /\ UNCHANGED <<main, reader, closing, history, socket, app>>

\* CloseHandle, closesocket and the next turn of the loop, with a new session.
Close ==
    /\ mpc = "close"
    /\ mpc' = "accept" /\ frame' = None
    /\ message' = None /\ closing' = FALSE
    /\ client' = "none" /\ inq' = << >> /\ outq' = << >> /\ half' = None /\ shut' = FALSE
    /\ pipe' = "none" /\ appq' = << >> /\ pipeq' = << >>
    /\ clientSent' = << >> /\ appGot' = << >> /\ appSent' = << >> /\ clientGot' = << >>
    /\ UNCHANGED <<rpc, io, server>>

-----------------------------------------------------------------------------

MainStep ==
    \/ Accept \/ OpenPipe \/ PipeBusy \/ PipeMissing \/ Peek \/ Wake
    \/ WriterTop \/ RecvHeader \/ RecvPayload \/ RecvFails
    \/ WriteStart \/ WriteDone \/ WriteFails
    \/ EndMain
    \/ Join \/ JoinTimeout \/ Close

ReaderStep ==
    \/ ReaderTop \/ ReadStart \/ ReadDone \/ ReadFails
    \/ Send \/ SendFails
    \/ EndReader

EndStep == Shutdown \/ Cancel

Client ==
    \/ Connect \/ ClientReads \/ ClientCloses \/ SendsPayload
    \/ \E m \in Frames \cup Oversized : SendsHeader(m)

App ==
    \/ AppServes \/ AppCloses \/ AppReads
    \/ \E m \in Messages \cup Malformed \cup TooLong : AppSends(m)

Next == MainStep \/ ReaderStep \/ EndStep \/ Client \/ App

Spec == Init /\ [][Next]_vars

\* Both threads run.  A client that is connected and an app that has its end
\* open read what they are sent.
Fairness ==
    /\ WF_vars(MainStep) /\ WF_vars(ReaderStep) /\ WF_vars(EndStep)
    /\ WF_vars(ClientReads) /\ WF_vars(AppReads)

FairSpec == Spec /\ Fairness

-----------------------------------------------------------------------------
(* Properties *)

OpStates == {"none", "pending", "cancelled"}

\* Every variable keeps its type; in particular only frames that fit are ever
\* written to the pipe (MAX_PAYLOAD, bridge.c:131), and only messages whose
\* header tells their length reach the client (bridge.c:87).
TypeOK ==
    /\ mpc \in {"accept", "create", "select", "sleep", "top", "header",
                "payload", "write", "writing", "end", "shut", "cancel", "join",
                "close"}
    /\ frame \in Frames \cup Oversized \cup {None}
    /\ rpc \in {"none", "top", "read", "reading", "send", "end", "shut",
                "cancel", "exit"}
    /\ message \in Messages \cup Malformed \cup {None}
    /\ closing \in BOOLEAN /\ shut \in BOOLEAN
    /\ rio \in OpStates /\ wio \in OpStates
    /\ client \in {"none", "open", "closed"}
    /\ inq \in Seq({"header", "payload"} \X (Frames \cup Oversized))
    /\ half \in Frames \cup Oversized \cup {None}
    /\ outq \in Seq(Messages) /\ clientGot \in Seq(Messages)
    /\ server \in {"down", "free", "busy"} /\ pipe \in {"none", "open", "broken"}
    /\ appq \in Seq(Messages \cup Malformed \cup TooLong)
    /\ appSent \in Seq(Messages \cup Malformed \cup TooLong)
    /\ pipeq \in Seq(Frames) /\ appGot \in Seq(Frames)
    /\ clientSent \in Seq(Frames \cup Oversized)

\* The handle, the socket and the session on main's stack outlive every use of
\* them by the reader, however the end of the session and its last ReadFile
\* fall together.
HandleSafe ==
    rpc \notin {"none", "exit"} => pipe # "none" /\ client # "none"

\* The elements of q that are in S, in order.
Only(S, q) ==
    LET only[n \in 0 .. Len(q)] ==
            IF n = 0 THEN << >>
            ELSE IF q[n] \in S THEN Append(only[n - 1], q[n]) ELSE only[n - 1]
    IN  only[Len(q)]

Good(q) == Only(Messages, q)

\* What arrives on either side is a prefix of what this session's other side
\* sent: whole frames in order, nothing invented, cut off or left over from an
\* earlier session, whenever a client, the app or both end.
RelayedInOrder ==
    /\ IsPrefix(appGot \o pipeq, clientSent)
    /\ IsPrefix(clientGot \o outq, Good(appSent))

Payloads(q) ==
    LET cells == Only({"payload"} \X (Frames \cup Oversized), q)
    IN  [i \in 1 .. Len(cells) |-> cells[i][2]]

InHand(there, m) == IF there THEN <<m>> ELSE << >>

\* While both sides are there and the session is not ending, each frame and each
\* well-formed message is delivered, on its way, or in the hands of a thread.
NothingLost ==
    client = "open" /\ pipe = "open" /\ ~closing =>
        /\ clientSent = appGot \o pipeq
                \o InHand(mpc \in {"write", "writing"}, frame) \o Payloads(inq)
        /\ Good(appSent) = clientGot \o outq
                \o InHand(rpc = "send", message) \o Good(appq)

\* The end of a relayed client ends its session and makes the bridge ready for
\* the next, whether or not the reader was about to wait for the app.  So does
\* the end of the app, by disconnecting the client.
SessionEnds ==
    pipe = "broken" \/ (pipe # "none" /\ client = "closed") ~> mpc = "accept"

Waiting == mpc \in {"create", "select", "sleep"}

\* "The app may not be running yet. Retry until the TCP client disconnects."
\* (bridge.c:152): while the app is not running, the wait for its pipe ends
\* once the client is gone.
RetryUntilDisconnect ==
    Waiting /\ client = "closed" /\ server = "down" ~> ~Waiting \/ server # "down"

=============================================================================
