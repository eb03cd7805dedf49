---------------------------- MODULE BridgeClient ----------------------------
(***************************************************************************)
(* rebo::BridgeClient (driver/src/net.hpp): the TCP client that links the  *)
(* SteamVR driver to bridge.exe.                                           *)
(*                                                                         *)
(* Two threads share it.  The network thread runs run(): connect_once(),   *)
(* read_loop(), close, again.  The owner is the driver's frame thread: it  *)
(* calls send() and drain() while frames run and stop() at the end.  The   *)
(* kernel, the peer and the rest of vrserver, which opens and closes       *)
(* descriptors of its own in the same process, are the environment.        *)
(*                                                                         *)
(* A descriptor is a number that the kernel hands out again once it is     *)
(* closed; sock says what each one names at the moment.  The incoming byte *)
(* stream is a sequence of <<frame, i>>: byte i of that frame.             *)
(***************************************************************************)
EXTENDS Naturals, Sequences, FiniteSets

CONSTANTS
    Fds,          \* descriptors of the process
    NoFd,         \* -1
    Kinds,        \* kinds of message the owner sends
    Values,       \* their contents
    None,
    Frames,       \* frames the app may send: [len, msg]
    Garbage,      \* the msg of a payload that decode() rejects
    HeaderLen,    \* bytes of a length prefix (4)
    MaxPayload,   \* longest accepted payload (65536)
    NumAddrs,     \* addresses getaddrinfo() returns
    PollTries,    \* polls of 200 ms in wait_connected() (15)
    MaxGen,       \* bound: connections the bridge accepts
    MaxRx         \* bound: frames the app sends on one connection

ASSUME ClientAssumption ==
    /\ NoFd \notin Fds
    /\ None \notin Values
    /\ Frames \subseteq [len : Nat, msg : {f.msg : f \in Frames}]
    /\ HeaderLen \in Nat \ {0}
    /\ MaxPayload \in Nat
    /\ NumAddrs \in Nat
    /\ PollTries \in Nat
    /\ MaxGen \in Nat
    /\ MaxRx \in Nat

VARIABLES
    stop_, fd_, generation_, queue_, send_mutex_,
    npc, fd, addr, tries, buf,            \* the network thread
    opc, msg, ofd,                        \* the owner
    sock, wire, peerOpen,                 \* the kernel and the peer
    out, torn,                            \* history of connection generation_
    rx, got                               \* frames sent to us, messages decoded

netVars  == <<npc, fd, addr, tries, buf>>
ownVars  == <<opc, msg, ofd>>
kernVars == <<sock, wire, peerOpen>>
histVars == <<out, torn, rx, got>>
vars     == <<stop_, fd_, generation_, queue_, send_mutex_, netVars, ownVars,
              kernVars, histVars>>

InMsgs  == {f.msg : f \in Frames} \ {Garbage}
Nothing == [k \in Kinds |-> None]

\* A frame as bytes, and the decoder's view of the bytes at the front of a
\* buffer: the length the first HeaderLen bytes spell and the message the
\* next n bytes spell.
Encode(f)    == [i \in 1..(HeaderLen + f.len) |-> <<f, i>>]
LengthAt(b)  == b[1][1].len
Payload(b)   == SubSeq(b, HeaderLen + 1, HeaderLen + LengthAt(b))
DecodeAt(b)  ==
    LET f == b[1][1]
    IN  IF Payload(b) = SubSeq(Encode(f), HeaderLen + 1, HeaderLen + f.len)
        THEN f.msg
        ELSE Garbage

\* Mutant: the payload is dropped from the buffer without its length prefix.
RestShort(b) == SubSeq(b, LengthAt(b) + 1, Len(b))

Rest(b) == SubSeq(b, HeaderLen + LengthAt(b) + 1, Len(b))

Init ==
    /\ stop_ = FALSE
    /\ fd_ = NoFd
    /\ generation_ = 0
    /\ queue_ = << >>
    /\ send_mutex_ = "free"
    /\ npc = "loop" /\ fd = NoFd /\ addr = 1 /\ tries = 0 /\ buf = << >>
    /\ opc = "idle" /\ msg = <<None, None>> /\ ofd = NoFd
    /\ sock \in [Fds -> {"free", "other"}]
    /\ wire = << >>
    /\ peerOpen = FALSE
    /\ out = Nothing
    /\ torn = FALSE
    /\ rx = << >>
    /\ got = << >>

-----------------------------------------------------------------------------
(* connect_once() and wait_connected() *)

ConnectUnchanged ==
    UNCHANGED <<stop_, fd_, generation_, queue_, send_mutex_, buf, ownVars,
                out, torn>>

\* while (!stop_) and getaddrinfo().
Resolve ==
    /\ npc = "loop"
    /\ IF stop_
       THEN npc' = "done" /\ UNCHANGED addr
       ELSE npc' \in {"socket", "backoff"} /\ addr' = 1
    /\ UNCHANGED <<fd, tries, kernVars, rx, got>>
    /\ ConnectUnchanged

\* Mutant: the end of the address list is not noticed.
SocketPastEnd ==
    /\ npc = "socket"
    /\ addr' = addr + 1
    /\ addr <= NumAddrs + 1
    /\ UNCHANGED <<npc, fd, sock, tries, wire, peerOpen, rx, got>>
    /\ ConnectUnchanged

\* socket(): a free descriptor, a failure, or no address left to try.
Socket ==
    /\ npc = "socket"
    /\ \/ /\ addr <= NumAddrs
          /\ \E f \in Fds :
                /\ sock[f] = "free"
                /\ sock' = [sock EXCEPT ![f] = "opening"]
                /\ fd' = f
          /\ npc' = "connect"
          /\ UNCHANGED addr
       \/ /\ addr <= NumAddrs
          /\ addr' = addr + 1
          /\ UNCHANGED <<npc, fd, sock>>
       \/ /\ addr > NumAddrs
          /\ npc' = "backoff"
          /\ UNCHANGED <<addr, fd, sock>>
    /\ UNCHANGED <<tries, wire, peerOpen, rx, got>>
    /\ ConnectUnchanged

\* The connection exists: the peer can send from here on.
Established ==
    /\ generation_ < MaxGen
    /\ npc' = "announce"
    /\ sock' = [sock EXCEPT ![fd] = "conn"]
    /\ wire' = << >> /\ peerOpen' = TRUE
    /\ rx' = << >> /\ got' = << >>
    /\ UNCHANGED <<fd, addr, tries>>

\* Mutant: the descriptor of a failed attempt is not closed.
AbandonLeaks ==
    /\ npc' = "socket"
    /\ fd' = NoFd
    /\ addr' = addr + 1
    /\ UNCHANGED <<sock, tries, wire, peerOpen, rx, got>>

\* close(fd); fd = -1; the next address.
Abandon ==
    /\ npc' = "socket"
    /\ sock' = [sock EXCEPT ![fd] = "free"]
    /\ fd' = NoFd
    /\ addr' = addr + 1
    /\ UNCHANGED <<tries, wire, peerOpen, rx, got>>

Connect ==
    /\ npc = "connect"
    /\ \/ Established
       \/ Abandon
       \/ /\ npc' = "wait"                              \* EINPROGRESS
          /\ tries' = 0
          /\ UNCHANGED <<fd, addr, kernVars, rx, got>>
    /\ ConnectUnchanged

WaitConnected ==
    /\ npc = "wait"
    /\ IF tries = PollTries \/ stop_
       THEN Abandon
       ELSE \/ Established
            \/ Abandon
            \/ /\ tries' = tries + 1                    \* timeout or EINTR
               /\ UNCHANGED <<npc, fd, addr, kernVars, rx, got>>
    /\ ConnectUnchanged

\* Sleeps of 100 ms, cut short by stop_.
Backoff ==
    /\ npc = "backoff"
    /\ npc' = "loop"
    /\ UNCHANGED <<fd, addr, tries, kernVars, rx, got>>
    /\ ConnectUnchanged

-----------------------------------------------------------------------------
(* run(): a connection's life, and read_loop() *)

\* Mutant: a reconnection is not counted.
AnnounceUncounted ==
    /\ npc = "announce"
    /\ npc' = "publish"
    /\ out' = Nothing /\ torn' = FALSE
    /\ UNCHANGED <<stop_, fd_, generation_, queue_, send_mutex_, fd, addr, tries,
                   buf, ownVars, kernVars, rx, got>>

\* ++generation_, then fd_ = fd: two atomics, two steps.
Announce ==
    /\ npc = "announce"
    /\ npc' = "publish"
    /\ generation_' = generation_ + 1
    /\ out' = Nothing /\ torn' = FALSE
    /\ UNCHANGED <<stop_, fd_, queue_, send_mutex_, fd, addr, tries, buf,
                   ownVars, kernVars, rx, got>>

Publish ==
    /\ npc = "publish"
    /\ npc' = "poll"
    /\ fd_' = fd
    /\ buf' = << >>
    /\ UNCHANGED <<stop_, generation_, queue_, send_mutex_, fd, addr, tries,
                   ownVars, kernVars, histVars>>

ReadUnchanged ==
    UNCHANGED <<stop_, fd_, generation_, send_mutex_, fd, addr, tries, ownVars,
                sock, peerOpen, out, torn, rx>>

\* recv() would return at once.
Readable == wire # << >> \/ ~peerOpen \/ sock[fd] = "shut"

ReadStep(from, to) ==
    /\ npc = from
    /\ npc' = to
    /\ UNCHANGED <<buf, wire, queue_, got>>
    /\ ReadUnchanged

\* A timeout or EINTR of poll() only repeats the loop: no step.
PollStop  == ReadStep("poll", "lock") /\ stop_
PollReady == ReadStep("poll", "recv") /\ ~stop_ /\ Readable

\* Mutant: the reader carries on to recv() after a failed poll().
PollFailsIntoRecv == ReadStep("poll", "recv") /\ ~stop_

PollFails == ReadStep("poll", "lock") /\ ~stop_

RecvData ==
    /\ npc = "recv"
    /\ \E n \in 1..Len(wire) :
          /\ buf' = buf \o SubSeq(wire, 1, n)
          /\ wire' = SubSeq(wire, n + 1, Len(wire))
    /\ npc' = "parse"
    /\ UNCHANGED <<queue_, got>>
    /\ ReadUnchanged

\* recv() <= 0: the peer is gone, or send() has shut the socket down.
RecvEnd ==
    /\ ReadStep("recv", "lock")
    /\ wire = << >> /\ Readable

RecvInterrupted == ReadStep("recv", "poll")

\* One turn of the framing loop.
Parse ==
    /\ npc = "parse"
    /\ \/ /\ Len(buf) < HeaderLen
          /\ npc' = "poll"
          /\ UNCHANGED <<buf, queue_, got>>
       \/ /\ Len(buf) >= HeaderLen /\ LengthAt(buf) > MaxPayload
          /\ npc' = "lock"
          /\ UNCHANGED <<buf, queue_, got>>
       \/ /\ Len(buf) >= HeaderLen /\ LengthAt(buf) <= MaxPayload
          /\ Len(buf) < HeaderLen + LengthAt(buf)
          /\ npc' = "poll"
          /\ UNCHANGED <<buf, queue_, got>>
       \/ /\ Len(buf) >= HeaderLen /\ LengthAt(buf) <= MaxPayload
          /\ Len(buf) >= HeaderLen + LengthAt(buf)
          /\ got' = Append(got, DecodeAt(buf))
          /\ queue_' = IF DecodeAt(buf) = Garbage
                       THEN queue_
                       ELSE Append(queue_, [gen |-> generation_,
                                            msg |-> DecodeAt(buf)])
          /\ buf' = Rest(buf)
          /\ UNCHANGED npc
    /\ UNCHANGED wire
    /\ ReadUnchanged

CloseUnchanged ==
    UNCHANGED <<stop_, generation_, queue_, addr, tries, buf, ownVars, wire,
                peerOpen, histVars>>

\* Mutant: the connection is taken down without the mutex of send().
LockNothing ==
    /\ npc = "lock"
    /\ npc' = "clear"
    /\ UNCHANGED <<fd_, fd, sock, send_mutex_>>
    /\ CloseUnchanged

Lock ==
    /\ npc = "lock"
    /\ send_mutex_ = "free"
    /\ send_mutex_' = "net"
    /\ npc' = "clear"
    /\ UNCHANGED <<fd_, fd, sock>>
    /\ CloseUnchanged

Clear ==
    /\ npc = "clear"
    /\ fd_' = NoFd
    /\ npc' = "close"
    /\ UNCHANGED <<fd, sock, send_mutex_>>
    /\ CloseUnchanged

Close ==
    /\ npc = "close"
    /\ sock' = [sock EXCEPT ![fd] = "free"]
    /\ fd' = NoFd
    /\ npc' = "unlock"
    /\ UNCHANGED <<fd_, send_mutex_>>
    /\ CloseUnchanged

\* Mutant: the way back to the top of run() leaves the mutex locked.
UnlockForgets ==
    /\ npc = "unlock"
    /\ npc' = "loop"
    /\ UNCHANGED <<fd_, fd, sock, send_mutex_>>
    /\ CloseUnchanged

Unlock ==
    /\ npc = "unlock"
    /\ send_mutex_' = "free"
    /\ npc' = "loop"
    /\ UNCHANGED <<fd_, fd, sock>>
    /\ CloseUnchanged

-----------------------------------------------------------------------------
(* The owner: send(), drain(), stop() *)

SendUnchanged ==
    UNCHANGED <<stop_, fd_, generation_, queue_, netVars, wire, peerOpen, rx,
                got>>

\* The call: it now waits for send_mutex_.
SendCall(k, v) ==
    /\ opc = "idle"
    /\ opc' = "lock"
    /\ msg' = <<k, v>>
    /\ UNCHANGED <<send_mutex_, ofd, sock, out, torn>>
    /\ SendUnchanged

SendLock ==
    /\ opc = "lock"
    /\ send_mutex_ = "free"
    /\ send_mutex_' = "owner"
    /\ opc' = "load"
    /\ UNCHANGED <<msg, ofd, sock, out, torn>>
    /\ SendUnchanged

SendLoad ==
    /\ opc = "load"
    /\ ofd' = fd_
    /\ opc' = IF fd_ = NoFd THEN "unlock" ELSE "write"
    /\ UNCHANGED <<msg, send_mutex_, sock, out, torn>>
    /\ SendUnchanged

\* Mutant: a short write is treated like a full socket buffer.
SendWriteForgets ==
    /\ opc = "write"
    /\ \/ /\ sock[ofd] = "conn"
          /\ out' = [out EXCEPT ![msg[1]] = msg[2]]
          /\ UNCHANGED torn
       \/ /\ sock[ofd] = "conn"
          /\ torn' = TRUE
          /\ UNCHANGED out
    /\ opc' = "unlock"
    /\ UNCHANGED <<msg, ofd, send_mutex_, sock>>
    /\ SendUnchanged

\* ::send(): everything, EAGAIN, a part, or an error; after shutdown() always
\* an error.
SendWrite ==
    /\ opc = "write"
    /\ \/ /\ sock[ofd] = "conn"
          /\ out' = [out EXCEPT ![msg[1]] = msg[2]]
          /\ opc' = "unlock"
          /\ UNCHANGED torn
       \/ /\ sock[ofd] = "conn"
          /\ opc' = "unlock"
          /\ UNCHANGED <<out, torn>>
       \/ /\ sock[ofd] = "conn"
          /\ torn' = TRUE
          /\ opc' = "shutdown"
          /\ UNCHANGED out
       \/ /\ opc' = "shutdown"
          /\ UNCHANGED <<out, torn>>
    /\ UNCHANGED <<msg, ofd, send_mutex_, sock>>
    /\ SendUnchanged

SendShutdown ==
    /\ opc = "shutdown"
    /\ sock' = [sock EXCEPT ![ofd] = "shut"]
    /\ opc' = "unlock"
    /\ UNCHANGED <<msg, ofd, send_mutex_, out, torn>>
    /\ SendUnchanged

SendUnlock ==
    /\ opc = "unlock"
    /\ send_mutex_' = "free"
    /\ opc' = "idle"
    /\ msg' = <<None, None>> /\ ofd' = NoFd
    /\ UNCHANGED <<sock, out, torn>>
    /\ SendUnchanged

Drain ==
    /\ opc = "idle"
    /\ queue_' = << >>
    /\ UNCHANGED <<stop_, fd_, generation_, send_mutex_, netVars, ownVars,
                   kernVars, histVars>>

Stop ==
    /\ opc = "idle"
    /\ stop_' = TRUE
    /\ opc' = "join"
    /\ UNCHANGED <<fd_, generation_, queue_, send_mutex_, netVars, msg, ofd,
                   kernVars, histVars>>

Join ==
    /\ opc = "join"
    /\ npc = "done"
    /\ opc' = "stopped"
    /\ UNCHANGED <<stop_, fd_, generation_, queue_, send_mutex_, netVars, msg,
                   ofd, kernVars, histVars>>

-----------------------------------------------------------------------------
(* The peer and the rest of the process *)

EnvUnchanged ==
    UNCHANGED <<stop_, fd_, generation_, queue_, send_mutex_, netVars, ownVars,
                out, torn, got>>

PeerSend(f) ==
    /\ peerOpen
    /\ \E d \in Fds : sock[d] = "conn"
    /\ Len(rx) < MaxRx
    /\ wire' = wire \o Encode(f)
    /\ rx' = Append(rx, f)
    /\ UNCHANGED <<sock, peerOpen>>
    /\ EnvUnchanged

\* The peer closes; a reset also discards what was not read yet.
PeerClose ==
    /\ peerOpen
    /\ peerOpen' = FALSE
    /\ wire' \in {wire, << >>}
    /\ UNCHANGED <<sock, rx>>
    /\ EnvUnchanged

\* Other code in vrserver opens or closes a descriptor.
Other(f) ==
    /\ \/ sock[f] = "free"  /\ sock' = [sock EXCEPT ![f] = "other"]
       \/ sock[f] = "other" /\ sock' = [sock EXCEPT ![f] = "free"]
    /\ UNCHANGED <<wire, peerOpen, rx>>
    /\ EnvUnchanged

-----------------------------------------------------------------------------

\* What the network thread does by itself, and what the kernel may do to it.
NetStep ==
    \/ Resolve \/ Socket \/ Connect \/ WaitConnected \/ Backoff
    \/ Announce \/ Publish \/ PollStop \/ PollReady \/ RecvData \/ RecvEnd
    \/ Parse \/ Lock \/ Clear \/ Close \/ Unlock

Net == NetStep \/ PollFails \/ RecvInterrupted

\* The rest of a call of send() or stop() that has begun.
OwnerStep ==
    \/ SendLock \/ SendLoad \/ SendWrite \/ SendShutdown \/ SendUnlock
    \/ Join

Owner ==
    \/ \E k \in Kinds, v \in Values : SendCall(k, v)
    \/ OwnerStep
    \/ Drain
    \/ Stop

Environment ==
    \/ \E f \in Frames : PeerSend(f)
    \/ PeerClose
    \/ \E f \in Fds : Other(f)

Next == Net \/ Owner \/ Environment

Spec == Init /\ [][Next]_vars

\* Both threads run.  The mutex goes to a waiter that keeps seeing it free, and
\* a recv() that has something to return is not interrupted forever.
Fairness ==
    /\ WF_vars(NetStep) /\ SF_vars(Lock)
    /\ SF_vars(RecvData) /\ SF_vars(RecvEnd)
    /\ WF_vars(OwnerStep) /\ SF_vars(SendLock)

FairSpec == Spec /\ Fairness

-----------------------------------------------------------------------------
(* Properties *)

Connecting == {"connect", "wait"}
Connected  == {"announce", "publish", "poll", "recv", "parse", "lock", "clear",
               "close"}
Published  == {"poll", "recv", "parse", "lock", "clear"}

Bytes   == Frames \X Nat
Entries == [gen : 0..MaxGen, msg : InMsgs]
Decoded == InMsgs \cup {Garbage}

FlagsTypeOK == stop_ \in BOOLEAN /\ peerOpen \in BOOLEAN /\ torn \in BOOLEAN

ControlTypeOK ==
    /\ fd_ \in Fds \cup {NoFd}
    /\ generation_ \in 0..MaxGen
    /\ send_mutex_ \in {"free", "net", "owner"}
    /\ npc \in Connecting \cup Connected \cup
               {"loop", "socket", "backoff", "unlock", "done"}
    /\ fd \in Fds \cup {NoFd}
    /\ addr \in 1..(NumAddrs + 1)
    /\ tries \in 0..PollTries
    /\ opc \in {"idle", "lock", "load", "write", "shutdown", "unlock", "join",
                "stopped"}
    /\ ofd \in Fds \cup {NoFd}
    /\ sock \in [Fds -> {"free", "opening", "conn", "shut", "other"}]

DataTypeOK ==
    /\ queue_ \in Seq(Entries)
    /\ buf \in Seq(Bytes)
    /\ wire \in Seq(Bytes)
    /\ rx \in Seq(Frames)
    /\ got \in Seq(Decoded)

OutTypeOK ==
    /\ IF opc \in {"lock", "load", "write", "shutdown", "unlock"}
       THEN msg \in Kinds \X Values
       ELSE msg = <<None, None>>
    /\ out \in [Kinds -> Values \cup {None}]

\* Every variable keeps its type; addr stays within the list getaddrinfo()
\* returned or one past it.
TypeOK == FlagsTypeOK /\ ControlTypeOK /\ DataTypeOK /\ OutTypeOK

\* The inductive invariant behind the safety properties, part by part.

\* Which socket the network thread holds at each of its steps.
HoldInv ==
    /\ fd # NoFd <=> npc \in Connecting \cup Connected
    /\ npc \in Connecting => sock[fd] = "opening"
    /\ npc \in Connected => sock[fd] \in {"conn", "shut"}
    /\ \A f \in Fds : sock[f] \in {"opening", "conn", "shut"} => f = fd

\* An address is only tried while there is one.
AddrInv == npc \in Connecting => addr <= NumAddrs

\* What fd_ shows of it.
PubInv == fd_ = IF npc \in Published THEN fd ELSE NoFd

\* Who is inside send_mutex_.
MutexInv ==
    /\ send_mutex_ = "net" <=> npc \in {"clear", "close", "unlock"}
    /\ send_mutex_ = "owner" <=> opc \in {"load", "write", "shutdown", "unlock"}

\* The copy that send() made of fd_ is current while it is used.
OwnInv == opc \in {"write", "shutdown"} => ofd = fd_ /\ fd_ # NoFd

\* After a short write the socket is shut down, or is about to be by the thread
\* that still holds the mutex.
TornInv ==
    /\ torn /\ fd_ # NoFd => sock[fd_] = "shut" \/ opc = "shutdown"
    /\ npc = "publish" => ~torn

\* A connection about to be counted is within the bound.
GenInv == npc = "announce" => generation_ < MaxGen

\* send() loads fd_ and uses the number later, while the network thread may be
\* closing the connection and the rest of vrserver opening files.  The number
\* it writes to and shuts down still names this client's connection, never a
\* descriptor that was closed and perhaps reused.
FdSafe == opc \in {"write", "shutdown"} => sock[ofd] \in {"conn", "shut"}

\* No descriptor leaks, on any path through connect_once() and run(): the only
\* socket of this client that is open is the one the network thread holds, and
\* none is left once the thread has ended.
NoLeak ==
    /\ \A f \in Fds : sock[f] \in {"opening", "conn", "shut"} => f = fd
    /\ npc = "done" => fd = NoFd

\* recv() runs on a blocking socket, and stop() would wait for it: it is only
\* called when it has something to return.
NoBlockingRecv == npc = "recv" => Readable

IInv ==
    /\ TypeOK
    /\ HoldInv
    /\ AddrInv
    /\ PubInv
    /\ MutexInv
    /\ OwnInv
    /\ TornInv
    /\ GenInv
    /\ NoBlockingRecv

\* However the stream is cut into reads, the messages decoded on a connection
\* are the payloads of the frames the app sent, in order, none skipped and
\* none read across a frame boundary.
FramesInOrder ==
    /\ Len(got) <= Len(rx)
    /\ \A i \in 1..Len(got) : got[i] = rx[i].msg

\* A message cut off in the middle is the last thing on its connection: nothing
\* written after it could be parsed by the app.
NothingAfterTorn ==
    [][torn /\ generation_' = generation_ => torn' /\ out' = out]_vars

\* A cut message does end the connection: shutdown() wakes the reader, which
\* takes the connection down.
TornCloses == torn /\ fd_ # NoFd ~> fd_ = NoFd

\* send() returns: it waits only for a mutex that is always given back.  stop()
\* returns too, whatever the network thread was doing when it was called.
CallsReturn ==
    /\ opc = "lock" ~> opc = "idle"
    /\ opc = "join" ~> opc = "stopped"

-----------------------------------------------------------------------------
(* BridgeClient implements Link. *)

phase ==
    IF fd_ # NoFd THEN "up"
    ELSE IF npc = "publish" THEN "announced" ELSE "down"

L == INSTANCE Link WITH gen <- generation_, queue <- queue_

\* Seen from the frame thread, all of the above is a sequence of numbered
\* connections, whole messages and a queue.
ImplementsLink == L!LinkSpec

=============================================================================
