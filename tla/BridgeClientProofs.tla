------------------------- MODULE BridgeClientProofs -------------------------
(***************************************************************************)
(* Proofs about BridgeClient: its types, its safety properties and that it *)
(* implements Link, for any descriptors, frames, lengths and bounds.       *)
(***************************************************************************)
EXTENDS BridgeClient, TLAPS, SequenceTheorems

(***************************************************************************)
(* The byte stream.                                                        *)
(***************************************************************************)

\* The length field of a frame is a number.
LEMMA FrameLen == ASSUME NEW f \in Frames PROVE f.len \in Nat
  BY ClientAssumption

\* The bytes of a frame are bytes of the stream.
LEMMA EncodeType == ASSUME NEW f \in Frames PROVE Encode(f) \in Seq(Bytes)
  <1>1. f.len \in Nat /\ HeaderLen \in Nat
    BY FrameLen, ClientAssumption
  <1>2. DEFINE n == HeaderLen + f.len
  <1>3. n \in Nat
    BY <1>1
  <1>4. \A i \in 1..n : <<f, i>> \in Frames \X Nat
    BY <1>3
  <1>5. Encode(f) \in [1..n -> Frames \X Nat]
    BY <1>4 DEF Encode, Bytes
  <1> QED
    BY <1>3, <1>5 DEF Bytes

\* Reading the length off a buffer that holds a byte yields a number.
LEMMA LengthType ==
  ASSUME NEW b \in Seq(Bytes), Len(b) >= HeaderLen
  PROVE  b[1][1] \in Frames /\ LengthAt(b) \in Nat
  <1>1. b[1] \in Frames \X Nat
    BY ClientAssumption DEF Bytes
  <1>2. b[1][1] \in Frames
    BY <1>1
  <1> QED
    BY <1>1, <1>2, FrameLen DEF LengthAt

\* A decoded payload is a message or rejected.
LEMMA DecodeType ==
  ASSUME NEW b \in Seq(Bytes), Len(b) >= HeaderLen
  PROVE  DecodeAt(b) \in Decoded
  <1>1. b[1][1] \in Frames
    BY LengthType
  <1> QED
    BY <1>1 DEF DecodeAt, InMsgs, Decoded

\* Any part of a stream is a stream.
LEMMA SubStream ==
  ASSUME NEW b \in Seq(Bytes), NEW m \in Nat \ {0}, NEW n \in Nat, n <= Len(b)
  PROVE  SubSeq(b, m, n) \in Seq(Bytes)
  BY DEF Bytes

\* What is left after a whole frame is a stream.
LEMMA RestType ==
  ASSUME NEW b \in Seq(Bytes), Len(b) >= HeaderLen
  PROVE  Rest(b) \in Seq(Bytes)
  <1>1. LengthAt(b) \in Nat
    BY LengthType
  <1>2. HeaderLen + LengthAt(b) + 1 \in Nat \ {0} /\ Len(b) \in Nat
    BY <1>1, ClientAssumption DEF Bytes
  <1> QED
    BY <1>2, SubStream DEF Rest

(***************************************************************************)
(* The invariant.                                                          *)
(***************************************************************************)

\* The initial states satisfy the invariant.
LEMMA InitInv == Init => IInv
  <1> SUFFICES ASSUME Init PROVE IInv
    OBVIOUS
  <1>1. ControlTypeOK
    <2>1. sock \in [Fds -> {"free", "opening", "conn", "shut", "other"}]
      BY DEF Init
    <2> QED
      BY <2>1, ClientAssumption DEF Init, ControlTypeOK, Connecting, Connected
  <1>2. DataTypeOK
    BY DEF Init, DataTypeOK
  <1>3. OutTypeOK
    BY DEF Init, OutTypeOK, Nothing
  <1>4. HoldInv
    <2>1. \A f \in Fds : sock[f] \in {"free", "other"}
      BY DEF Init
    <2> QED
      BY <2>1 DEF Init, HoldInv, Connecting, Connected
  <1>5. /\ AddrInv /\ PubInv /\ MutexInv /\ OwnInv /\ TornInv /\ GenInv
        /\ NoBlockingRecv
    BY DEF Init, AddrInv, PubInv, MutexInv, OwnInv, TornInv, GenInv,
       NoBlockingRecv, Connecting, Published
  <1>6. FlagsTypeOK
    BY DEF Init, FlagsTypeOK
  <1> QED
    BY <1>1, <1>2, <1>3, <1>4, <1>5, <1>6 DEF IInv, TypeOK

\* Sequences: only five actions touch one.
LEMMA DataStep == IInv /\ [Next]_vars => DataTypeOK'
  <1> SUFFICES ASSUME IInv, [Next]_vars PROVE DataTypeOK'
    OBVIOUS
  <1>0. DataTypeOK
    BY DEF IInv, TypeOK
  <1>1. CASE UNCHANGED <<queue_, buf, wire, rx, got>>
    BY <1>0, <1>1 DEF DataTypeOK
  <1>2. CASE Established /\ UNCHANGED <<queue_, buf>>
    BY <1>0, <1>2 DEF DataTypeOK, Established
  <1>3. CASE Publish
    BY <1>0, <1>3 DEF DataTypeOK, Publish, kernVars, histVars
  <1>4. CASE RecvData
    <2>1. PICK n \in 1..Len(wire) :
            /\ buf' = buf \o SubSeq(wire, 1, n)
            /\ wire' = SubSeq(wire, n + 1, Len(wire))
      BY <1>4 DEF RecvData
    <2>2. wire \in Seq(Bytes) /\ buf \in Seq(Bytes) /\ Len(wire) \in Nat
      BY <1>0 DEF DataTypeOK
    <2>3. n \in Nat /\ 1 <= n /\ n <= Len(wire)
      BY <2>2
    <2>4. SubSeq(wire, 1, n) \in Seq(Bytes) /\ wire' \in Seq(Bytes)
      BY <2>1, <2>2, <2>3, SubStream
    <2>5. buf' \in Seq(Bytes)
      BY <2>1, <2>2, <2>4
    <2> QED
      BY <1>0, <1>4, <2>4, <2>5 DEF DataTypeOK, RecvData, ReadUnchanged
  <1>5. CASE Parse
    <2>0. buf \in Seq(Bytes) /\ generation_ \in 0..MaxGen
      BY <1>0 DEF DataTypeOK, IInv, TypeOK, ControlTypeOK
    <2>1. CASE /\ Len(buf) >= HeaderLen
               /\ got' = Append(got, DecodeAt(buf))
               /\ queue_' = IF DecodeAt(buf) = Garbage
                            THEN queue_
                            ELSE Append(queue_, [gen |-> generation_,
                                                 msg |-> DecodeAt(buf)])
               /\ buf' = Rest(buf)
      <3>1. DecodeAt(buf) \in Decoded /\ buf' \in Seq(Bytes)
        BY <2>0, <2>1, DecodeType, RestType
      <3>2. CASE DecodeAt(buf) = Garbage
        BY <1>0, <1>5, <2>1, <3>1, <3>2 DEF DataTypeOK, Parse, ReadUnchanged
      <3>3. CASE DecodeAt(buf) # Garbage
        <4>1. [gen |-> generation_, msg |-> DecodeAt(buf)] \in Entries
          BY <2>0, <3>1, <3>3 DEF Entries, Decoded
        <4> QED
          BY <1>0, <1>5, <2>1, <3>1, <3>3, <4>1 DEF DataTypeOK, Parse, ReadUnchanged
      <3> QED
        BY <3>2, <3>3
    <2>2. CASE UNCHANGED <<buf, queue_, got>>
      BY <1>0, <1>5, <2>2 DEF DataTypeOK, Parse, ReadUnchanged
    <2> QED
      BY <1>5, <2>1, <2>2 DEF Parse
  <1>6. CASE Drain
    BY <1>0, <1>6 DEF DataTypeOK, Drain, netVars, kernVars, histVars
  <1>7. ASSUME NEW f \in Frames, PeerSend(f) PROVE DataTypeOK'
    BY <1>0, <1>7, EncodeType DEF DataTypeOK, PeerSend, EnvUnchanged, netVars
  <1>8. CASE PeerClose
    <2>1. wire' \in Seq(Bytes)
      <3>1. wire' = wire \/ wire' = << >>
        BY <1>8 DEF PeerClose
      <3>2. wire \in Seq(Bytes)
        BY <1>0 DEF DataTypeOK
      <3>3. << >> \in Seq(Bytes)
        OBVIOUS
      <3> QED
        BY <3>1, <3>2, <3>3, Zenon
    <2>2. UNCHANGED <<queue_, buf, rx, got>>
      BY <1>8 DEF PeerClose, EnvUnchanged, netVars
    <2> QED
      BY <1>0, <2>1, <2>2 DEF DataTypeOK
  <1>9. CASE NetStep
    <2>1. \/ UNCHANGED <<queue_, buf, wire, rx, got>>
          \/ Established /\ UNCHANGED <<queue_, buf>>
          \/ Publish \/ RecvData \/ Parse
      BY <1>9 DEF NetStep, Resolve, Socket, Connect, WaitConnected, Abandon,
         Backoff, Announce, PollStop, PollReady, RecvEnd, ReadStep,
         ReadUnchanged, Lock, Clear, Close, Unlock, ConnectUnchanged,
         CloseUnchanged, kernVars, histVars
    <2> QED
      BY <2>1, <1>1, <1>2, <1>3, <1>4, <1>5
  <1>10. CASE Owner
    <2>1. UNCHANGED <<queue_, buf, wire, rx, got>> \/ Drain
      BY <1>10 DEF Owner, OwnerStep, SendCall, SendLock, SendLoad, SendWrite,
         SendShutdown, SendUnlock, Join, Stop, SendUnchanged, netVars,
         kernVars, histVars
    <2> QED
      BY <2>1, <1>1, <1>6
  <1>11. CASE Environment
    <2>1. \/ UNCHANGED <<queue_, buf, wire, rx, got>>
          \/ (\E f \in Frames : PeerSend(f)) \/ PeerClose
      BY <1>11 DEF Environment, Other, EnvUnchanged, netVars
    <2> QED
      BY <2>1, <1>1, <1>7, <1>8
  <1>12. CASE PollFails \/ RecvInterrupted \/ UNCHANGED vars
    <2>1. UNCHANGED <<queue_, buf, wire, rx, got>>
      BY <1>12 DEF PollFails, RecvInterrupted, ReadStep, ReadUnchanged, vars,
         netVars, kernVars, histVars
    <2> QED
      BY <2>1, <1>1
  <1> QED
    BY <1>9, <1>10, <1>11, <1>12 DEF Next, Net


\* Boolean flags.
LEMMA FlagsStep == IInv /\ [Next]_vars => FlagsTypeOK'
  <1> SUFFICES ASSUME IInv, [Next]_vars PROVE FlagsTypeOK'
    OBVIOUS
  <1>0. FlagsTypeOK
    BY DEF IInv, TypeOK
  <1>1. \/ UNCHANGED stop_ \/ stop_' = TRUE
    BY DEF Next, Net, NetStep, Owner, OwnerStep, Environment, Resolve, Socket,
       Connect, WaitConnected, Established, Abandon, Backoff, Announce, Publish,
       PollStop, PollReady, PollFails, RecvData, RecvEnd, RecvInterrupted,
       Parse, Lock, Clear, Close, Unlock, SendCall, SendLock, SendLoad,
       SendWrite, SendShutdown, SendUnlock, Join, Drain, Stop, PeerSend,
       PeerClose, Other, ConnectUnchanged, ReadStep, ReadUnchanged,
       CloseUnchanged, SendUnchanged, EnvUnchanged, vars, netVars, ownVars,
       kernVars, histVars
  <1>2. \/ UNCHANGED peerOpen \/ peerOpen' = TRUE \/ peerOpen' = FALSE
    BY DEF Next, Net, NetStep, Owner, OwnerStep, Environment, Resolve, Socket,
       Connect, WaitConnected, Established, Abandon, Backoff, Announce, Publish,
       PollStop, PollReady, PollFails, RecvData, RecvEnd, RecvInterrupted,
       Parse, Lock, Clear, Close, Unlock, SendCall, SendLock, SendLoad,
       SendWrite, SendShutdown, SendUnlock, Join, Drain, Stop, PeerSend,
       PeerClose, Other, ConnectUnchanged, ReadStep, ReadUnchanged,
       CloseUnchanged, SendUnchanged, EnvUnchanged, vars, netVars, ownVars,
       kernVars, histVars
  <1>3. \/ UNCHANGED torn \/ torn' = TRUE \/ torn' = FALSE
    BY DEF Next, Net, NetStep, Owner, OwnerStep, Environment, Resolve, Socket,
       Connect, WaitConnected, Established, Abandon, Backoff, Announce, Publish,
       PollStop, PollReady, PollFails, RecvData, RecvEnd, RecvInterrupted,
       Parse, Lock, Clear, Close, Unlock, SendCall, SendLock, SendLoad,
       SendWrite, SendShutdown, SendUnlock, Join, Drain, Stop, PeerSend,
       PeerClose, Other, ConnectUnchanged, ReadStep, ReadUnchanged,
       CloseUnchanged, SendUnchanged, EnvUnchanged, vars, netVars, ownVars,
       kernVars, histVars
  <1> QED
    BY <1>0, <1>1, <1>2, <1>3 DEF FlagsTypeOK

\* The control part of the invariant.
ControlInv ==
    /\ ControlTypeOK /\ HoldInv /\ AddrInv /\ PubInv /\ MutexInv /\ OwnInv
    /\ TornInv /\ GenInv

\* Steps of the network thread.
LEMMA ControlNet == ControlInv /\ Net => ControlInv'
  <1> SUFFICES ASSUME ControlInv, Net PROVE ControlInv'
    OBVIOUS
  <1> USE ClientAssumption DEF ControlInv, ControlTypeOK, HoldInv, AddrInv, PubInv,
          MutexInv, OwnInv, TornInv, GenInv, Connecting, Connected, Published,
          ownVars, kernVars, histVars
  <1>1. CASE Resolve
    BY <1>1 DEF Resolve, ConnectUnchanged
  <1>2. CASE Socket
    BY <1>2 DEF Socket, ConnectUnchanged
  <1>3. CASE Connect
    BY <1>3, SMTT(30) DEF Connect, Established, Abandon, ConnectUnchanged
  <1>4. CASE WaitConnected
    BY <1>4, SMTT(30) DEF WaitConnected, Established, Abandon, ConnectUnchanged
  <1>5. CASE Backoff
    BY <1>5 DEF Backoff, ConnectUnchanged
  <1>6. CASE Announce
    BY <1>6 DEF Announce
  <1>7. CASE Publish
    BY <1>7 DEF Publish
  <1>8. CASE PollStop
    BY <1>8 DEF PollStop, ReadStep, ReadUnchanged
  <1>9. CASE PollReady
    BY <1>9 DEF PollReady, ReadStep, ReadUnchanged
  <1>10. CASE RecvData
    BY <1>10 DEF RecvData, ReadUnchanged
  <1>11. CASE RecvEnd
    BY <1>11 DEF RecvEnd, ReadStep, ReadUnchanged
  <1>12. CASE Parse
    BY <1>12, SMTT(30) DEF Parse, ReadUnchanged
  <1>13. CASE Lock
    BY <1>13 DEF Lock, CloseUnchanged
  <1>14. CASE Clear
    BY <1>14 DEF Clear, CloseUnchanged
  <1>15. CASE Close
    BY <1>15 DEF Close, CloseUnchanged
  <1>16. CASE Unlock
    BY <1>16 DEF Unlock, CloseUnchanged
  <1>17. CASE PollFails
    BY <1>17 DEF PollFails, ReadStep, ReadUnchanged
  <1>18. CASE RecvInterrupted
    BY <1>18 DEF RecvInterrupted, ReadStep, ReadUnchanged
  <1> QED
    BY <1>1, <1>2, <1>3, <1>4, <1>5, <1>6, <1>7, <1>8, <1>9,
       <1>10, <1>11, <1>12, <1>13, <1>14, <1>15, <1>16, <1>17, <1>18 DEF Net, NetStep

\* Steps of the owner.
LEMMA ControlOwner == ControlInv /\ Owner => ControlInv'
  <1> SUFFICES ASSUME ControlInv, Owner PROVE ControlInv'
    OBVIOUS
  <1> USE ClientAssumption DEF ControlInv, ControlTypeOK, HoldInv, AddrInv, PubInv,
          MutexInv, OwnInv, TornInv, GenInv, Connecting, Connected, Published,
          netVars, ownVars, kernVars, histVars
  <1>1. CASE SendLock
    BY <1>1 DEF SendLock, SendUnchanged
  <1>2. CASE SendLoad
    BY <1>2 DEF SendLoad, SendUnchanged
  <1>3. CASE SendWrite
    BY <1>3 DEF SendWrite, SendUnchanged
  <1>4. CASE SendShutdown
    BY <1>4 DEF SendShutdown, SendUnchanged
  <1>5. CASE SendUnlock
    BY <1>5 DEF SendUnlock, SendUnchanged
  <1>6. CASE Join
    BY <1>6 DEF Join
  <1>7. CASE Drain
    BY <1>7 DEF Drain
  <1>8. CASE Stop
    BY <1>8 DEF Stop
  <1>9. ASSUME NEW k \in Kinds, NEW v \in Values, SendCall(k, v)
        PROVE  ControlInv'
    BY <1>9 DEF SendCall, SendUnchanged
  <1> QED
    BY <1>1, <1>2, <1>3, <1>4, <1>5, <1>6, <1>7, <1>8, <1>9 DEF Owner, OwnerStep

\* Steps of the peer and of the rest of the process.
LEMMA ControlEnv == ControlInv /\ Environment => ControlInv'
  <1> SUFFICES ASSUME ControlInv, Environment PROVE ControlInv'
    OBVIOUS
  <1> USE ClientAssumption DEF ControlInv, ControlTypeOK, HoldInv, AddrInv, PubInv,
          MutexInv, OwnInv, TornInv, GenInv, Connecting, Connected, Published,
          netVars, ownVars
  <1>1. CASE PeerClose \/ \E f \in Frames : PeerSend(f)
    BY <1>1 DEF PeerClose, PeerSend, EnvUnchanged
  <1>2. ASSUME NEW f \in Fds, Other(f) PROVE ControlInv'
    BY <1>2 DEF Other, EnvUnchanged
  <1> QED
    BY <1>1, <1>2 DEF Environment

\* The message being sent, and what was sent.
LEMMA OutStep == IInv /\ [Next]_vars => OutTypeOK'
  <1> SUFFICES ASSUME IInv, [Next]_vars PROVE OutTypeOK'
    OBVIOUS
  <1>0. OutTypeOK
    BY DEF IInv, TypeOK
  <1>1. CASE Announce
    <2>1. out' \in [Kinds -> Values \cup {None}]
      BY <1>1 DEF Announce, Nothing
    <2> QED
      BY <1>0, <1>1, <2>1 DEF OutTypeOK, Announce, ownVars
  <1>2. ASSUME NEW k \in Kinds, NEW v \in Values, SendCall(k, v)
        PROVE  OutTypeOK'
    BY <1>0, <1>2 DEF OutTypeOK, SendCall
  <1>3. CASE SendWrite
    <2>1. msg \in Kinds \X Values /\ msg' = msg /\ opc' \in {"unlock", "shutdown"}
      BY <1>0, <1>3 DEF OutTypeOK, SendWrite
    <2>2. msg[1] \in Kinds /\ msg[2] \in Values
      BY <2>1
    <2>3. out' = out \/ out' = [out EXCEPT ![msg[1]] = msg[2]]
      BY <1>3 DEF SendWrite
    <2>4. out' \in [Kinds -> Values \cup {None}]
      BY <1>0, <2>2, <2>3 DEF OutTypeOK
    <2> QED
      BY <2>1, <2>4 DEF OutTypeOK
  <1>4. CASE SendLock \/ SendLoad \/ SendShutdown \/ SendUnlock \/ Join \/ Stop
    BY <1>0, <1>4 DEF OutTypeOK, SendLock, SendLoad, SendShutdown, SendUnlock,
       Join, Stop, histVars
  <1>5. CASE UNCHANGED <<opc, msg, out>>
    BY <1>0, <1>5 DEF OutTypeOK
  <1>6. CASE Net
    <2>1. Announce \/ UNCHANGED <<opc, msg, out>>
      BY <1>6 DEF Net, NetStep, Resolve, Socket, Connect, WaitConnected,
         Backoff, Publish, PollStop, PollReady, PollFails, RecvData, RecvEnd,
         RecvInterrupted, ReadStep, ReadUnchanged, Parse, Lock, Clear, Close,
         Unlock, ConnectUnchanged, CloseUnchanged, ownVars, histVars
    <2> QED
      BY <2>1, <1>1, <1>5
  <1>7. CASE Drain \/ Environment \/ UNCHANGED vars
    <2>1. UNCHANGED <<opc, msg, out>>
      BY <1>7 DEF Drain, Environment, PeerSend, PeerClose, Other, EnvUnchanged,
         vars, ownVars, histVars
    <2> QED
      BY <2>1, <1>5
  <1> QED
    BY <1>2, <1>3, <1>4, <1>6, <1>7 DEF Next, Owner, OwnerStep

\* recv() is not called without something to return, and what there is to
\* return stays until the network thread takes it.
LEMMA RecvStep == IInv /\ [Next]_vars => NoBlockingRecv'
  <1> SUFFICES ASSUME IInv, [Next]_vars, npc' = "recv" PROVE Readable'
    BY DEF NoBlockingRecv
  <1>0. /\ npc = "recv" => Readable
        /\ npc = "recv" => fd \in Fds /\ sock[fd] \in {"conn", "shut"}
        /\ sock \in [Fds -> {"free", "opening", "conn", "shut", "other"}]
        /\ wire \in Seq(Bytes)
    BY DEF IInv, NoBlockingRecv, HoldInv, Connected, TypeOK, ControlTypeOK,
       DataTypeOK
  <1>1. CASE PollReady
    BY <1>1 DEF PollReady, Readable, ReadStep, ReadUnchanged
  <1>2. CASE npc = "recv" /\ UNCHANGED <<fd, wire, peerOpen, sock>>
    BY <1>0, <1>2 DEF Readable
  <1>3. CASE SendShutdown
    BY <1>0, <1>3 DEF SendShutdown, SendUnchanged, Readable, netVars, IInv,
       OwnInv, PubInv, Published
  <1>4. ASSUME NEW f \in Frames, PeerSend(f) PROVE Readable'
    <2>1. Encode(f) \in Seq(Bytes)
      BY EncodeType
    <2>2. wire # << >> => wire' # << >>
      BY <1>0, <1>4, <2>1 DEF PeerSend
    <2> QED
      BY <1>0, <1>4, <2>2 DEF PeerSend, EnvUnchanged, Readable, netVars
  <1>5. CASE PeerClose
    BY <1>5 DEF PeerClose, Readable
  <1>6. ASSUME NEW f \in Fds, Other(f) PROVE Readable'
    BY <1>0, <1>6 DEF Other, EnvUnchanged, Readable, netVars
  <1>7. CASE Net
    <2>1. PollReady \/ npc' # "recv"
      BY <1>7 DEF Net, NetStep, Resolve, Socket, Connect, WaitConnected,
         Established, Abandon, Backoff, Announce, Publish, PollStop, PollFails,
         RecvData, RecvEnd, RecvInterrupted, ReadStep, Parse, Lock, Clear,
         Close, Unlock
    <2> QED
      BY <1>1, <2>1
  <1>8. CASE Owner
    <2>1. \/ npc = "recv" /\ UNCHANGED <<fd, wire, peerOpen, sock>>
          \/ SendShutdown
      BY <1>8 DEF Owner, OwnerStep, SendCall, SendLock, SendLoad, SendWrite,
         SendUnlock, Join, Drain, Stop, SendUnchanged, netVars, kernVars
    <2> QED
      BY <1>2, <1>3, <2>1
  <1>9. CASE UNCHANGED vars
    BY <1>2, <1>9 DEF vars, netVars, kernVars
  <1> QED
    BY <1>4, <1>5, <1>6, <1>7, <1>8, <1>9 DEF Next, Environment

\* The invariant is inductive.
LEMMA StepInv == IInv /\ [Next]_vars => IInv'
  <1> SUFFICES ASSUME IInv, [Next]_vars PROVE IInv'
    OBVIOUS
  <1>1. ControlInv
    BY DEF IInv, TypeOK, ControlInv
  <1>2. ControlInv'
    <2>1. CASE UNCHANGED vars
      BY <1>1, <2>1 DEF ControlInv, ControlTypeOK, HoldInv, AddrInv, PubInv,
         MutexInv, OwnInv, TornInv, GenInv, vars, netVars, ownVars, kernVars,
         histVars
    <2> QED
      BY <1>1, <2>1, ControlNet, ControlOwner, ControlEnv DEF Next
  <1>3. FlagsTypeOK' /\ DataTypeOK' /\ OutTypeOK' /\ NoBlockingRecv'
    BY FlagsStep, DataStep, OutStep, RecvStep
  <1> QED
    BY <1>2, <1>3 DEF IInv, TypeOK, ControlInv

(***************************************************************************)
(* The theorems.                                                           *)
(***************************************************************************)

\* The invariant of net.hpp's two threads holds in every reachable state.
THEOREM Invariance == Spec => []IInv
  BY InitInv, StepInv, PTL DEF Spec

\* The variables keep their types.
THEOREM TypeCorrect == Spec => []TypeOK
  <1>1. IInv => TypeOK
    BY DEF IInv
  <1> QED
    BY <1>1, Invariance, PTL

\* send() never touches a descriptor that is closed or that another part of
\* vrserver has been given: fd_ is cleared and the socket closed under
\* send_mutex_, which send() holds from its load of fd_ to its last use.
THEOREM FdSafety == Spec => []FdSafe
  <1>1. IInv => FdSafe
    BY DEF IInv, FdSafe, OwnInv, PubInv, HoldInv, Published, Connected
  <1> QED
    BY <1>1, Invariance, PTL

\* No path through connect_once() and run() leaks a descriptor.
THEOREM LeakFreedom == Spec => []NoLeak
  <1>1. IInv => NoLeak
    BY DEF IInv, NoLeak, HoldInv, Connecting, Connected
  <1> QED
    BY <1>1, Invariance, PTL

\* The network thread never sits in a recv() that nothing will end.
THEOREM RecvReady == Spec => []NoBlockingRecv
  <1>1. IInv => NoBlockingRecv
    BY DEF IInv
  <1> QED
    BY <1>1, Invariance, PTL

\* After a short write nothing more goes out on that connection.
THEOREM TornIsLast == Spec => NothingAfterTorn
  <1>1. IInv /\ [Next]_vars
        => (torn /\ generation_' = generation_ => torn' /\ out' = out)
    <2> SUFFICES ASSUME IInv, [Next]_vars, torn, generation_' = generation_
                 PROVE  torn' /\ out' = out
      OBVIOUS
    <2>0. generation_ \in Nat
      BY ClientAssumption DEF IInv, TypeOK, ControlTypeOK
    <2>1. CASE Announce
      BY <2>0, <2>1 DEF Announce
    <2>2. CASE SendWrite
      <3>1. sock[ofd] # "conn"
        BY <2>2 DEF IInv, OwnInv, TornInv, SendWrite
      <3> QED
        BY <2>2, <3>1 DEF SendWrite
    <2>3. CASE UNCHANGED <<torn, out>>
      BY <2>3
    <2>4. Announce \/ SendWrite \/ UNCHANGED <<torn, out>>
      BY DEF Next, Net, NetStep, Owner, OwnerStep, Environment, Resolve, Socket,
       Connect, WaitConnected, Established, Abandon, Backoff, Publish,
       PollStop, PollReady, PollFails, RecvData, RecvEnd, RecvInterrupted,
       Parse, Lock, Clear, Close, Unlock, SendCall, SendLock, SendLoad,
       SendShutdown, SendUnlock, Join, Drain, Stop, PeerSend,
       PeerClose, Other, ConnectUnchanged, ReadStep, ReadUnchanged,
       CloseUnchanged, SendUnchanged, EnvUnchanged, vars, histVars
    <2> QED
      BY <2>1, <2>2, <2>3, <2>4
  <1>2. IInv /\ [Next]_vars =>
          [torn /\ generation_' = generation_ => torn' /\ out' = out]_vars
    BY <1>1
  <1> QED
    BY <1>2, Invariance, PTL DEF Spec, NothingAfterTorn

(***************************************************************************)
(* Refinement.  The phase of Link is a function of fd_ and of where the    *)
(* network thread is; the other variables are taken as they are.           *)
(***************************************************************************)

\* What the invariant says about the phase.
LEMMA PhaseAt ==
  ASSUME IInv
  PROVE  /\ npc \in Published <=> phase = "up"
         /\ npc = "publish" <=> phase = "announced"
  BY DEF IInv, PubInv, HoldInv, Published, Connected, phase

\* Every step of the two threads is one step of Link, or none.
LEMMA LinkStep == IInv /\ IInv' /\ [Next]_vars => [L!LinkNext]_(L!linkVars)
  <1> SUFFICES ASSUME IInv, IInv', [Next]_vars
               PROVE  L!LinkNext \/ UNCHANGED L!linkVars
    OBVIOUS
  <1>0. /\ npc \in Published <=> phase = "up"
        /\ npc = "publish" <=> phase = "announced"
        /\ phase \in {"down", "announced", "up"}
    BY PhaseAt DEF phase
  <1>1. /\ npc' \in Published <=> phase' = "up"
        /\ npc' = "publish" <=> phase' = "announced"
        /\ phase' \in {"down", "announced", "up"}
    BY DEF IInv, PubInv, HoldInv, Published, Connected, phase
  <1>2. CASE Announce
    <2>1. phase = "down" /\ phase' = "announced"
      BY <1>0, <1>1, <1>2 DEF Announce, Published
    <2>2. L!Announce
      BY <1>2, <2>1 DEF Announce, Nothing, L!Announce, L!Nothing
    <2> QED
      BY <2>2 DEF L!LinkNext
  <1>3. CASE Publish
    <2>1. phase = "announced" /\ phase' = "up"
      BY <1>0, <1>1, <1>3 DEF Publish, Published
    <2>2. L!Publish
      BY <1>3, <2>1 DEF Publish, L!Publish, histVars
    <2> QED
      BY <2>2 DEF L!LinkNext
  <1>4. CASE Clear
    <2>1. phase = "up" /\ phase' = "down"
      BY <1>0, <1>1, <1>4 DEF Clear, Published
    <2>2. L!Hangup
      BY <1>4, <2>1 DEF Clear, CloseUnchanged, L!Hangup, histVars
    <2> QED
      BY <2>2 DEF L!LinkNext
  <1>5. CASE Parse
    <2>0. phase = "up" /\ phase' = "up"
      BY <1>0, <1>1, <1>5 DEF Parse, Published
    <2>1. UNCHANGED <<generation_, out, torn, phase>>
      BY <1>5, <2>0 DEF Parse, ReadUnchanged
    <2>2. CASE UNCHANGED queue_
      BY <2>1, <2>2 DEF L!linkVars
    <2>3. CASE queue_' # queue_
      <3>1. /\ Len(buf) >= HeaderLen
            /\ DecodeAt(buf) # Garbage
            /\ queue_' = Append(queue_, [gen |-> generation_, msg |-> DecodeAt(buf)])
        BY <1>5, <2>3 DEF Parse
      <3>2. DecodeAt(buf) \in InMsgs
        BY <3>1, DecodeType DEF IInv, TypeOK, DataTypeOK, Decoded
      <3>3. L!Receive(DecodeAt(buf))
        BY <2>0, <2>1, <3>1 DEF L!Receive
      <3> QED
        BY <3>2, <3>3 DEF L!LinkNext
    <2> QED
      BY <2>2, <2>3
  <1>6. CASE Drain
    <2>1. UNCHANGED phase
      BY <1>6 DEF Drain, netVars, phase
    <2>2. L!Drain
      BY <1>6, <2>1 DEF Drain, L!Drain, histVars
    <2> QED
      BY <2>2 DEF L!LinkNext
  <1>7. CASE SendWrite
    <2>1. phase = "up" /\ phase' = "up"
      BY <1>7 DEF SendWrite, SendUnchanged, IInv, OwnInv, phase
    <2>2. UNCHANGED <<generation_, queue_, phase>>
      BY <1>7, <2>1 DEF SendWrite, SendUnchanged
    <2>3. CASE UNCHANGED <<out, torn>>
      BY <2>2, <2>3 DEF L!linkVars
    <2>4. CASE torn' = TRUE /\ UNCHANGED out
      <3>1. L!Tear
        BY <2>1, <2>2, <2>4 DEF L!Tear
      <3> QED
        BY <3>1 DEF L!LinkNext
    <2>5. CASE /\ sock[ofd] = "conn"
               /\ out' = [out EXCEPT ![msg[1]] = msg[2]]
               /\ UNCHANGED torn
      <3>1. ~torn
        BY <1>7, <2>5 DEF SendWrite, IInv, OwnInv, TornInv
      <3>2. msg[1] \in Kinds /\ msg[2] \in Values
        BY <1>7 DEF SendWrite, IInv, TypeOK, OutTypeOK
      <3>3. L!Deliver(msg[1], msg[2])
        BY <2>1, <2>2, <2>5, <3>1 DEF L!Deliver
      <3> QED
        BY <3>2, <3>3 DEF L!LinkNext
    <2> QED
      BY <1>7, <2>3, <2>4, <2>5 DEF SendWrite
  <1>8. CASE /\ UNCHANGED <<fd_, generation_, out, torn, queue_>>
             /\ npc = "publish" <=> npc' = "publish"
    <2>1. UNCHANGED phase
      BY <1>8 DEF phase
    <2> QED
      BY <1>8, <2>1 DEF L!linkVars
  <1>9. \/ Announce \/ Publish \/ Clear \/ Parse \/ Drain \/ SendWrite
        \/ /\ UNCHANGED <<fd_, generation_, out, torn, queue_>>
           /\ npc = "publish" <=> npc' = "publish"
    BY DEF Next, Net, NetStep, Owner, OwnerStep, Environment, Resolve, Socket,
       Connect, WaitConnected, Established, Abandon, Backoff, PollStop,
       PollReady, PollFails, RecvData, RecvEnd, RecvInterrupted, Lock, Close,
       Unlock, SendCall, SendLock, SendLoad, SendShutdown, SendUnlock, Join,
       Stop, PeerSend, PeerClose, Other, ConnectUnchanged, ReadStep,
       ReadUnchanged, CloseUnchanged, SendUnchanged, EnvUnchanged, vars,
       netVars, histVars
  <1> QED
    BY <1>2, <1>3, <1>4, <1>5, <1>6, <1>7, <1>8, <1>9

\* net.hpp keeps the promises of Link: its owner sees numbered connections,
\* whole messages and a queue, whatever the two threads and the kernel do.
THEOREM Refinement == Spec => ImplementsLink
  <1>1. Init => L!LinkInit
    BY DEF Init, L!LinkInit, phase, Nothing, L!Nothing
  <1> QED
    BY <1>1, LinkStep, Invariance, PTL DEF Spec, ImplementsLink, L!LinkSpec

(***************************************************************************)
(* The frames in the byte stream.                                          *)
(***************************************************************************)

\* What the reader has of the stream of this connection.
Buffer == IF npc \in {"announce", "publish"} THEN << >> ELSE buf

\* Byte k of a buffer b and what follows it on the wire w.
ByteAt(b, w, k) == IF k <= Len(b) THEN b[k] ELSE w[k - Len(b)]

\* The frames r take the bytes of the stream up to o[2], o[3], ...
Offsets(o, r) ==
    /\ \A i \in 1 .. Len(r) : o[i + 1] = o[i] + (HeaderLen + r[i].len)
    /\ \A i, j \in 1 .. Len(r) + 1 : i <= j => o[i] <= o[j]

\* b and w go on where frame n begins.
StreamAt(o, r, n, b, w) ==
    /\ Offsets(o, r)
    /\ o[n] + Len(b) + Len(w) <= o[Len(r) + 1]
    /\ \A k \in 1 .. Len(b) + Len(w) :
          \E i \in n .. Len(r) :
              /\ o[i] < o[n] + k /\ o[n] + k <= o[i + 1]
              /\ ByteAt(b, w, k) = <<r[i], (o[n] + k) - o[i]>>

\* They hold all of it.
Whole(o, r, n, b, w) == o[n] + Len(b) + Len(w) = o[Len(r) + 1]

\* The bytes not decoded yet are those of the frames not decoded yet, in order,
\* none of which is lost before the peer closes.
StreamInv ==
    npc \in Connected =>
        \E o \in [1 .. Len(rx) + 1 -> Nat] :
            /\ StreamAt(o, rx, Len(got) + 1, Buffer, wire)
            /\ peerOpen => Whole(o, rx, Len(got) + 1, Buffer, wire)

\* The offsets are numbers.
LEMMA OffsetNat ==
  ASSUME NEW r \in Seq(Frames), NEW o \in [1 .. Len(r) + 1 -> Nat]
  PROVE  /\ Len(r) \in Nat /\ Len(r) + 1 \in 1 .. Len(r) + 1
         /\ \A i \in 1 .. Len(r) + 1 : i \in Nat /\ o[i] \in Nat
  <1>1. Len(r) \in Nat
    BY LenProperties
  <1> QED
    BY <1>1

\* Bytes that are read move from the wire to the buffer.
LEMMA BytesMove ==
  ASSUME NEW b \in Seq(Bytes), NEW w \in Seq(Bytes), NEW m \in 1 .. Len(w),
         NEW r \in Seq(Frames), NEW n \in 1 .. Len(r) + 1,
         NEW o \in [1 .. Len(r) + 1 -> Nat], StreamAt(o, r, n, b, w)
  PROVE  LET c == b \o SubSeq(w, 1, m)
             x == SubSeq(w, m + 1, Len(w))
         IN  /\ StreamAt(o, r, n, c, x)
             /\ Whole(o, r, n, b, w) => Whole(o, r, n, c, x)
  <1> DEFINE y == SubSeq(w, 1, m)
             c == b \o y
             x == SubSeq(w, m + 1, Len(w))
  <1>1. Len(b) \in Nat /\ Len(w) \in Nat /\ m \in Nat /\ m <= Len(w)
    <2>1. Len(b) \in Nat /\ Len(w) \in Nat
      BY LenProperties
    <2> QED
      BY <2>1
  <1>2. /\ y \in Seq(Bytes) /\ Len(y) = m
        /\ \A k \in 1 .. m : y[k] = w[k]
    BY <1>1 DEF Bytes
  <1>3. /\ x \in Seq(Bytes) /\ Len(x) = Len(w) - m
        /\ \A k \in 1 .. Len(w) - m : x[k] = w[m + k]
    BY <1>1, SMTT(30) DEF Bytes
  <1> HIDE DEF y, x
  <1>4. /\ c \in Seq(Bytes) /\ Len(c) = Len(b) + m
        /\ \A k \in 1 .. Len(b) + m :
              c[k] = IF k <= Len(b) THEN b[k] ELSE y[k - Len(b)]
    BY <1>2, ConcatProperties
  <1> HIDE DEF c
  <1>5. ASSUME NEW k \in 1 .. Len(b) + Len(w) PROVE ByteAt(c, x, k) = ByteAt(b, w, k)
    <2>1. CASE k <= Len(b)
      <3>1. k <= Len(c) /\ c[k] = b[k]
        BY <1>1, <1>4, <2>1
      <3> QED
        BY <2>1, <3>1 DEF ByteAt
    <2>2. CASE ~(k <= Len(b)) /\ k <= Len(b) + m
      <3>1. k <= Len(c) /\ k - Len(b) \in 1 .. m /\ c[k] = y[k - Len(b)]
        BY <1>1, <1>4, <2>2
      <3>2. c[k] = w[k - Len(b)]
        BY <1>2, <3>1
      <3> QED
        BY <2>2, <3>1, <3>2 DEF ByteAt
    <2>3. CASE ~(k <= Len(b) + m)
      <3>1. /\ ~(k <= Len(b)) /\ ~(k <= Len(c))
            /\ k - Len(c) \in 1 .. Len(w) - m /\ m + (k - Len(c)) = k - Len(b)
        BY <1>1, <1>4, <2>3
      <3>2. x[k - Len(c)] = w[k - Len(b)]
        BY <1>3, <3>1
      <3> QED
        BY <3>1, <3>2 DEF ByteAt
    <2> QED
      BY <2>1, <2>2, <2>3
  <1>6. Len(c) + Len(x) = Len(b) + Len(w)
    BY <1>1, <1>3, <1>4
  <1>7. o[n] + Len(c) + Len(x) = o[n] + Len(b) + Len(w)
    <2>1. o[n] \in Nat
      BY OffsetNat
    <2> QED
      BY <1>1, <1>3, <1>4, <2>1
  <1>8. StreamAt(o, r, n, c, x)
    BY <1>5, <1>6, <1>7 DEF StreamAt
  <1> QED
    BY <1>7, <1>8 DEF Whole, c, x, y

\* The bytes at the front of a buffer are those of the next frame.
LEMMA FrontBytes ==
  ASSUME NEW b \in Seq(Bytes), NEW w \in Seq(Bytes),
         NEW r \in Seq(Frames), NEW n \in 1 .. Len(r) + 1,
         NEW o \in [1 .. Len(r) + 1 -> Nat], StreamAt(o, r, n, b, w),
         Len(b) >= HeaderLen
  PROVE  /\ n \in 1 .. Len(r) /\ LengthAt(b) = r[n].len
         /\ \A k \in 1 .. HeaderLen + r[n].len : k <= Len(b) => b[k] = <<r[n], k>>
  <1>0. /\ HeaderLen \in Nat \ {0} /\ Len(b) \in Nat /\ Len(w) \in Nat /\ Len(r) \in Nat
        /\ n \in Nat /\ \A i \in 1 .. Len(r) + 1 : o[i] \in Nat
    BY ClientAssumption, LenProperties, OffsetNat
  <1>1. n \in 1 .. Len(r)
    <2>1. 1 \in 1 .. Len(b) + Len(w)
      BY <1>0
    <2>2. PICK i \in n .. Len(r) : TRUE
      BY <2>1 DEF StreamAt
    <2> QED
      BY <1>0, <2>2
  <1>2. r[n].len \in Nat /\ o[n + 1] = o[n] + (HeaderLen + r[n].len)
    BY <1>1, FrameLen DEF StreamAt, Offsets
  <1>3. ASSUME NEW k \in 1 .. HeaderLen + r[n].len, k <= Len(b) PROVE b[k] = <<r[n], k>>
    <2>1. k \in 1 .. Len(b) + Len(w)
      BY <1>0, <1>2, <1>3
    <2>2. PICK i \in n .. Len(r) : /\ o[i] < o[n] + k
                                   /\ ByteAt(b, w, k) = <<r[i], (o[n] + k) - o[i]>>
      BY <2>1 DEF StreamAt
    <2>3. i = n
      <3>1. ASSUME i # n PROVE FALSE
        <4>1. /\ n + 1 \in 1 .. Len(r) + 1 /\ i \in 1 .. Len(r) + 1 /\ n + 1 <= i
          BY <1>0, <1>1, <3>1
        <4>2. o[n + 1] <= o[i]
          BY <4>1 DEF StreamAt, Offsets
        <4>3. o[n + 1] \in Nat /\ o[i] \in Nat /\ o[n] \in Nat
          BY <1>0, <1>1, <4>1
        <4> DEFINE d == HeaderLen + r[n].len
        <4>4. o[n + 1] = o[n] + d /\ d \in Nat
          <5>1. d \in Nat
            BY <1>0, <1>2, SMTT(30)
          <5>2. o[n + 1] = o[n] + d
            BY <1>2, Zenon
          <5> HIDE DEF d
          <5> QED
            BY <5>1, <5>2
        <4>5. k <= d /\ k \in Nat
          BY <1>0, <1>2
        <4>6. o[i] < o[n] + k
          BY <2>2
        <4> HIDE DEF d
        <4> QED
          BY <4>2, <4>3, <4>4, <4>5, <4>6
      <3> QED
        BY <3>1
    <2>4. (o[n] + k) - o[n] = k
      BY <1>0, <1>1
    <2> QED
      BY <1>3, <2>2, <2>3, <2>4 DEF ByteAt
  <1>4. b[1] = <<r[n], 1>>
    <2>1. 1 \in 1 .. HeaderLen + r[n].len /\ 1 <= Len(b)
      BY <1>0, <1>2
    <2> QED
      BY <1>3, <2>1
  <1> QED
    BY <1>1, <1>3, <1>4 DEF LengthAt

\* What is decoded is the next frame, and the rest begins with the one after it.
LEMMA FrameRead ==
  ASSUME NEW b \in Seq(Bytes), NEW w \in Seq(Bytes),
         NEW r \in Seq(Frames), NEW n \in 1 .. Len(r) + 1,
         NEW o \in [1 .. Len(r) + 1 -> Nat], StreamAt(o, r, n, b, w),
         Len(b) >= HeaderLen, Len(b) >= HeaderLen + LengthAt(b)
  PROVE  /\ n \in 1 .. Len(r) /\ DecodeAt(b) = r[n].msg
         /\ StreamAt(o, r, n + 1, Rest(b), w)
         /\ Whole(o, r, n, b, w) => Whole(o, r, n + 1, Rest(b), w)
  <1> DEFINE l == r[n].len
             h == HeaderLen + l
  <1>1. /\ n \in 1 .. Len(r) /\ LengthAt(b) = l
        /\ \A k \in 1 .. h : k <= Len(b) => b[k] = <<r[n], k>>
    BY FrontBytes
  <1>2. /\ HeaderLen \in Nat \ {0} /\ l \in Nat /\ h \in Nat \ {0} /\ h <= Len(b)
        /\ Len(b) \in Nat /\ Len(w) \in Nat /\ Len(r) \in Nat
        /\ \A i \in 1 .. Len(r) + 1 : o[i] \in Nat
    <2>1. HeaderLen \in Nat \ {0}
      BY ClientAssumption
    <2>2. l \in Nat
      BY <1>1, FrameLen, ElementOfSeq
    <2>3. /\ Len(b) \in Nat /\ Len(w) \in Nat /\ Len(r) \in Nat
          /\ \A i \in 1 .. Len(r) + 1 : o[i] \in Nat
      BY LenProperties, OffsetNat
    <2>4. h <= Len(b)
      BY <1>1
    <2> QED
      BY <2>1, <2>2, <2>3, <2>4, SMTT(30)
  <1>3. DecodeAt(b) = r[n].msg
    <2> DEFINE e == Encode(r[n])
    <2>1. e \in Seq(Bytes) /\ Len(e) = h /\ \A k \in 1 .. h : e[k] = <<r[n], k>>
      BY <1>1, <1>2, EncodeType, SMTT(30) DEF Encode
    <2>2. b[1][1] = r[n]
      <3>1. 1 \in 1 .. h /\ 1 <= Len(b)
        BY <1>2
      <3>2. b[1] = <<r[n], 1>>
        BY <1>1, <3>1
      <3> QED
        BY <3>2
    <2> HIDE DEF e, h, l
    <2>3. /\ SubSeq(b, HeaderLen + 1, h) \in Seq(Bytes)
          /\ SubSeq(e, HeaderLen + 1, h) \in Seq(Bytes)
      BY <1>2, <2>1, SubStream, SMTT(30)
    <2>4. /\ Len(SubSeq(b, HeaderLen + 1, h)) = h - HeaderLen
          /\ Len(SubSeq(e, HeaderLen + 1, h)) = h - HeaderLen
          /\ \A k \in 1 .. h - HeaderLen :
                /\ SubSeq(b, HeaderLen + 1, h)[k] = b[HeaderLen + k]
                /\ SubSeq(e, HeaderLen + 1, h)[k] = e[HeaderLen + k]
      BY <1>2, <2>1 DEF h
    <2>5. ASSUME NEW k \in 1 .. h - HeaderLen
          PROVE  b[HeaderLen + k] = e[HeaderLen + k]
      <3>1. HeaderLen + k \in 1 .. h /\ HeaderLen + k <= Len(b)
        BY <1>2
      <3> QED
        BY <1>1, <2>1, <3>1
    <2>6. SubSeq(b, HeaderLen + 1, h) = SubSeq(e, HeaderLen + 1, h)
      BY <2>3, <2>4, <2>5, SeqEqual, SMTT(30)
    <2>7. Payload(b) = SubSeq(b, HeaderLen + 1, h)
      BY <1>1 DEF Payload, h
    <2> QED
      BY <2>2, <2>6, <2>7 DEF DecodeAt, e, h, l
  <1> HIDE DEF l, h
  <1> DEFINE c == Rest(b)
  <1>4. /\ c = SubSeq(b, h + 1, Len(b)) /\ Len(c) = Len(b) - h
        /\ \A k \in 1 .. Len(b) - h : c[k] = b[h + k]
    BY <1>1, <1>2 DEF Rest, h
  <1> HIDE DEF c
  <1>5. /\ n + 1 \in 1 .. Len(r) + 1 /\ o[n + 1] = o[n] + h
        /\ o[n] \in Nat /\ o[n + 1] \in Nat /\ o[Len(r) + 1] \in Nat
    <2>1. o[n + 1] = o[n] + (HeaderLen + r[n].len)
      BY <1>1 DEF StreamAt, Offsets
    <2>2. n + 1 \in 1 .. Len(r) + 1 /\ o[n] \in Nat /\ o[n + 1] \in Nat
          /\ o[Len(r) + 1] \in Nat
      BY <1>1, <1>2, SMTT(30)
    <2>3. h = HeaderLen + r[n].len /\ r[n].len \in Nat
      BY <1>2 DEF h, l
    <2> QED
      BY <1>2, <2>1, <2>2, <2>3
  <1>6. o[n + 1] + Len(c) + Len(w) = o[n] + Len(b) + Len(w)
    BY <1>2, <1>4, <1>5, SMTT(30)
  <1>7. ASSUME NEW k \in 1 .. Len(c) + Len(w)
        PROVE  \E i \in n + 1 .. Len(r) :
                   /\ o[i] < o[n + 1] + k /\ o[n + 1] + k <= o[i + 1]
                   /\ ByteAt(c, w, k) = <<r[i], (o[n + 1] + k) - o[i]>>
    <2>1. h + k \in 1 .. Len(b) + Len(w) /\ o[n] + (h + k) = o[n + 1] + k
      <3>1. k \in Nat \ {0} /\ k <= (Len(b) - h) + Len(w)
        BY <1>2, <1>4
      <3>2. h + k \in Nat \ {0} /\ h + k <= Len(b) + Len(w)
        BY <1>2, <3>1
      <3> QED
        BY <1>2, <1>5, <3>1, <3>2, SMTT(30)
    <2>2. PICK i \in n .. Len(r) :
              /\ o[i] < o[n] + (h + k) /\ o[n] + (h + k) <= o[i + 1]
              /\ ByteAt(b, w, h + k) = <<r[i], (o[n] + (h + k)) - o[i]>>
      BY <2>1 DEF StreamAt
    <2>3. i # n
      BY <1>2, <1>5, <2>1, <2>2, SMTT(30)
    <2>4. i \in n + 1 .. Len(r)
      BY <1>1, <1>2, <2>3
    <2>5. ByteAt(c, w, k) = ByteAt(b, w, h + k)
      <3>1. CASE k <= Len(c)
        <4>1. k \in 1 .. Len(b) - h /\ h + k <= Len(b)
          BY <1>2, <1>4, <3>1
        <4> QED
          BY <1>4, <3>1, <4>1 DEF ByteAt
      <3>2. CASE k > Len(c)
        <4>1. k \in Nat
          BY <1>2, <1>4
        <4>2. Len(c) = Len(b) - h /\ Len(b) \in Nat /\ h \in Nat /\ h <= Len(b)
          BY <1>2, <1>4
        <4>3. ~(h + k <= Len(b)) /\ ~(k <= Len(c))
          BY <3>2, <4>1, <4>2
        <4>4. k - Len(c) = (h + k) - Len(b)
          BY <4>1, <4>2
        <4> QED
          BY <4>3, <4>4 DEF ByteAt
      <3>3. k \in Nat /\ Len(c) \in Nat
        BY <1>2, <1>4
      <3> QED
        BY <3>1, <3>2, <3>3
    <2>6. /\ o[i] < o[n + 1] + k /\ o[n + 1] + k <= o[i + 1]
          /\ ByteAt(c, w, k) = <<r[i], (o[n + 1] + k) - o[i]>>
      BY <2>1, <2>2, <2>5
    <2> QED
      BY <2>4, <2>6
  <1>8. StreamAt(o, r, n + 1, c, w)
    BY <1>6, <1>7 DEF StreamAt
  <1>9. Whole(o, r, n, b, w) => Whole(o, r, n + 1, c, w)
    BY <1>6 DEF Whole
  <1> QED
    BY <1>1, <1>3, <1>8, <1>9 DEF c

\* A frame that the app sends comes after all others.
LEMMA FrameSent ==
  ASSUME NEW b \in Seq(Bytes), NEW w \in Seq(Bytes),
         NEW r \in Seq(Frames), NEW n \in 1 .. Len(r) + 1, NEW f \in Frames,
         NEW o \in [1 .. Len(r) + 1 -> Nat], StreamAt(o, r, n, b, w),
         Whole(o, r, n, b, w)
  PROVE  \E p \in [1 .. Len(Append(r, f)) + 1 -> Nat] :
             /\ StreamAt(p, Append(r, f), n, b, w \o Encode(f))
             /\ Whole(p, Append(r, f), n, b, w \o Encode(f))
  <1> DEFINE h == HeaderLen + f.len
             R == Len(r) + 1
             s == Append(r, f)
             e == Encode(f)
             x == w \o e
             p == [i \in 1 .. R + 1 |-> IF i = R + 1 THEN o[R] + h ELSE o[i]]
  <1>1. /\ HeaderLen \in Nat \ {0} /\ f.len \in Nat /\ h \in Nat
        /\ Len(b) \in Nat /\ Len(w) \in Nat /\ Len(r) \in Nat /\ R \in Nat
        /\ n \in 1 .. R /\ \A i \in 1 .. R : o[i] \in Nat
    <2>1. HeaderLen \in Nat \ {0} /\ f.len \in Nat
      BY ClientAssumption, FrameLen
    <2>2. /\ Len(b) \in Nat /\ Len(w) \in Nat /\ Len(r) \in Nat
          /\ \A i \in 1 .. R : o[i] \in Nat
      BY LenProperties, OffsetNat
    <2> QED
      BY <2>1, <2>2
  <1>2. e \in Seq(Bytes) /\ Len(e) = h /\ \A k \in 1 .. h : e[k] = <<f, k>>
    BY <1>1, EncodeType, SMTT(30) DEF Encode
  <1>3. /\ Len(s) = R /\ s[R] = f /\ \A i \in 1 .. Len(r) : s[i] = r[i]
    BY <1>1
  <1> HIDE DEF e, s
  <1>4. /\ x \in Seq(Bytes) /\ Len(x) = Len(w) + h
        /\ \A k \in 1 .. Len(w) : x[k] = w[k]
        /\ \A k \in 1 .. h : x[Len(w) + k] = e[k]
    <2> HIDE DEF h
    <2>1. /\ x \in Seq(Bytes) /\ Len(x) = Len(w) + h
          /\ \A k \in 1 .. Len(w) + h :
                x[k] = IF k <= Len(w) THEN w[k] ELSE e[k - Len(w)]
      BY <1>2, ConcatProperties
    <2> HIDE DEF x
    <2>2. ASSUME NEW k \in 1 .. Len(w) PROVE x[k] = w[k]
      <3>1. k \in 1 .. Len(w) + h /\ k <= Len(w)
        BY <1>1
      <3> QED
        BY <2>1, <3>1
    <2>3. ASSUME NEW k \in 1 .. h PROVE x[Len(w) + k] = e[k]
      <3>1. /\ Len(w) + k \in 1 .. Len(w) + h /\ ~(Len(w) + k <= Len(w))
            /\ (Len(w) + k) - Len(w) = k
        BY <1>1
      <3> QED
        BY <2>1, <3>1
    <2> QED
      BY <2>1, <2>2, <2>3
  <1>5. /\ p \in [1 .. R + 1 -> Nat] /\ p[R + 1] = o[R] + h
        /\ \A i \in 1 .. R : p[i] = o[i]
    <2>1. R \in 1 .. R /\ R + 1 \in 1 .. R + 1
      BY <1>1
    <2>2. o[R] + h \in Nat
      <3>1. o[R] \in Nat /\ h \in Nat
        BY <1>1, <2>1
      <3> HIDE DEF h, R
      <3> QED
        BY <3>1
    <2>3. \A i \in 1 .. R : i \in 1 .. R + 1 /\ i # R + 1
      BY <1>1
    <2>4. \A i \in 1 .. R + 1 : i # R + 1 => i \in 1 .. R
      BY <1>1
    <2> HIDE DEF h, R
    <2>5. p \in [1 .. R + 1 -> Nat]
      BY <1>1, <2>2, <2>4
    <2> QED
      BY <2>1, <2>3, <2>5
  <1> HIDE DEF h, x, p
  <1>6. Offsets(p, s)
    <2>1. ASSUME NEW i \in 1 .. Len(s) PROVE p[i + 1] = p[i] + (HeaderLen + s[i].len)
      <3>1. CASE i = R
        <4>1. p[i] = o[R] /\ p[i + 1] = o[R] + h /\ s[i] = f /\ o[R] \in Nat
          BY <1>1, <1>3, <1>5, <3>1
        <4> QED
          BY <1>1, <4>1 DEF h
      <3>2. CASE i # R
        <4>1. i \in 1 .. Len(r) /\ i \in 1 .. R /\ i + 1 \in 1 .. R
          BY <1>1, <1>3, <3>2
        <4>2. o[i + 1] = o[i] + (HeaderLen + r[i].len)
          BY <4>1 DEF StreamAt, Offsets
        <4>3. p[i] = o[i] /\ p[i + 1] = o[i + 1] /\ s[i] = r[i]
          BY <1>3, <1>5, <4>1
        <4> QED
          BY <4>2, <4>3
      <3> QED
        BY <3>1, <3>2
    <2>2. ASSUME NEW i \in 1 .. Len(s) + 1, NEW j \in 1 .. Len(s) + 1, i <= j
          PROVE  p[i] <= p[j]
      <3>1. \A q \in 1 .. R : o[q] <= o[R]
        BY <1>1 DEF StreamAt, Offsets
      <3>2. CASE j = R + 1
        <4>1. p[j] = o[R] + h /\ o[R] \in Nat /\ o[R] <= o[R] + h
          BY <1>1, <1>5, <3>2
        <4>2. CASE i = R + 1
          BY <1>1, <3>2, <4>1, <4>2
        <4>3. CASE i # R + 1
          <5>1. i \in 1 .. R
            BY <1>1, <1>3, <4>3
          <5>2. p[i] = o[i] /\ o[i] <= o[R] /\ o[i] \in Nat
            BY <1>1, <1>5, <3>1, <5>1
          <5> QED
            BY <1>1, <4>1, <5>2, SMTT(30)
        <4> QED
          BY <4>2, <4>3
      <3>3. CASE j # R + 1
        <4>1. i \in 1 .. R /\ j \in 1 .. R
          BY <1>1, <1>3, <2>2, <3>3
        <4>2. o[i] <= o[j]
          BY <2>2, <4>1 DEF StreamAt, Offsets
        <4> QED
          BY <1>5, <4>1, <4>2
      <3> QED
        BY <3>2, <3>3
    <2> QED
      BY <2>1, <2>2 DEF Offsets
  <1>7. /\ p[n] = o[n] /\ o[n] \in Nat /\ o[R] \in Nat
        /\ o[n] + Len(b) + Len(w) = o[R]
    BY <1>1, <1>5 DEF Whole
  <1>8. p[n] + Len(b) + Len(x) = p[Len(s) + 1]
    BY <1>1, <1>3, <1>4, <1>5, <1>7
  <1>9. ASSUME NEW k \in 1 .. Len(b) + Len(x)
        PROVE  \E i \in n .. Len(s) :
                   /\ p[i] < p[n] + k /\ p[n] + k <= p[i + 1]
                   /\ ByteAt(b, x, k) = <<s[i], (p[n] + k) - p[i]>>
    <2>1. CASE k <= Len(b) + Len(w)
      <3>1. k \in 1 .. Len(b) + Len(w)
        BY <1>1, <2>1
      <3>2. PICK i \in n .. Len(r) :
                /\ o[i] < o[n] + k /\ o[n] + k <= o[i + 1]
                /\ ByteAt(b, w, k) = <<r[i], (o[n] + k) - o[i]>>
        BY <3>1 DEF StreamAt
      <3>3. i \in 1 .. Len(r) /\ i \in 1 .. R /\ i + 1 \in 1 .. R /\ i \in n .. Len(s)
        BY <1>1, <1>3
      <3>4. p[i] = o[i] /\ p[i + 1] = o[i + 1] /\ s[i] = r[i]
        BY <1>3, <1>5, <3>3
      <3>5. ByteAt(b, x, k) = ByteAt(b, w, k)
        <4>1. CASE k <= Len(b)
          BY <4>1 DEF ByteAt
        <4>2. CASE ~(k <= Len(b))
          <5>1. k - Len(b) \in 1 .. Len(w)
            BY <1>1, <2>1, <4>2
          <5> QED
            BY <1>4, <4>2, <5>1 DEF ByteAt
        <4> QED
          BY <4>1, <4>2
      <3> QED
        BY <1>7, <3>2, <3>3, <3>4, <3>5
    <2>2. CASE k > Len(b) + Len(w)
      <3> DEFINE d == k - Len(b) - Len(w)
      <3>1. /\ d \in 1 .. h /\ ~(k <= Len(b)) /\ k - Len(b) = Len(w) + d
            /\ k \in Nat /\ d \in Nat /\ k = Len(b) + Len(w) + d
        BY <1>1, <1>4, <2>2, SMTT(30)
      <3> HIDE DEF d
      <3>2. ByteAt(b, x, k) = <<f, d>>
        BY <1>2, <1>4, <3>1 DEF ByteAt
      <3>3. /\ R \in n .. Len(s) /\ s[R] = f /\ p[R] = o[R] /\ p[R + 1] = o[R] + h
        <4>1. R \in 1 .. R /\ R \in n .. Len(s)
          BY <1>1, <1>3
        <4> QED
          BY <1>3, <1>5, <4>1
      <3>4. p[n] + k = o[R] + d
        BY <1>1, <1>7, <3>1, SMTT(30)
      <3>5. (o[R] + d) - o[R] = d /\ o[R] < o[R] + d /\ o[R] + d <= o[R] + h
        <4>1. o[R] \in Nat /\ d \in Nat \ {0} /\ h \in Nat /\ d <= h
          BY <1>1, <1>7, <3>1
        <4> HIDE DEF R
        <4> QED
          BY <4>1, SMTT(30)
      <3> HIDE DEF R
      <3> QED
        BY <3>2, <3>3, <3>4, <3>5
    <2> QED
      BY <1>1, <1>4, <2>1, <2>2
  <1>10. StreamAt(p, s, n, b, x) /\ Whole(p, s, n, b, x)
    <2>1. p[n] + Len(b) + Len(x) <= p[Len(s) + 1]
      <3>1. p[n] + Len(b) + Len(x) \in Nat
        BY <1>1, <1>4, <1>7
      <3> QED
        BY <1>8, <3>1
    <2> QED
      BY <1>6, <1>8, <1>9, <2>1 DEF StreamAt, Whole
  <1> QED
    BY <1>3, <1>5, <1>10 DEF s, x, e

FramesInv == FramesInOrder /\ StreamInv

\* The frames and the stream, through every step.
LEMMA FramesStep == IInv /\ FramesInv /\ [Next]_vars => FramesInv'
  <1> SUFFICES ASSUME IInv, FramesInv, [Next]_vars PROVE FramesInv'
    OBVIOUS
  <1>0. /\ buf \in Seq(Bytes) /\ wire \in Seq(Bytes) /\ rx \in Seq(Frames)
        /\ got \in Seq(Decoded) /\ Len(got) <= Len(rx)
        /\ Len(got) \in Nat /\ Len(rx) \in Nat /\ Len(got) + 1 \in 1 .. Len(rx) + 1
        /\ Buffer \in Seq(Bytes)
    <2>1. /\ buf \in Seq(Bytes) /\ wire \in Seq(Bytes) /\ rx \in Seq(Frames)
          /\ got \in Seq(Decoded) /\ Len(got) <= Len(rx)
      BY DEF IInv, TypeOK, DataTypeOK, FramesInv, FramesInOrder
    <2>2. << >> \in Seq(Bytes)
      OBVIOUS
    <2> QED
      BY <2>1, <2>2 DEF Buffer
  <1>1. ASSUME UNCHANGED <<rx, got>>, npc' \notin Connected PROVE FramesInv'
    BY <1>1 DEF FramesInv, FramesInOrder, StreamInv
  <1>2. ASSUME UNCHANGED <<rx, got, wire, peerOpen>>, Buffer' = Buffer,
               npc' \in Connected => npc \in Connected
        PROVE  FramesInv'
    BY <1>2 DEF FramesInv, FramesInOrder, StreamInv
  <1>3. CASE Established
    <2>1. /\ npc' = "announce" /\ wire' = << >> /\ rx' = << >> /\ got' = << >>
      BY <1>3 DEF Established
    <2>2. Buffer' = << >>
      BY <2>1 DEF Buffer
    <2> DEFINE o == [i \in 1 .. 1 |-> 0]
    <2>3. o \in [1 .. Len(rx') + 1 -> Nat] /\ Len(rx') + 1 = 1 /\ Len(got') + 1 = 1
          /\ o[1] = 0
      BY <2>1
    <2> HIDE DEF o
    <2>4. /\ StreamAt(o, rx', Len(got') + 1, Buffer', wire')
          /\ Whole(o, rx', Len(got') + 1, Buffer', wire')
      BY <2>1, <2>2, <2>3 DEF StreamAt, Offsets, Whole
    <2> QED
      BY <2>1, <2>3, <2>4 DEF FramesInv, FramesInOrder, StreamInv
  <1>4. CASE Publish
    <2>1. /\ npc = "publish" /\ npc' = "poll" /\ buf' = << >>
          /\ UNCHANGED <<rx, got, wire, peerOpen>>
      BY <1>4 DEF Publish, kernVars, histVars
    <2>2. Buffer' = Buffer /\ npc \in Connected
      BY <2>1 DEF Buffer, Connected
    <2> QED
      BY <1>2, <2>1, <2>2
  <1>5. CASE RecvData
    <2>1. /\ npc = "recv" /\ npc' = "parse" /\ UNCHANGED <<rx, got, peerOpen>>
      BY <1>5 DEF RecvData, ReadUnchanged
    <2>2. PICK m \in 1 .. Len(wire) : /\ buf' = buf \o SubSeq(wire, 1, m)
                                      /\ wire' = SubSeq(wire, m + 1, Len(wire))
      BY <1>5 DEF RecvData
    <2>3. Buffer = buf /\ Buffer' = buf' /\ npc \in Connected
      BY <2>1 DEF Buffer, Connected
    <2>4. PICK o \in [1 .. Len(rx) + 1 -> Nat] :
              /\ StreamAt(o, rx, Len(got) + 1, buf, wire)
              /\ peerOpen => Whole(o, rx, Len(got) + 1, buf, wire)
      BY <2>3 DEF FramesInv, StreamInv
    <2>5. /\ StreamAt(o, rx, Len(got) + 1, buf', wire')
          /\ peerOpen => Whole(o, rx, Len(got) + 1, buf', wire')
      BY <1>0, <2>2, <2>4, BytesMove
    <2> QED
      BY <2>1, <2>3, <2>5 DEF FramesInv, FramesInOrder, StreamInv
  <1>6. CASE Parse
    <2>1. /\ npc = "parse" /\ npc' \in {"parse", "poll", "lock"}
          /\ UNCHANGED <<rx, wire, peerOpen>>
      BY <1>6 DEF Parse, ReadUnchanged
    <2>2. Buffer = buf /\ Buffer' = buf' /\ npc \in Connected /\ npc' \in Connected
      BY <2>1 DEF Buffer, Connected
    <2>3. CASE UNCHANGED <<buf, got>>
      BY <1>2, <2>1, <2>2, <2>3
    <2>4. CASE /\ Len(buf) >= HeaderLen /\ Len(buf) >= HeaderLen + LengthAt(buf)
               /\ got' = Append(got, DecodeAt(buf)) /\ buf' = Rest(buf)
      <3>1. PICK o \in [1 .. Len(rx) + 1 -> Nat] :
                /\ StreamAt(o, rx, Len(got) + 1, buf, wire)
                /\ peerOpen => Whole(o, rx, Len(got) + 1, buf, wire)
        BY <2>2 DEF FramesInv, StreamInv
      <3>2. /\ Len(got) + 1 \in 1 .. Len(rx) /\ DecodeAt(buf) = rx[Len(got) + 1].msg
            /\ StreamAt(o, rx, Len(got) + 2, buf', wire)
            /\ peerOpen => Whole(o, rx, Len(got) + 2, buf', wire)
        <4>1. Len(got) + 1 + 1 = Len(got) + 2
          BY <1>0
        <4> QED
          BY <1>0, <2>4, <3>1, <4>1, FrameRead, SMTT(30)
      <3>3. /\ Len(got') = Len(got) + 1 /\ got'[Len(got) + 1] = DecodeAt(buf)
            /\ \A i \in 1 .. Len(got) : got'[i] = got[i]
        BY <1>0, <2>4
      <3>4. FramesInOrder'
        BY <1>0, <2>1, <3>2, <3>3 DEF FramesInv, FramesInOrder
      <3>5. Len(got') + 1 = Len(got) + 2
        BY <1>0, <3>3
      <3> QED
        BY <2>1, <2>2, <3>2, <3>4, <3>5 DEF FramesInv, StreamInv
    <2> QED
      BY <1>6, <2>3, <2>4 DEF Parse
  <1>7. ASSUME NEW f \in Frames, PeerSend(f) PROVE FramesInv'
    <2>1. /\ peerOpen /\ wire' = wire \o Encode(f) /\ rx' = Append(rx, f)
          /\ UNCHANGED <<npc, buf, got, peerOpen>>
      BY <1>7 DEF PeerSend, EnvUnchanged, netVars
    <2>2. npc \in Connected /\ Buffer' = Buffer
      BY <1>7, <2>1, ClientAssumption DEF PeerSend, IInv, HoldInv, Connecting, Buffer
    <2>3. PICK o \in [1 .. Len(rx) + 1 -> Nat] :
              /\ StreamAt(o, rx, Len(got) + 1, Buffer, wire)
              /\ Whole(o, rx, Len(got) + 1, Buffer, wire)
      BY <2>1, <2>2 DEF FramesInv, StreamInv
    <2>4. \E p \in [1 .. Len(Append(rx, f)) + 1 -> Nat] :
              /\ StreamAt(p, Append(rx, f), Len(got) + 1, Buffer, wire \o Encode(f))
              /\ Whole(p, Append(rx, f), Len(got) + 1, Buffer, wire \o Encode(f))
      BY <1>0, <2>3, FrameSent
    <2>5. StreamInv'
      BY <2>1, <2>2, <2>4 DEF StreamInv
    <2>6. Len(rx') = Len(rx) + 1 /\ \A i \in 1 .. Len(rx) : rx'[i] = rx[i]
      BY <1>0, <2>1
    <2>7. FramesInOrder'
      BY <1>0, <2>1, <2>6 DEF FramesInv, FramesInOrder
    <2> QED
      BY <2>5, <2>7 DEF FramesInv
  <1>8. CASE PeerClose
    <2>1. ~peerOpen' /\ wire' \in {wire, << >>} /\ UNCHANGED <<npc, buf, rx, got>>
      BY <1>8 DEF PeerClose, EnvUnchanged, netVars
    <2>2. ASSUME NEW o \in [1 .. Len(rx) + 1 -> Nat],
                 StreamAt(o, rx, Len(got) + 1, Buffer, wire)
          PROVE  StreamAt(o, rx, Len(got) + 1, Buffer, << >>)
      <3> DEFINE n == Len(got) + 1
                 b == Buffer
      <3>1. /\ Len(b) \in Nat /\ Len(wire) \in Nat /\ o[n] \in Nat
            /\ o[Len(rx) + 1] \in Nat
        BY <1>0, LenProperties, OffsetNat
      <3>2. o[n] + Len(b) + 0 <= o[Len(rx) + 1]
        BY <2>2, <3>1 DEF StreamAt
      <3>3. ASSUME NEW k \in 1 .. Len(b) + 0
            PROVE  /\ k \in 1 .. Len(b) + Len(wire)
                   /\ ByteAt(b, << >>, k) = ByteAt(b, wire, k)
        BY <3>1 DEF ByteAt
      <3> HIDE DEF n, b
      <3>4. StreamAt(o, rx, n, b, << >>)
        BY <2>2, <3>2, <3>3 DEF StreamAt, n, b
      <3> QED
        BY <3>4 DEF n, b
    <2>3. Buffer' = Buffer
      BY <2>1 DEF Buffer
    <2> QED
      BY <2>1, <2>2, <2>3 DEF FramesInv, FramesInOrder, StreamInv
  <1>9. CASE NetStep
    <2>1. CASE UNCHANGED <<rx, got>> /\ npc' \notin Connected
      BY <1>1, <2>1
    <2>2. CASE /\ UNCHANGED <<rx, got, wire, peerOpen, buf>>
               /\ npc \in Connected /\ npc' \in Connected
               /\ npc' \in {"announce", "publish"} <=> npc \in {"announce", "publish"}
      BY <1>2, <2>2 DEF Buffer
    <2>3. \/ UNCHANGED <<rx, got>> /\ npc' \notin Connected
          \/ /\ UNCHANGED <<rx, got, wire, peerOpen, buf>>
             /\ npc \in Connected /\ npc' \in Connected
             /\ npc' \in {"announce", "publish"} <=> npc \in {"announce", "publish"}
          \/ Established \/ Publish \/ RecvData \/ Parse
      BY <1>9 DEF NetStep, Resolve, Socket, Connect, WaitConnected, Abandon,
         Backoff, Announce, PollStop, PollReady, RecvEnd, ReadStep,
         ReadUnchanged, Lock, Clear, Close, Unlock, ConnectUnchanged,
         CloseUnchanged, kernVars, histVars, Connected
    <2> QED
      BY <1>3, <1>4, <1>5, <1>6, <2>1, <2>2, <2>3
  <1>10. CASE PollFails \/ RecvInterrupted
    <2>1. /\ UNCHANGED <<rx, got, wire, peerOpen, buf>>
          /\ npc \in {"poll", "recv"} /\ npc' \in {"lock", "poll"}
      BY <1>10 DEF PollFails, RecvInterrupted, ReadStep, ReadUnchanged
    <2>2. Buffer' = Buffer /\ npc \in Connected
      BY <2>1 DEF Buffer, Connected
    <2> QED
      BY <1>2, <2>1, <2>2
  <1>11. CASE Owner \/ UNCHANGED vars
    <2>1. UNCHANGED <<rx, got, wire, peerOpen, buf, npc>>
      BY <1>11 DEF Owner, OwnerStep, SendCall, SendLock, SendLoad, SendWrite,
         SendShutdown, SendUnlock, Join, Stop, Drain, SendUnchanged, netVars,
         kernVars, histVars, vars
    <2> QED
      BY <1>2, <2>1 DEF Buffer
  <1>12. ASSUME NEW f \in Fds, Other(f) PROVE FramesInv'
    BY <1>2, <1>12 DEF Other, EnvUnchanged, netVars, Buffer
  <1> QED
    BY <1>7, <1>8, <1>9, <1>10, <1>11, <1>12 DEF Next, Net, Environment

\* However the stream is cut into reads, read_loop() decodes the frames the app
\* sent on this connection, in order, none skipped and none across a boundary, for
\* any lengths of frames and of the length prefix.
THEOREM InOrder == Spec => []FramesInOrder
  <1>1. Init => FramesInv
    BY DEF Init, FramesInv, FramesInOrder, StreamInv, Connected
  <1>2. FramesInv => FramesInOrder
    BY DEF FramesInv
  <1> QED
    BY <1>1, <1>2, FramesStep, Invariance, PTL DEF Spec


=============================================================================
