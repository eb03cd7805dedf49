-------------------------------- MODULE Link --------------------------------
(***************************************************************************)
(* What rebo::BridgeClient (driver/src/net.hpp) promises to its owner, the *)
(* driver's frame thread: a sequence of numbered connections, of which at  *)
(* most one can be used at a time, sends that never block and go out whole *)
(* or not at all, and a queue of received messages.                        *)
(*                                                                         *)
(* The mutexes, descriptors, polling and framing behind it are in          *)
(* BridgeClient, which implements this specification.  Provider is built   *)
(* on top of it.  The numbers of connections and of queued messages are    *)
(* not bounded here: the modules that use Link bound them.                 *)
(***************************************************************************)
EXTENDS Naturals, Sequences

CONSTANTS
    Kinds,      \* kinds of message the driver sends
    Values,     \* their contents
    None,       \* "nothing of this kind was sent on this connection"
    InMsgs      \* messages the app sends

VARIABLES
    phase,      \* "down", "announced" (generation counted), "up" (usable)
    gen,        \* generation(): number of connections so far
    out,        \* history: last content of each kind sent on connection gen
    torn,       \* history: a message was cut off on connection gen
    queue       \* queue_: messages received, with the connection they came on

linkVars == <<phase, gen, out, torn, queue>>

Nothing == [k \in Kinds |-> None]

Entries == [gen : Nat, msg : InMsgs]

LinkInit ==
    /\ phase = "down"
    /\ gen = 0
    /\ out = Nothing
    /\ torn = FALSE
    /\ queue = << >>

\* ++generation_: the owner learns the number before it can use the socket.
Announce ==
    /\ phase = "down"
    /\ phase' = "announced"
    /\ gen' = gen + 1
    /\ out' = Nothing
    /\ torn' = FALSE
    /\ UNCHANGED queue

\* fd_ = fd: connected() becomes true.
Publish ==
    /\ phase = "announced"
    /\ phase' = "up"
    /\ UNCHANGED <<gen, out, torn, queue>>

\* fd_ = -1, whoever ended the connection.
Hangup ==
    /\ phase = "up"
    /\ phase' = "down"
    /\ UNCHANGED <<gen, out, torn, queue>>

Receive(m) ==
    /\ phase = "up"
    /\ queue' = Append(queue, [gen |-> gen, msg |-> m])
    /\ UNCHANGED <<phase, gen, out, torn>>

Drain ==
    /\ queue' = << >>
    /\ UNCHANGED <<phase, gen, out, torn>>

\* send() returned true: the whole frame is in the socket buffer.
Deliver(k, v) ==
    /\ phase = "up"
    /\ ~torn
    /\ out' = [out EXCEPT ![k] = v]
    /\ UNCHANGED <<phase, gen, torn, queue>>

\* send() returned false with the stream intact: no connection, a full socket
\* buffer, or a socket that fails.
Drop == UNCHANGED linkVars

\* send() returned false after a partial write.
Tear ==
    /\ phase = "up"
    /\ torn' = TRUE
    /\ UNCHANGED <<phase, gen, out, queue>>

\* One call of send(); ok is its return value.
Send(k, v, ok) == IF ok THEN Deliver(k, v) ELSE Drop \/ Tear

LinkNext ==
    \/ Announce
    \/ Publish
    \/ Hangup
    \/ \E m \in InMsgs : Receive(m)
    \/ Drain
    \/ \E k \in Kinds, v \in Values : Deliver(k, v)
    \/ Tear

LinkSpec == LinkInit /\ [][LinkNext]_linkVars

LinkTypeOK ==
    /\ phase \in {"down", "announced", "up"}
    /\ gen \in Nat
    /\ out \in [Kinds -> Values \cup {None}]
    /\ torn \in BOOLEAN
    /\ queue \in Seq(Entries)

=============================================================================
