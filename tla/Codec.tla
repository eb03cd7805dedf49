------------------------------- MODULE Codec -------------------------------
(***************************************************************************)
(* The protobuf codec (driver/src/proto.hpp) against a writer of the       *)
(* schema (proto/ReboTracker.proto).  Bytes are numbers, and tags, varints *)
(* and lengths are built of them as in the code; a float or a double is a  *)
(* tuple of FloatLen or DoubleLen bytes.                                   *)
(*                                                                         *)
(* The writer is the app's: it puts any field of the schema or of a later  *)
(* version of it, in any order, packed or not, and one message after the   *)
(* other.  What it means to say is in `want`.                              *)
(***************************************************************************)
EXTENDS Integers, Sequences

CONSTANTS
    Word, Half,                     \* for 2^64, for 2^31
    MaxGroups,                      \* for 10, groups of 7 bits in a word
    DoubleLen, FloatLen,            \* for 8, for 4
    Ints, Floats, Doubles, Texts,   \* values written
    MaxFields                       \* bound: fields and messages

Byte == 0 .. 255

ASSUME CodecAssumption ==
    /\ Word \in Nat /\ Half \in Nat \ {0} /\ Word % (2 * Half) = 0
    /\ MaxGroups \in Nat \ {0}
    /\ DoubleLen \in Nat \ {0} /\ FloatLen \in Nat \ {0}
    /\ 4 * DoubleLen < 128 /\ 3 * FloatLen < 128 /\ 256 + 2 * MaxGroups < Word
    /\ Ints \subseteq -Half .. Half - 1
    /\ Floats \subseteq [1 .. FloatLen -> Byte]
    /\ Doubles \subseteq [1 .. DoubleLen -> Byte]
    /\ Texts \subseteq Seq(Byte) /\ \A v \in Texts : Len(v) < Word
    /\ MaxFields \in Nat

Int32(v)  == LET n == v % (2 * Half) IN IF n < Half THEN n ELSE n - 2 * Half
Uint32(v) == v % (2 * Half)

kNone     == 0
kPosition == 1
kTrackerStatus  == 3
kUniverseChange == 4
kPathFailed     == 5
MsgKinds     == 1 .. 8

\* Msg{}
Zero == [n \in 1 .. FloatLen |-> 0]
Blank == [kind |-> kNone, tracker_id |-> 0, q |-> << >>, pos |-> << >>,
          role |-> 0, name |-> << >>, status |-> 0, battery |-> Zero,
          open_wip |-> FALSE, output_as_treadmill |-> FALSE,
          use_left_hand |-> FALSE, joystick_control |-> FALSE,
          replace_hand_pose |-> FALSE,
          wip_x |-> Zero, wip_y |-> Zero, wip_status |-> 0]

-----------------------------------------------------------------------------
(* Reader: a value and the bytes that follow it.  Once ok is FALSE nothing *)
(* more is read, and nothing read is used.                                 *)

Fail          == [ok |-> FALSE, v |-> 0, rest |-> << >>]
Read(s, n, v) == [ok |-> TRUE, v |-> v, rest |-> SubSeq(s, n + 1, Len(s))]

Smallest(S) == CHOOSE n \in S : \A k \in S : n <= k

AddGroup(sum, b) == [v    |-> sum.v + (b % 128) * sum.unit,
                     unit |-> 128 * sum.unit]

\* The number of which g has the groups.
Groups(g) ==
    LET sum[n \in 0 .. Len(g)] ==
            IF n = 0 THEN [v |-> 0, unit |-> 1] ELSE AddGroup(sum[n - 1], g[n])
    IN  sum[Len(g)].v

varint(s) == LET last == {n \in DOMAIN s : n <= MaxGroups /\ s[n] < 128}
                 n == Smallest(last)
             IN  IF last = {} THEN Fail ELSE Read(s, n, Groups(SubSeq(s, 1, n)) % Word)

fixed(s, size) == IF Len(s) < size THEN Fail ELSE Read(s, size, SubSeq(s, 1, size))

Counted(n) == IF n.ok THEN fixed(n.rest, n.v) ELSE Fail
sub(s)     == Counted(varint(s))

skip(s, wire) ==
    CASE wire = 0 -> varint(s)
      [] wire = 1 -> fixed(s, DoubleLen)
      [] wire = 2 -> sub(s)
      [] wire = 5 -> fixed(s, FloatLen)
      [] OTHER    -> Fail

Split(r, size) ==
    IF ~r.ok \/ Len(r.v) % size # 0 THEN Fail
    ELSE [ok |-> TRUE, rest |-> r.rest,
          v  |-> [n \in 1 .. Len(r.v) \div size |-> SubSeq(r.v, (n - 1) * size + 1, n * size)]]

\* The values of a packed block, or one value, whatever its wire type.
repeated(s, wire, size) == Split(IF wire = 2 THEN sub(s) ELSE fixed(s, size), size)

-----------------------------------------------------------------------------
(* decode *)

\* The member a field sets, by kind, field number and wire type.
Member(k, f, w) ==
    CASE f = 1 /\ w = 0 /\ k <= kTrackerStatus -> "tracker_id"
      [] <<k, f>> = <<1, 10>>        -> "q"
      [] <<k, f>> = <<1, 11>>        -> "pos"
      [] <<k, f, w>> = <<2, 3, 0>>   -> "role"
      [] <<k, f, w>> = <<2, 4, 2>>   -> "name"
      [] <<k, f, w>> = <<3, 2, 0>>   -> "status"
      [] <<k, f, w>> = <<3, 3, 5>>   -> "battery"
      [] k = 7 /\ w = 0 /\ f \in 1 .. 5 ->
            <<"open_wip", "output_as_treadmill", "use_left_hand",
              "joystick_control", "replace_hand_pose">>[f]
      [] <<k, f, w>> = <<6, 2, 5>>   -> "wip_x"
      [] <<k, f, w>> = <<6, 3, 5>>   -> "wip_y"
      [] <<k, f, w>> = <<6, 4, 0>>   -> "wip_status"
      [] OTHER -> "none"

\* What the member becomes: r is what the field's wire type reads.
Set(m, member, r) ==
    CASE member \in {"q", "pos"} -> [m EXCEPT ![member] = @ \o r.v]
      [] member \in {"tracker_id", "role", "status", "wip_status"} ->
            [m EXCEPT ![member] = Int32(r.v)]
      [] member \in {"name", "battery", "wip_x", "wip_y"} -> [m EXCEPT ![member] = r.v]
      [] member = "none" -> m
      [] OTHER -> [m EXCEPT ![member] = r.v # 0]

Value(s, member, w) == CASE member = "q"   -> repeated(s, w, DoubleLen)
                         [] member = "pos" -> repeated(s, w, FloatLen)
                         [] OTHER          -> skip(s, w)

Stored(m, member, r) ==
    [ok |-> r.ok, v |-> IF r.ok THEN Set(m, member, r) ELSE m, rest |-> r.rest]

\* One field, after its tag.
ReadField(t, m) ==
    LET w == t.v % 8
        member == Member(m.kind, t.v \div 8, w)
    IN  Stored(m, member, Value(t.rest, member, w))

\* Mutant: m keeps what the message before it said.
StartKeeps(m, field) == [m EXCEPT !.kind = field]

Start(m, field) == [Blank EXCEPT !.kind = field]

IsMessage(t) == t.v % 8 = 2 /\ t.v \div 8 \in MsgKinds

\* The loops: x.m is the message so far, inner what is left of the message that
\* is being read, rest what is left of the payload.
Reading(x) == x.ok /\ (x.inner # << >> \/ x.rest # << >>)

Inside(x) == LET f == ReadField(varint(x.inner), x.m)
             IN  [ok |-> f.ok, m |-> f.v, inner |-> f.rest, rest |-> x.rest]

Between(x) ==
    LET t == varint(x.rest)
        e == skip(t.rest, t.v % 8)
    IN  [ok    |-> e.ok,
         m     |-> IF IsMessage(t) THEN Start(x.m, t.v \div 8) ELSE x.m,
         inner |-> IF IsMessage(t) THEN e.v ELSE << >>,
         rest  |-> e.rest]

ReadOn(x) == IF ~Reading(x) THEN x ELSE IF x.inner # << >> THEN Inside(x) ELSE Between(x)

Top(s) == [ok |-> TRUE, m |-> Blank, inner |-> << >>, rest |-> s]

\* Every turn of a loop takes a byte.
decode(s) ==
    LET run[n \in 0 .. Len(s)] == IF n = 0 THEN Top(s) ELSE ReadOn(run[n - 1])
        x == run[Len(s)]
    IN  [ok |-> x.ok /\ x.m.kind # kNone, v |-> x.m]

-----------------------------------------------------------------------------
(* The driver's encoders *)

\* v without its last n groups.
Quotients(v) ==
    LET quo[n \in 0 .. MaxGroups - 1] == IF n = 0 THEN v ELSE quo[n - 1] \div 128 IN quo

ASSUME VarintAssumption == \A v \in 0 .. Word - 1 : Quotients(v)[MaxGroups - 1] < 128

\* Mutant: off by one at the end of a group.
put_varintShort(v) ==
    LET quo == Quotients(v)
        last == Smallest({n \in 0 .. MaxGroups - 1 : quo[n] <= 128})
    IN  [n \in 1 .. last + 1 |-> IF n = last + 1 THEN quo[last] ELSE (quo[n - 1] % 128) + 128]

put_varint(v) ==
    LET quo == Quotients(v)
        last == Smallest({n \in 0 .. MaxGroups - 1 : quo[n] < 128})
    IN  [n \in 1 .. last + 1 |-> IF n = last + 1 THEN quo[last] ELSE (quo[n - 1] % 128) + 128]

\* The bytes of floats or doubles, one after the other.
Joined(q, size) ==
    [n \in 1 .. size * Len(q) |-> q[((n - 1) \div size) + 1][((n - 1) % size) + 1]]

wrap(field, inner) == put_varint(field * 8 + 2) \o put_varint(Len(inner)) \o inner

Optional(byte, v) == IF v = 0 THEN << >> ELSE <<byte>> \o put_varint(Uint32(v))

encode_status(id, status) == wrap(kTrackerStatus, Optional(8, id) \o Optional(16, status))

encode_position(id, q, pos) ==
    wrap(kPosition, Optional(8, id) \o <<82, 4 * DoubleLen>> \o Joined(q, DoubleLen)
                               \o <<90, 3 * FloatLen>> \o Joined(pos, FloatLen))

encode_universe(yaw, pos) ==
    wrap(kUniverseChange, (IF yaw = Zero THEN << >> ELSE <<13>> \o yaw)
                          \o <<18, 3 * FloatLen>> \o Joined(pos, FloatLen))

encode_path_failed(failed) == wrap(kPathFailed, Optional(8, failed))

-----------------------------------------------------------------------------
(* The writer: fields of ReboTracker.proto.  "none" is a field the driver *)
(* does not use.                                                           *)

Field(k, f, type, member) == [kind |-> k, f |-> f, type |-> type, member |-> member]

Schema ==
    {Field(1, 1, "int", "tracker_id"), Field(1, 10, "doubles", "q"),
     Field(1, 11, "floats", "pos"),
     Field(2, 1, "int", "tracker_id"), Field(2, 3, "int", "role"),
     Field(2, 4, "text", "name"),
     Field(3, 1, "int", "tracker_id"), Field(3, 2, "int", "status"),
     Field(3, 3, "float", "battery"),
     Field(4, 1, "float", "none"), Field(4, 2, "floats", "none"), Field(5, 1, "int", "none"),
     Field(6, 1, "text", "none"), Field(6, 2, "float", "wip_x"),
     Field(6, 3, "float", "wip_y"), Field(6, 4, "int", "wip_status"),
     Field(7, 1, "bool", "open_wip"), Field(7, 2, "bool", "output_as_treadmill"),
     Field(7, 3, "bool", "use_left_hand"), Field(7, 4, "bool", "joystick_control"),
     Field(7, 5, "bool", "replace_hand_pose"), Field(8, 1, "bool", "none")}

Later(k) == {Field(k, 20, type, "none") : type \in {"int", "float", "double", "text"}}

Lists(S) == {<<v>> : v \in S} \cup {<<v, v, v>> : v \in S} \cup {<<v, v, v, v>> : v \in S}

Written(type) ==
    CASE type = "int"     -> Ints
      [] type = "bool"    -> BOOLEAN
      [] type = "float"   -> Floats
      [] type = "double"  -> Doubles
      [] type = "text"    -> Texts
      [] type = "doubles" -> Lists(Doubles)
      [] type = "floats"  -> Lists(Floats)

Repeated == {"doubles", "floats"}
Element(type) == IF type = "doubles" THEN "double" ELSE "float"

Wire(type) == CASE type \in {"int", "bool"} -> 0
                [] type = "double" -> 1
                [] type = "float"  -> 5
                [] OTHER           -> 2

Block(s) == put_varint(Len(s)) \o s

\* A negative int is written with its sign in the whole word.
Bytes(type, v) ==
    CASE type = "int"  -> put_varint(v % Word)
      [] type = "bool" -> <<IF v THEN 1 ELSE 0>>
      [] type \in {"float", "double"} -> v
      [] type = "text" -> Block(v)
      [] type = "doubles" -> Block(Joined(v, DoubleLen))
      [] type = "floats"  -> Block(Joined(v, FloatLen))

Tagged(f, type, v) == put_varint(f * 8 + Wire(type)) \o Bytes(type, v)

VARIABLES
    payload, \* what is written of it
    open,    \* a message is being written: its fields are in body
    body,
    want,    \* history: what the payload says
    ends,    \* history: lengths of the payload at the ends of fields
    puts     \* how much was written, up to MaxFields

codecVars == <<payload, open, body, want, ends, puts>>

CodecInit ==
    /\ payload = << >> /\ open = FALSE /\ body = << >>
    /\ want = Blank /\ ends = {} /\ puts = 0

Count == puts < MaxFields /\ puts' = puts + 1

\* Of several members of the oneof the last one counts.  (Two messages of one
\* kind are not written: protobuf would merge them, the driver does not.)
Begin(k) ==
    /\ ~open /\ Count
    /\ k # want.kind
    /\ open' = TRUE /\ body' = << >>
    /\ want' = [Blank EXCEPT !.kind = k]
    /\ UNCHANGED <<payload, ends>>

Says(field, v) ==
    IF field.member = "none" THEN want
    ELSE [want EXCEPT ![field.member] = IF field.type \in Repeated THEN @ \o v ELSE v]

\* A message's length is a varint too.
Put(field, v) ==
    /\ open /\ Count
    /\ body' = body \o Tagged(field.f, field.type, v) /\ Len(body') < Word
    /\ want' = Says(field, v)
    /\ UNCHANGED <<payload, open, ends>>

\* An element of a repeated field that is not packed, the older form.
PutUnpacked(field, v) ==
    /\ open /\ Count
    /\ body' = body \o Tagged(field.f, Element(field.type), v) /\ Len(body') < Word
    /\ want' = Says(field, <<v>>)
    /\ UNCHANGED <<payload, open, ends>>

End ==
    /\ open
    /\ open' = FALSE /\ body' = << >>
    /\ payload' = payload \o wrap(want.kind, body)
    /\ ends' = ends \cup {Len(payload')}
    /\ UNCHANGED <<want, puts>>

\* A field beside the oneof, of a later version.
PutBeside(field, v) ==
    /\ ~open /\ Count
    /\ payload' = payload \o Tagged(field.f, field.type, v)
    /\ ends' = ends \cup {Len(payload')}
    /\ UNCHANGED <<open, body, want>>

NextPayload ==
    /\ ~open /\ payload # << >>
    /\ payload' = << >> /\ want' = Blank /\ ends' = {} /\ puts' = 0
    /\ UNCHANGED <<open, body>>

FieldsOf(k) == {field \in Schema : field.kind = k} \cup Later(k)

CodecNext ==
    \/ \E k \in MsgKinds : Begin(k)
    \/ \E field \in FieldsOf(want.kind) :
          \/ \E v \in Written(field.type) : Put(field, v)
          \/ field.type \in Repeated /\ \E v \in Written(Element(field.type)) : PutUnpacked(field, v)
    \/ End
    \/ \E field \in Later(kNone) : \E v \in Written(field.type) : PutBeside(field, v)
    \/ NextPayload

CodecSpec == CodecInit /\ [][CodecNext]_codecVars

-----------------------------------------------------------------------------
(* Properties *)

\* The driver understands what the app means: fields in any order, repeated, of
\* a later schema, packed or not, with or without defaults; and of several
\* messages the last one, with nothing left of those before it.  A payload cut
\* short is rejected, unless it ends where a field does.
Understood ==
    /\ ~open => LET d == decode(payload) IN
                d.ok = (want.kind # kNone) /\ (d.ok => d.v = want)
    /\ \A n \in 1 .. Len(payload) - 1 :
          decode(SubSeq(payload, 1, n)).ok => n \in ends

\* Whatever the driver sends, a reader of the schema gets back; negative ids and
\* ids at the end of a group of a varint too.
SentAsMeant ==
    ~open /\ payload # << >> =>
        /\ want.kind = kTrackerStatus =>
              decode(encode_status(want.tracker_id, want.status)) =
                  [ok |-> TRUE, v |-> [want EXCEPT !.battery = Zero]]
        /\ want.kind = kPosition /\ Len(want.q) = 4 /\ Len(want.pos) = 3 =>
              decode(encode_position(want.tracker_id, want.q, want.pos)) =
                  [ok |-> TRUE, v |-> want]
        /\ \A v \in Ints : decode(encode_path_failed(v)).v.kind = kPathFailed
        /\ \A v \in Floats :
              /\ decode(encode_universe(v, <<v, v, v>>)).v.kind = kUniverseChange
              /\ encode_universe(v, <<v, v, v>>) =
                    wrap(kUniverseChange,
                         (IF v = Zero THEN << >> ELSE Tagged(1, "float", v))
                         \o Tagged(2, "floats", <<v, v, v>>))

=============================================================================
