------------------------------- MODULE Codec --------------------------------
(***************************************************************************)
(* A message of the IPC protocol, from the object a program fills in to    *)
(* the object another one gets: encode, what may happen on the way (a peer *)
(* with a newer protocol adds fields, a transfer is cut off), decode; or   *)
(* toJSON and fromObject, the form the daemon and the GUI exchange.        *)
(*                                                                         *)
(* An object is the sequence of its own properties in the order they were  *)
(* set, each a name and a value; a value is a pair of its kind and its     *)
(* content.  The functions are those every class of ipc_generated.js has;  *)
(* the lines the map gives are those of one class that has the case.       *)
(***************************************************************************)
EXTENDS Messages, ProtoWire

CONSTANTS MaxFields,    \* properties set on one object
          MaxMembers,   \* members set of one oneof
          MaxTampered   \* properties of an object whose bytes a peer or a cut changes

ASSUME CodecAssumption == {MaxFields, MaxMembers, MaxTampered} \subseteq Nat

VARIABLES type,     \* the class
          long,     \* the receiving program has the Long library
          obj,      \* the sender's object
          enc,      \* what the writer holds after encode
          wire,     \* the bytes that reach the receiver
          got,      \* the receiver's object, as a Reader yields it
          stage     \* "build", "sent", "extended", "cut", "received", "parsed"

vars == <<type, long, obj, enc, wire, got, stage>>

-----------------------------------------------------------------------------
(***************************************************************************)
(* Fields and properties.                                                  *)
(***************************************************************************)
Integral == {"uint32", "uint64", "int64"} \cup DOMAIN Enums
IsLong(t) == t \in {"uint64", "int64"}

FieldNamed == [m \in DOMAIN Schema |->
    [n \in {f.name : f \in Range(Schema[m])} |-> CHOOSE f \in Range(Schema[m]) : f.name = n]]
FieldNumbered == [m \in DOMAIN Schema |->
    [i \in {f.id : f \in Range(Schema[m])} |-> CHOOSE f \in Range(Schema[m]) : f.id = i]]

Own(o) == {o[i][1] : i \in DOMAIN o}
Get(o, name) == o[CHOOSE i \in DOMAIN o : o[i][1] = name][2]
Set(o, name, value) ==
    IF name \in Own(o)
    THEN [i \in DOMAIN o |-> IF o[i][1] = name THEN <<name, value>> ELSE o[i]]
    ELSE Append(o, <<name, value>>)

\* oneOfGetter: the member set last, whatever else is set.
SetMembers(m, o) == SelectSeq(o, LAMBDA p : FieldNamed[m][p[1]].label = "member")
Payload(m, o) == IF SetMembers(m, o) = <<>> THEN "none" ELSE Last(SetMembers(m, o))[1]

\* oneOfSetter: the other members are deleted.
Selected(m, o, name) ==
    SelectSeq(o, LAMBDA p : FieldNamed[m][p[1]].label = "member" => p[1] = name)

-----------------------------------------------------------------------------
(***************************************************************************)
(* verify.                                                                 *)
(***************************************************************************)
KindOf(t) ==
    CASE t = "string" -> "str" [] t = "bool" -> "bool" [] t \in Integral -> "int"
      [] t \in {"float", "double"} -> "num" [] OTHER -> "msg"

RECURSIVE Verify(_, _)
VerifyValue(t, v) ==
    /\ v[1] = KindOf(t)
    /\ t \in DOMAIN Enums => \E i \in DOMAIN Enums[t] : v[2] = Bits(i - 1)
    /\ v[1] = "msg" => Verify(t, v[2])
VerifyFields(m, o) ==
    \A i \in DOMAIN o :
        LET f == FieldNamed[m][o[i][1]]
        IN  f.label \in {"one", "member"} => VerifyValue(f.type, o[i][2])
Verify(m, o) ==
    /\ Len(SetMembers(m, o)) <= 1
    /\ \A i \in DOMAIN o :
        LET f == FieldNamed[m][o[i][1]]
            v == o[i][2]
        IN  CASE f.label = "rep" -> v[1] = "list" /\ \A e \in Range(v[2]) : VerifyValue(f.type, e)
              [] f.label = "map" -> v[1] = "map"
              [] OTHER -> VerifyValue(f.type, v)

-----------------------------------------------------------------------------
(***************************************************************************)
(* encode.                                                                 *)
(***************************************************************************)
WireType(t) ==
    CASE t \in Integral \cup {"bool"} -> 0 [] t = "double" -> 1 [] t = "float" -> 5 [] OTHER -> 2

\* A string where a number belongs is not a number: its bits are none.
Number(v) == IF v[1] = "int" THEN v[2] ELSE {}

\* Each entry of a map is a message with a key and a value.
MapEntry(p) ==
    Delimited(WriteTag(1, 2) ++ WriteString(p[1]) ++ WriteTag(2, 2) ++ WriteString(p[2]))

RECURSIVE Encode(_, _)
EncodeValue(t, v) ==
    CASE t = "string" -> WriteString(v[2])
      [] t = "bool"   -> WriteBool(v[2])
      [] t = "uint32" -> WriteUint32(Number(v) \cap (0..31))
      [] IsLong(t)    -> WriteUint64(v[2])
      [] t \in DOMAIN Enums -> WriteInt32(v[2])
      \* a number is the four bytes of a float and what a double adds to it
      [] t = "float"  -> Written(4, v[2].float)
      [] t = "double" -> Written(8, v[2].rest \o v[2].float)
      [] OTHER        -> Delimited(Encode(t, v[2]))

\* What one property becomes: a field per element for an array, per key for a map.
EncodeField(f, v) ==
    LET tag == WriteTag(f.id, WireType(f.type))
    IN  CASE f.label = "rep" -> [i \in DOMAIN v[2] |-> tag ++ EncodeValue(f.type, v[2][i])]
          [] f.label = "map" -> [i \in DOMAIN v[2] |-> tag ++ MapEntry(v[2][i])]
          [] OTHER -> <<tag ++ EncodeValue(f.type, v)>>

Sorted(S) == [k \in 1..Cardinality(S) |->
                CHOOSE x \in S : Cardinality({y \in S : y < x}) = k - 1]

\* Properties are written in the order of their numbers, not in that of the object.
EncodedFields(m, o) ==
    LET ids == Sorted({FieldNamed[m][n].id : n \in Own(o)})
    IN  FlattenSeq([k \in DOMAIN ids |->
            LET f == FieldNumbered[m][ids[k]] IN EncodeField(f, Get(o, f.name))])
Encode(m, o) == Concat(EncodedFields(m, o))

-----------------------------------------------------------------------------
(***************************************************************************)
(* decode.                                                                 *)
(***************************************************************************)
Typed(kind, r) == IF r.ok THEN Read(<<kind, r.val>>, r.pos) ELSE Thrown

\* Without Long a 64-bit integer becomes a number.
ReadInt64(t, buf, pos) ==
    LET r == ReadLong(buf, pos)
    IN  IF r.ok /\ ~long THEN Read(ToNumber(r.val, t = "int64"), r.pos) ELSE r

RECURSIVE Decode(_, _, _, _, _), DecodeEntry(_, _, _, _)
ReadMessage(m, buf, pos) ==
    LET length == ReadUint32(buf, pos)
    IN  IF length.ok THEN Decode(m, buf, length.pos, length.pos + ToNat(length.val), <<>>)
        ELSE Thrown
ReadValue(t, buf, pos) ==
    CASE t = "string" -> Typed("str", ReadString(buf, pos))
      [] t = "bool" -> LET r == ReadUint32(buf, pos)
                       IN  IF r.ok THEN Read(<<"bool", r.val # {}>>, r.pos) ELSE Thrown
      [] t = "uint32" \/ t \in DOMAIN Enums -> Typed("int", ReadUint32(buf, pos))
      [] IsLong(t) -> Typed("int", ReadInt64(t, buf, pos))
      [] t = "float" -> LET r == ReadBytes(buf, pos, 4)
                        IN  IF r.ok THEN Read(<<"num", [float |-> r.val, rest |-> <<0, 0, 0, 0>>]>>, r.pos)
                            ELSE Thrown
      [] t = "double" -> LET r == ReadBytes(buf, pos, 8)
                         IN  IF r.ok
                             THEN Read(<<"num", [float |-> SubSeq(r.val, 5, 8), rest |-> SubSeq(r.val, 1, 4)]>>, r.pos)
                             ELSE Thrown
      [] OTHER -> Typed("msg", ReadMessage(t, buf, pos))

\* skipType: over a field the class does not know, by its wire type.  A group
\* ends with the next end of a group at its own level.
RECURSIVE SkipType(_, _, _), SkipGroup(_, _)
SkipType(buf, pos, wireType) ==
    LET length == ReadUint32(buf, pos)
    IN  CASE wireType = 0 -> SkipVarint(buf, pos)
          [] wireType = 1 -> ReadBytes(buf, pos, 8)
          [] wireType = 2 -> IF length.ok THEN ReadBytes(buf, length.pos, ToNat(length.val)) ELSE Thrown
          [] wireType = 3 -> SkipGroup(buf, pos)
          [] wireType = 5 -> ReadBytes(buf, pos, 4)
          [] OTHER -> Thrown
SkipGroup(buf, pos) ==
    LET tag == ReadUint32(buf, pos)
        wireType == ToNat(tag.val \cap 0..2)
        inner == SkipType(buf, tag.pos, wireType)
    IN  CASE ~tag.ok -> Thrown
          [] tag.ok /\ wireType = 4 -> Read({}, tag.pos)
          [] OTHER -> IF inner.ok THEN SkipGroup(buf, inner.pos) ELSE Thrown

\* A map entry: key and value are empty until they are read.
DecodeEntry(buf, pos, end, entry) ==
    LET tag == ReadUint32(buf, pos)
        id == ToNat(tag.val) \div 8
        next == IF id \in {1, 2} THEN ReadString(buf, tag.pos)
                ELSE SkipType(buf, tag.pos, ToNat(tag.val) % 8)
    IN  CASE pos >= end -> Read(entry, pos)
          [] pos < end /\ (~tag.ok \/ ~next.ok) -> Thrown
          [] OTHER -> DecodeEntry(buf, next.pos, end,
                          IF id \in {1, 2} THEN [entry EXCEPT ![id] = next.val] ELSE entry)
ReadEntry(buf, pos) ==
    LET length == ReadUint32(buf, pos)
    IN  IF length.ok THEN DecodeEntry(buf, length.pos, length.pos + ToNat(length.val), <<<<>>, <<>>>>)
        ELSE Thrown

\* What the object becomes by a field: an array grows, a key of a map is set,
\* anything else is replaced, a submessage as a whole.
StoreLast(f, o, v) ==
    CASE f.label = "rep" -> Set(o, f.name, <<"list", <<v>>>>)
      [] f.label = "map" -> Set(o, f.name, <<"map", <<v>>>>)
      [] OTHER -> Set(o, f.name, v)
Store(f, o, v) ==
    LET old == IF f.name \in Own(o) THEN Get(o, f.name)[2] ELSE <<>>
    IN  CASE f.label = "rep" -> Set(o, f.name, <<"list", Append(old, v)>>)
          [] f.label = "map" -> Set(o, f.name, <<"map", Set(old, v[1], v[2])>>)
          [] OTHER -> Set(o, f.name, v)

\* The loop of decode, from pos to before end: the field number alone decides,
\* and a number the class does not know is skipped by its wire type.
Decode(m, buf, pos, end, o) ==
    LET tag == ReadUint32(buf, pos)
        id == ToNat(tag.val) \div 8
        known == id \in DOMAIN FieldNumbered[m]
        f == FieldNumbered[m][id]
        next == IF ~known THEN SkipType(buf, tag.pos, ToNat(tag.val) % 8)
                ELSE IF f.label = "map" THEN ReadEntry(buf, tag.pos)
                ELSE ReadValue(f.type, buf, tag.pos)
    IN  CASE pos >= end -> Read(o, pos)
          [] pos < end /\ (~tag.ok \/ ~next.ok) -> Thrown
          [] OTHER -> Decode(m, buf, next.pos, end, IF known THEN Store(f, o, next.val) ELSE o)

Decoded(m, buf) == Decode(m, buf, 1, Len(buf) + 1, <<>>)

-----------------------------------------------------------------------------
(***************************************************************************)
(* toObject with the options of toJSON, and fromObject.                    *)
(***************************************************************************)
NonEmpty(o) == SelectSeq(o, LAMBDA p : p[2][1] \in {"list", "map"} => p[2][2] # <<>>)

\* 64-bit integers become digits, enum values their names if they have one.
RECURSIVE ToObject(_, _), FromObject(_, _)
ToValue(t, v) ==
    CASE IsLong(t) -> <<"digits", v[2]>>
      [] t \in DOMAIN Enums /\ \E i \in DOMAIN Enums[t] : Bits(i - 1) = v[2] ->
            <<"name", Enums[t][CHOOSE i \in DOMAIN Enums[t] : Bits(i - 1) = v[2]]>>
      [] v[1] = "msg" -> <<"msg", ToObject(t, v[2])>>
      [] OTHER -> v
Mapped(v, Op(_)) == IF v[1] = "list" THEN <<"list", [i \in DOMAIN v[2] |-> Op(v[2][i])]>>
                    ELSE IF v[1] = "map" THEN v ELSE Op(v)
ToObject(m, o) ==
    LET own == NonEmpty(o)
    IN  [i \in DOMAIN own |->
            LET f == FieldNamed[m][own[i][1]]
            IN  <<f.name, Mapped(own[i][2], LAMBDA v : ToValue(f.type, v))>>]

\* Digits are parsed into a Long or a number; a name stands for its number and
\* is ignored if the enum has none; a number is taken as it is.
FromValueFromOne(t, v) ==
    IF v[1] = "name" THEN <<"int", Bits(CHOOSE i \in DOMAIN Enums[t] : Enums[t][i] = v[2])>>
    ELSE IF v[1] = "digits" THEN <<"int", v[2]>> ELSE v
FromValue(t, v) ==
    CASE v[1] = "digits" -> <<"int", IF long THEN v[2] ELSE ToNumber(v[2], t = "int64")>>
      [] v[1] = "name" -> <<"int", Bits((CHOOSE i \in DOMAIN Enums[t] : Enums[t][i] = v[2]) - 1)>>
      [] v[1] = "msg" -> <<"msg", FromObject(t, v[2])>>
      [] t = "uint32" -> <<"int", Number(v) \cap (0..31)>>
      [] OTHER -> v
FromObject(m, o) ==
    LET fields == SelectSeq(Schema[m], LAMBDA f : f.name \in Own(o))
    IN  [i \in DOMAIN fields |->
            <<fields[i].name,
              Mapped(Get(o, fields[i].name), LAMBDA v : FromValue(fields[i].type, v))>>]

-----------------------------------------------------------------------------
(***************************************************************************)
(* What programs send: values at the limits of their types.                *)
(***************************************************************************)
Texts == {<<>>, <<97>>, <<233, 8364, 55357, 56832>>}
LongSamples ==
    {{}, 0..6, {7}, 0..13, {14}, {21}, 0..27, {28}, {35}, {49}, 0..55, {56}, 0..62, {63}, 0..63,
     0..52, {0, 53}, {0, 1, 53}, {0, 10, 60}, 9..63}
Floats == {[float |-> <<0, 0, 0, 0>>, rest |-> <<0, 0, 0, 0>>],
            [float |-> <<0, 0, 192, 63>>, rest |-> <<0, 0, 0, 0>>],
            [float |-> <<205, 204, 204, 61>>, rest |-> <<154, 153, 0, 0>>]}

\* A submessage has its first two properties and its first member.
RECURSIVE Filled(_)
Filling(f) ==
    LET v == CASE f.type = "string" -> <<"str", <<97, 233>>>>
               [] f.type = "bool" -> <<"bool", TRUE>>
               [] f.type \in Integral -> <<"int", {0}>>
               [] f.type \in {"float", "double"} ->
                    <<"num", [float |-> <<0, 0, 192, 63>>, rest |-> <<0, 0, 0, 0>>]>>
               [] OTHER -> <<"msg", Filled(f.type)>>
    IN  CASE f.label = "rep" -> <<"list", <<v>>>>
          [] f.label = "map" -> <<"map", <<<<<<107>>, <<118>>>>>>>>
          [] OTHER -> v
Filled(m) ==
    LET members == SelectSeq(Schema[m], LAMBDA f : f.label = "member")
        others == SelectSeq(Schema[m], LAMBDA f : f.label # "member")
        fields == SubSeq(others, 1, Min({2, Len(others)})) \o SubSeq(members, 1, Min({1, Len(members)}))
    IN  [i \in DOMAIN fields |-> <<fields[i].name, Filling(fields[i])>>]

Submessage == [m \in DOMAIN Schema |-> Filled(m)]
Typical == [m \in DOMAIN Schema |->
    [n \in DOMAIN FieldNamed[m] |-> Filling(FieldNamed[m][n])]]

Values(t) ==
    CASE t = "string" -> {<<"str", s>> : s \in Texts}
      [] t = "bool" -> {<<"bool", b>> : b \in BOOLEAN}
      [] t = "uint32" -> {<<"int", b>> : b \in {{}, {7}, 0..31, {32}}} \cup {<<"str", <<97>>>>}
      [] IsLong(t) -> {<<"int", b>> : b \in LongSamples}
      [] t \in DOMAIN Enums -> {<<"int", Bits(n)>> : n \in 0..Len(Enums[t])} \cup {<<"int", 0..31>>}
      [] t \in {"float", "double"} -> {<<"num", n>> : n \in Floats}
      [] OTHER -> {<<"msg", <<>>>>, <<"msg", Submessage[t]>>}
Samples(f) ==
    CASE f.label = "rep" ->
            {<<"list", <<>>>>, <<"list", <<Filling([f EXCEPT !.label = "one"])>>>>}
            \cup {<<"list", <<v, w>>>> : v, w \in Values(f.type)}
      [] f.label = "map" ->
            {<<"map", <<>>>>, <<"map", <<<<<<107>>, <<>>>>>>>>,
             <<"map", <<<<<<107>>, <<118>>>>, <<<<>>, <<233>>>>>>>>}
      [] OTHER -> Values(f.type)

\* Every value for an object's only property; one value for each of several.
Offered(f) ==
    CASE obj = <<>> -> Samples(f)
      [] obj # <<>> /\ \A p \in Range(obj) : p[2] = Typical[type][p[1]] -> {Typical[type][f.name]}
      [] OTHER -> {}

\* The objects whose bytes a peer or a cut changes: few properties, with every
\* value of a 64-bit integer and one value of the other types.
Tampered ==
    /\ Len(obj) <= MaxTampered
    /\ \A p \in Range(obj) : IsLong(FieldNamed[type][p[1]].type) \/ p[2] = Typical[type][p[1]]

\* Fields of a newer protocol: one of each wire type, and a group in a group.
UnknownFields ==
    {WriteTag(100, 0).bytes \o Varint(0..63), WriteTag(100, 1).bytes \o <<8, 1, 8, 1, 8, 1, 8, 1>>,
     WriteTag(100, 2).bytes \o <<2, 8, 1>>, WriteTag(100, 5).bytes \o <<8, 1, 8, 1>>,
     WriteTag(100, 3).bytes \o <<8, 1, 19, 20>> \o WriteTag(100, 4).bytes}

-----------------------------------------------------------------------------
Init ==
    /\ type \in DOMAIN Schema
    /\ long \in {l \in BOOLEAN : l => \E f \in Range(Schema[type]) : IsLong(f.type)}
    /\ obj = <<>>
    /\ enc = Nothing
    /\ wire = <<>>
    /\ got = Thrown
    /\ stage = "build"

\* message.field = value
Assign(f, v) ==
    /\ f.name \notin Own(obj)
    /\ f.label = "member" => Len(SetMembers(type, obj)) < MaxMembers
    /\ obj' = Set(obj, f.name, v)
    /\ UNCHANGED <<type, long, enc, wire, got, stage>>

\* message.kind = "field"
Select(f) ==
    /\ stage = "build"
    /\ f.label = "member"
    /\ obj' = Selected(type, obj, f.name)
    /\ UNCHANGED <<type, long, enc, wire, got, stage>>

Send ==
    /\ stage = "build"
    /\ enc' = Encode(type, obj)
    /\ wire' = Encode(type, obj).bytes
    /\ stage' = "sent"
    /\ UNCHANGED <<type, long, obj, got>>

\* The sender's protocol is newer than the receiver's.
Extend(u) ==
    /\ stage = "sent"
    /\ Tampered
    /\ wire' \in {u \o wire, wire \o u}
    /\ stage' = "extended"
    /\ UNCHANGED <<type, long, obj, enc, got>>

\* The sender stops in the middle.
Cut(n) ==
    /\ stage = "sent"
    /\ Tampered
    /\ n < Len(wire)
    /\ wire' = SubSeq(wire, 1, n)
    /\ stage' = "cut"
    /\ UNCHANGED <<type, long, obj, enc, got>>

Receive ==
    /\ stage \in {"sent", "extended", "cut"}
    /\ got' = Decoded(type, wire)
    /\ stage' = "received"
    /\ UNCHANGED <<type, long, obj, enc, wire>>

\* JSON.stringify on one side, JSON.parse and fromObject on the other.
ExchangeJSON ==
    /\ stage = "build"
    /\ got' = Read(FromObject(type, ToObject(type, obj)), 0)
    /\ stage' = "parsed"
    /\ UNCHANGED <<type, long, obj, enc, wire>>

Next ==
    \/ /\ stage = "build" /\ Len(obj) < MaxFields
       /\ \E f \in Range(Schema[type]) : \E v \in Offered(f) : Assign(f, v)
    \/ \E name \in Own(obj) : Select(FieldNamed[type][name])
    \/ Send
    \/ \E u \in UnknownFields : Extend(u)
    \/ \E n \in 0..Len(wire) : Cut(n)
    \/ Receive
    \/ ExchangeJSON

Spec == Init /\ [][Next]_vars

-----------------------------------------------------------------------------
(***************************************************************************)
(* Properties.                                                             *)
(***************************************************************************)
\* What verify does not look at: the range of a uint32, the precision of a
\* float, and what a number can hold of a 64-bit integer.
Exact(t, v) ==
    CASE t = "uint32" -> v[2] \subseteq 0..31
      [] t = "float" -> v[2].rest = <<0, 0, 0, 0>>
      [] IsLong(t) -> long \/ v[2] \subseteq 0..52 \/ (t = "int64" /\ 52..63 \subseteq v[2])
      [] OTHER -> TRUE
Faithful(m, o) ==
    /\ Verify(m, o)
    /\ \A p \in Range(o) : LET f == FieldNamed[m][p[1]]
                           IN  CASE f.label = "rep" -> \A e \in Range(p[2][2]) : Exact(f.type, e)
                                 [] f.label = "map" -> TRUE
                                 [] OTHER -> Exact(f.type, p[2])
Same(o1, o2) == Range(NonEmpty(o1)) = Range(NonEmpty(o2))

\* What verify accepts and the types can hold arrives as it was sent, through
\* every class, nesting, sign, length and limit (encode and decode together);
\* and the lengths a Writer adds up, from which ldelim takes the prefix of a
\* submessage and finish the size of the buffer, are those of the bytes.
RoundTrip ==
    stage = "received" /\ wire = enc.bytes =>
        /\ enc.len = Len(enc.bytes)
        /\ Faithful(type, obj) => got.ok /\ Same(got.val, obj) /\ got.pos = Len(wire) + 1

\* The same through JSON (toJSON and fromObject together).
JSONRoundTrip ==
    stage = "parsed" /\ Faithful(type, obj) => Same(got.val, obj)

\* A receiver that does not know a field reads the others as if it were not
\* there, whatever the field's wire type (skipType).
UnknownSkipped ==
    stage = "received" /\ Len(wire) > Len(enc.bytes) =>
        LET plain == Decoded(type, enc.bytes) IN got.ok /\ got.val = plain.val

\* A transfer that stops in the middle of a field is noticed.  The one
\* exception is readLongVarint, which takes its fourth byte, or the lack of
\* it, for the last when no more than four are left.
Boundaries == {Concat(SubSeq(EncodedFields(type, obj), 1, k)).len :
                    k \in 0..Len(EncodedFields(type, obj))}
CutNoticed ==
    stage = "received" /\ Len(wire) < Len(enc.bytes) /\ got.ok =>
        \/ Len(wire) \in Boundaries
        \/ Len(wire) > 3 /\ \A i \in (Len(wire) - 2)..Len(wire) : wire[i] > 127

\* Both sides see the same member of a oneof, by bytes and by JSON, if verify
\* accepts the object.  With two members set they need not: the sender sees
\* the one set last, a receiver of bytes the one with the highest number, a
\* receiver of JSON the one declared last.
PayloadAgrees ==
    stage \in {"received", "parsed"} /\ got.ok /\ Verify(type, obj) /\ Len(wire) >= Len(enc.bytes) =>
        Payload(type, got.val) = Payload(type, obj)
=============================================================================
