------------------------------- MODULE Codec -------------------------------
(* The wire codec of the model crate (message.rs, record.rs): names with    *)
(* compression pointers, resource data, records and messages, and the wire  *)
(* form of names in cache keys (cache/store.rs).                            *)
(*                                                                          *)
(* An octet is a number below 4 * Quarter, and its two top bits are its     *)
(* quarter; in the code Quarter is 64.  A buffer is a sequence of octets,   *)
(* offsets count from 0.  Letter case is not modelled.                      *)
EXTENDS Integers, Sequences, SequencesExt

CONSTANTS
    Quarter,
    U16, U32,       \* the widths of the two kinds of numbers, 2 and 4
    NameLimit       \* 255

ASSUME CodecAssumption == {Quarter, U16, U32, NameLimit} \subseteq Nat \ {0}

Base == 4 * Quarter

At(buf, i) == buf[i + 1]
Slice(buf, from, to) == SubSeq(buf, from + 1, to)

(* A loop that runs over the elements of a sequence.                        *)
Loop(Body(_, _), start, seq) ==
    LET after[i \in 0 .. Len(seq)] ==
            IF i = 0 THEN start ELSE Body(after[i - 1], seq[i])
    IN  after[Len(seq)]

Concat(parts) == Loop(LAMBDA s, part : s \o part, <<>>, parts)

Number(octets) == Loop(LAMBDA n, o : n * Base + o, 0, octets)
Octets(n, width) == [i \in 1 .. width |-> (n \div Base ^ (width - i)) % Base]

(* What a reader returns: where the next one begins, and what it has read.  *)
Ok(pos, value) == [ok |-> TRUE, pos |-> pos, value |-> value]
Err == [ok |-> FALSE]

-----------------------------------------------------------------------------
(* decode_name.  One turn of its loop; labels beyond the limit only matter  *)
(* for being beyond it, and total is capped there.                          *)
NameStart(pos) ==
    [cur |-> pos, jumped |-> FALSE, end |-> 0, labels |-> <<>>, total |-> 1,
     status |-> "running"]

FollowPointer(buf, s) ==
    LET target == (At(buf, s.cur) % Quarter) * Base + At(buf, s.cur + 1) IN
    IF s.cur + 1 >= Len(buf) THEN [s EXCEPT !.status = "Truncated"]
    ELSE IF target >= s.cur THEN [s EXCEPT !.status = "BadNamePointer"]
    ELSE [s EXCEPT !.cur = target, !.jumped = TRUE,
                   !.end = IF s.jumped THEN @ ELSE s.cur + 2]

ReadLabel(buf, s) ==
    LET len == At(buf, s.cur)
        next == s.cur + 1 + len
        long == s.total + len + 1 > NameLimit
    IN
    IF next > Len(buf) THEN [s EXCEPT !.status = "Truncated"]
    ELSE [s EXCEPT !.cur = next,
                   !.total = IF long THEN NameLimit + 1 ELSE @ + len + 1,
                   !.labels = IF long THEN <<>> ELSE Append(@, Slice(buf, s.cur + 1, next))]

NameStep(buf, s) ==
    IF s.status # "running" THEN s
    ELSE IF s.cur >= Len(buf) THEN [s EXCEPT !.status = "Truncated"]
    ELSE LET octet == At(buf, s.cur) IN
         CASE octet >= 3 * Quarter -> FollowPointer(buf, s)
           [] octet \in Quarter .. 3 * Quarter - 1 -> [s EXCEPT !.status = "BadNamePointer"]
           [] octet \in 1 .. Quarter - 1 -> ReadLabel(buf, s)
           [] octet = 0 ->
                [s EXCEPT !.cur = @ + 1,
                          !.status = IF s.total > NameLimit THEN "NameTooLong" ELSE "Ok"]

NameStates ==
    [cur : Nat, jumped : BOOLEAN, end : Nat, labels : Seq(Seq(Nat)), total : Nat, status : STRING]

(* The loop, as long as it visits no offset twice.                          *)
DecodeName(buf, pos) ==
    LET run[turns \in Nat, s \in NameStates] ==
            IF turns = 0 \/ s.status # "running" THEN s ELSE run[turns - 1, NameStep(buf, s)]
        last == run[Len(buf) + 1, NameStart(pos)]
    IN  IF last.status # "Ok" THEN Err
        ELSE Ok(IF last.jumped THEN last.end ELSE last.cur, last.labels)

NameFits(name) ==
    /\ \A i \in DOMAIN name : Len(name[i]) < Quarter
    /\ Loop(LAMBDA n, label : n + Len(label) + 1, 1, name) <= NameLimit

EncodeName(name) == Concat([i \in DOMAIN name |-> <<Len(name[i])>> \o name[i]]) \o <<0>>

ReadNumber(buf, pos, width) ==
    IF pos + width > Len(buf) THEN Err
    ELSE Ok(pos + width, Number(Slice(buf, pos, pos + width)))

-----------------------------------------------------------------------------
(* A run of fields, read one after the other until one fails.               *)
ReadField(buf, pos, kind) ==
    CASE kind = "name" -> DecodeName(buf, pos)
      [] kind = "u16" -> ReadNumber(buf, pos, U16)
      [] kind = "u32" -> ReadNumber(buf, pos, U32)

ReadFields(buf, pos, format) ==
    LET Then(r, kind) ==
            IF ~r.ok THEN r
            ELSE LET f == ReadField(buf, r.pos, kind)
                 IN  IF f.ok THEN Ok(f.pos, Append(r.value, f.value)) ELSE Err
    IN  Loop(Then, Ok(pos, <<>>), format)

WriteFields(values, format) ==
    Concat([i \in DOMAIN format |->
        CASE format[i] = "name" -> EncodeName(values[i])
          [] format[i] = "u16" -> Octets(values[i], U16)
          [] format[i] = "u32" -> Octets(values[i], U32)])

TypeOf(code) ==
    CASE code = 1 -> "A" [] code = 2 -> "Ns" [] code = 5 -> "Cname" [] code = 6 -> "Soa"
      [] code = 12 -> "Ptr" [] code = 15 -> "Mx" [] code = 16 -> "Txt" [] code = 28 -> "Aaaa"
      [] OTHER -> "Other"

OptType == 41

Format(type) ==
    CASE type \in {"Cname", "Ptr", "Ns"} -> <<"name">>
      [] type = "Mx" -> <<"u16", "name">>
      [] type = "Soa" -> <<"name", "name", "u32", "u32", "u32", "u32", "u32">>
      [] OTHER -> <<>>

(* The character-strings of a TXT record.                                   *)
ReadStrings(buf, start, end) ==
    LET Take(r, i) ==
            IF ~r.ok \/ r.pos >= end THEN r
            ELSE LET p == r.pos + 1 + At(buf, r.pos) IN
                 IF p > end THEN Err ELSE Ok(p, Append(r.value, Slice(buf, r.pos + 1, p)))
    IN  Loop(Take, Ok(start, <<>>), [i \in 1 .. end - start |-> i])

(* RData::decode.  Data of a fixed size, or whose fields must fill it, or   *)
(* that is taken as it is.                                                  *)
DecodeRData(buf, pos, type, rdlength) ==
    LET end == pos + rdlength
        raw == Ok(end, Slice(buf, pos, end))
        fields == ReadFields(buf, pos, Format(type))
    IN
    CASE end > Len(buf) -> Err
      [] end <= Len(buf) /\ type = "A" -> IF rdlength # U32 THEN Err ELSE raw
      [] end <= Len(buf) /\ type = "Aaaa" -> IF rdlength # 4 * U32 THEN Err ELSE raw
      [] end <= Len(buf) /\ type = "Txt" -> ReadStrings(buf, pos, end)
      [] end <= Len(buf) /\ type = "Other" -> raw
      [] OTHER -> IF ~fields.ok \/ fields.pos # end THEN Err ELSE fields

EncodeRData(type, data) ==
    CASE type \in {"A", "Aaaa", "Other"} -> data
      [] type = "Txt" -> Concat([i \in DOMAIN data |-> <<Len(data[i])>> \o data[i]])
      [] OTHER -> WriteFields(data, Format(type))

-----------------------------------------------------------------------------
(* Class::from_u16: 0 is no class.  The other values are all kept.          *)
ValidClass(code) == code # 0

(* decode_rr: a class of 0, and the sign of a TTL, are legal in OPT only.   *)
RecordFormat == <<"name", "u16", "u16", "u32", "u16">>

DecodeRecord(buf, pos) ==
    LET head == ReadFields(buf, pos, RecordFormat)
        f == head.value
        data == DecodeRData(buf, head.pos, TypeOf(f[2]), f[5])
        negative == f[4] >= Base ^ U32 \div 2
    IN
    IF ~head.ok THEN Err
    ELSE IF ~ValidClass(f[3]) /\ f[2] # OptType THEN Err
    ELSE IF ~data.ok THEN Err
    ELSE Ok(data.pos, [name |-> f[1], type |-> f[2], class |-> f[3], data |-> data.value,
                       ttl |-> IF negative /\ f[2] # OptType THEN 0 ELSE f[4]])

EncodeRecord(rr) ==
    LET data == EncodeRData(TypeOf(rr.type), rr.data)
    IN  WriteFields(<<rr.name, rr.type, rr.class, rr.ttl, Len(data)>>, RecordFormat) \o data

(* decode_question.                                                         *)
DecodeQuestion(buf, pos) ==
    LET f == ReadFields(buf, pos, <<"name", "u16", "u16">>)
    IN  IF ~f.ok THEN Err ELSE IF ~ValidClass(f.value[3]) THEN Err ELSE f

(* Message::decode and encode_into.  A section has as many entries as the   *)
(* header announces; the flags are those of DecodeFlags below.              *)
ReadSection(buf, r, count, Reader(_, _)) ==
    LET Then(s, i) ==
            IF ~s.ok THEN s
            ELSE LET e == Reader(buf, s.pos)
                 IN  IF e.ok THEN Ok(e.pos, Append(s.value, e.value)) ELSE Err
        section == Loop(Then, Ok(r.pos, <<>>), [i \in 1 .. count |-> i])
    IN  IF ~r.ok THEN r ELSE IF ~section.ok THEN Err
        ELSE Ok(section.pos, Append(r.value, section.value))

Decode(buf) ==
    LET header == ReadFields(buf, 0, <<"u16", "u16", "u16", "u16", "u16", "u16">>)
        h == header.value
        questions == ReadSection(buf, Ok(header.pos, SubSeq(h, 1, 2)), h[3], DecodeQuestion)
        answers == ReadSection(buf, questions, h[4], DecodeRecord)
        authorities == ReadSection(buf, answers, h[5], DecodeRecord)
    IN  IF ~header.ok THEN Err ELSE ReadSection(buf, authorities, h[6], DecodeRecord)

Encode(message) ==
    WriteFields(SubSeq(message, 1, 2) \o [i \in 1 .. 4 |-> Len(message[i + 2])],
                <<"u16", "u16", "u16", "u16", "u16", "u16">>)
        \o Concat([i \in DOMAIN message[3] |->
                        WriteFields(message[3][i], <<"name", "u16", "u16">>)])
        \o Concat([i \in DOMAIN (message[4] \o message[5] \o message[6]) |->
                        EncodeRecord((message[4] \o message[5] \o message[6])[i])])

(* Encoding fails for a name, a string, the data of a record or a message   *)
(* that is too long.                                                        *)
RecordFits(rr) ==
    LET type == TypeOf(rr.type)
        names == {i \in DOMAIN Format(type) : Format(type)[i] = "name"}
    IN  /\ NameFits(rr.name)
        /\ \A i \in names : NameFits(rr.data[i])
        /\ type = "Txt" => \A i \in DOMAIN rr.data : Len(rr.data[i]) < Base
        /\ Len(EncodeRData(type, rr.data)) < Base ^ U16

MessageFits(message) ==
    /\ \A q \in ToSet(message[3]) : NameFits(q[1])
    /\ \A rr \in ToSet(message[4] \o message[5] \o message[6]) : RecordFits(rr)
    /\ \A i \in 3 .. 6 : Len(message[i]) < Base ^ U16
    /\ Len(Encode(message)) < Base ^ U16

-----------------------------------------------------------------------------
(* The flags of a header at their real width.  Opcode and Rcode keep any    *)
(* four bits; the three bits between them have no field.                    *)
Bit(flags, n) == (flags \div 2 ^ n) % 2
Opcode(flags) == (flags \div 2 ^ 11) % 16
Rcode(flags) == flags % 16

DecodeFlags(flags) ==
    [qr |-> Bit(flags, 15), opcode |-> Opcode(flags), authoritative |-> Bit(flags, 10),
     truncated |-> Bit(flags, 9), recursionDesired |-> Bit(flags, 8),
     recursionAvailable |-> Bit(flags, 7), rcode |-> Rcode(flags)]

EncodeFlags(h) ==
    h.qr * 2 ^ 15 + h.opcode * 2 ^ 11 + h.authoritative * 2 ^ 10 + h.truncated * 2 ^ 9
        + h.recursionDesired * 2 ^ 8 + h.recursionAvailable * 2 ^ 7 + h.rcode

-----------------------------------------------------------------------------
(* KeyBuf::new, wire_name and the two purges of the cache.  A key is a      *)
(* prefix of fixed width and the wire form of the question's name, which    *)
(* must fit: the loop of the one and the last line of the other agree.      *)
KeyNameOffset == U32 + 2 * U16 + 1
MaxKeyLen == KeyNameOffset + NameLimit

KeyFits(name) ==
    \A i \in DOMAIN name :
        /\ Len(name[i]) < Quarter
        /\ KeyNameOffset + Len(EncodeName(SubSeq(name, 1, i))) <= MaxKeyLen

WireFits(name) ==
    (\A i \in DOMAIN name : Len(name[i]) < Quarter) /\ Len(EncodeName(name)) <= NameLimit

KeyOf(q) ==
    Octets(q.group, U32) \o Octets(q.type, U16) \o Octets(q.class, U16)
        \o <<q.recursionDesired + 2 * q.dnssecOk>> \o EncodeName(q.name)

KeyName(key) == Slice(key, KeyNameOffset, Len(key))
KeyType(key) == Number(Slice(key, U32, U32 + U16))

(* The suffixes of a wire name that begin at a label are compared with the  *)
(* zone, the last of them being the root.                                   *)
InSubtree(name, zone) ==
    LET Compare(r, i) ==
            IF r.found \/ r.at >= Len(name) THEN r
            ELSE IF Slice(name, r.at, Len(name)) = zone THEN [r EXCEPT !.found = TRUE]
            ELSE [r EXCEPT !.at = IF At(name, @) = 0 THEN Len(name) ELSE @ + 1 + At(name, @)]
    IN  Loop(Compare, [at |-> 0, found |-> FALSE], name).found

(* types is the set of the one type asked for, or empty for every type.     *)
Purged(key, name, types) ==
    /\ WireFits(name)
    /\ KeyName(key) = EncodeName(name)
    /\ types # {} => KeyType(key) \in types

SubtreePurged(key, zone) == WireFits(zone) /\ InSubtree(KeyName(key), EncodeName(zone))

=============================================================================
