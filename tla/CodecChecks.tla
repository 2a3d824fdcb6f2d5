---------------------------- MODULE CodecChecks ----------------------------
(* The operators of Codec checked against what they promise, over all small *)
(* inputs.  TLC evaluates the assumptions below with octets of six bits,    *)
(* one octet to a short number and two to a long one, so that every type    *)
(* code the code knows is a short number.                                   *)
EXTENDS Codec

(* Names of at most three labels, the longest of which reach the limit.     *)
SmallLabels == {<<1>>, <<2>>, <<1, 2>>}
SmallNames == UNION {[1 .. n -> SmallLabels] : n \in 0 .. 3}

TypeCodes == {1, 2, 5, 6, 12, 15, 16, 28, OptType}

-----------------------------------------------------------------------------
(* Flags survive decoding and encoding, all but the three bits without a    *)
(* field (message.rs, decode_header and encode_header).                     *)
ASSUME FlagsKept ==
    \A flags \in 0 .. 2 ^ 16 - 1 :
        EncodeFlags(DecodeFlags(flags)) = flags - ((flags \div 16) % 8) * 16

(* All data of up to three octets, from labels, ends, pointers and illegal  *)
(* octets, before a tail of zeros.                                          *)
Padding == [i \in 1 .. 12 |-> 0]
SmallOctets == {0, 1, 2, Quarter, 3 * Quarter}
SmallData == UNION {[1 .. n -> SmallOctets] : n \in 0 .. 3}
Owner == <<1, 7, 0>>

(* A name is its first label and the name after it, and a pointer stands    *)
(* for the name it points to, itself perhaps a pointer, and takes up two    *)
(* octets whatever it points to (message.rs, decode_name).                  *)
ASSUME NamesRead ==
    \A data \in SmallData :
        LET buf == <<0, 3 * Quarter, 0>> \o data \o <<0>> IN
        \A pos \in 0 .. Len(buf) - 1 :
            LET r == DecodeName(buf, pos)
                octet == At(buf, pos)
                rest == DecodeName(buf, pos + 1 + octet)
                target == DecodeName(buf, (octet % Quarter) * Base + At(buf, pos + 1))
            IN  r.ok =>
                    \/ octet = 0 /\ r = Ok(pos + 1, <<>>)
                    \/ octet \in 1 .. Quarter - 1
                        /\ rest.ok
                        /\ r = Ok(rest.pos, <<Slice(buf, pos + 1, pos + 1 + octet)>> \o rest.value)
                    \/ octet >= 3 * Quarter /\ target.ok /\ r = Ok(pos + 2, target.value)

(* Data that decodes ends exactly where its record says, whatever pointers  *)
(* and strings are in it, so the next record is read from its first octet   *)
(* (record.rs, RData::decode).                                              *)
ASSUME DataFramed ==
    \A data \in SmallData : \A code \in TypeCodes : \A rdlength \in 0 .. 16 :
        LET buf == Owner \o data \o Padding
            r == DecodeRData(buf, Len(Owner), TypeOf(code), rdlength)
        IN  r.ok => r.pos = Len(Owner) + rdlength

(* A record that was decoded and is sent on is decoded again as the same    *)
(* record: no pointer, clamped TTL or size in a class is left to mean       *)
(* something else in the new message (message.rs, decode_rr, encode_rr).    *)
ASSUME RecordsKept ==
    \A data \in SmallData : \A code \in TypeCodes : \A class \in {0, 1} :
    \A ttl \in {1, Base ^ U32 \div 2} : \A rdlength \in 0 .. 16 :
        LET fields == <<code, class>> \o Octets(ttl, U32) \o <<rdlength>>
            r == DecodeRecord(Owner \o fields \o data \o Padding, 0)
        IN  r.ok /\ RecordFits(r.value) =>
                LET wire == EncodeRecord(r.value)
                IN  DecodeRecord(wire, 0) = Ok(Len(wire), r.value)

(* A message keeps its sections and their order (Message::decode, encode).  *)
Records == {[name |-> <<<<1>>>>, type |-> 1, class |-> 1, ttl |-> 3, data |-> <<4, 5>>],
            [name |-> <<>>, type |-> OptType, class |-> 0, ttl |-> Base ^ U32 - 1, data |-> <<>>],
            [name |-> <<<<1>>, <<2>>>>, type |-> 15, class |-> 3, ttl |-> 0,
             data |-> <<7, <<<<2>>>> >>]}
Sections == UNION {[1 .. n -> Records] : n \in 0 .. 2}
Questions == {<<>>, << <<<<<<1>>>>, 1, 1>> >>, << <<<<>>, 2, 3>>, <<<<<<2>>>>, 41, 1>> >>}

ASSUME MessagesKept ==
    \A questions \in Questions : \A first, second, third \in Sections :
        LET message == <<9, 5, questions, first, second, third>>
        IN  MessageFits(message) =>
                Decode(Encode(message)) = Ok(Len(Encode(message)), message)

-----------------------------------------------------------------------------
(* A name has a cache key exactly when it can be purged, and a purge of a   *)
(* zone removes the names at or below it at whole labels and no other, for  *)
(* all shapes of the question (store.rs, KeyBuf::new, in_subtree, purge).   *)
SmallQuestions ==
    [group : {0, Base}, type : {1, 28}, class : {1}, recursionDesired : {1}, dnssecOk : {0, 1},
     name : {name \in SmallNames : KeyFits(name)}]

ASSUME PurgesExact ==
    /\ \A name \in SmallNames : KeyFits(name) <=> WireFits(name)
    /\ \A q, r \in SmallQuestions : KeyOf(q) = KeyOf(r) => q = r
    /\ \A q \in SmallQuestions : \A name \in SmallNames :
        /\ SubtreePurged(KeyOf(q), name) <=> WireFits(name) /\ IsSuffix(name, q.name)
        /\ \A types \in SUBSET {1} :
            Purged(KeyOf(q), name, types)
                <=> q.name = name /\ (types = {} \/ q.type \in types)

=============================================================================
