--------------------------- MODULE AnchorCodec ---------------------------
(* The DSM01 payload an anchor transaction carries: a magic number, the shard id with   *)
(* its length, the hash of the shard's last entry, the entry nonce and the intent id.   *)
(*                                                                                      *)
(* The lengths are parameters.  A shard id is a sequence of characters, one or two      *)
(* bytes each in UTF-8: its length in characters is not the one that is encoded.        *)
EXTENDS Integers, Sequences, SequencesExt

CONSTANTS
    Magic,      \* MAGIC, a sequence of bytes
    ShardMax,   \* SHARD_ID_MAX_BYTES
    HashBytes,  \* LAST_HASH_BYTES
    NonceBytes, \* ENTRY_NONCE_BYTES
    IdBytes,    \* INTENT_ID_BYTES
    Base        \* the number of byte values

VARIABLES
    intent,     \* an AnchorIntent
    data        \* the data field of some transaction on the chain

vars == <<intent, data>>

Byte == 0 .. Base - 1
BytesOf(n) == [1 .. n -> Byte]
PayloadError == <<>>
FixedBytes == Len(Magic) + 1 + HashBytes + NonceBytes + IdBytes
MinPayloadBytes == FixedBytes + 1
MaxPayloadBytes == FixedBytes + ShardMax

\* str.encode: "a" takes one byte, "e" with an accent two.
Chars == {"a", "e'"}
Utf8(shard) == FlattenSeq([i \in DOMAIN shard |-> IF shard[i] = "a" THEN <<1>> ELSE <<2, 3>>])

\* AnchorIntent admits shard ids by their characters.
ShardIds == UNION {[1 .. n -> Chars] : n \in 1 .. ShardMax}

\* struct.pack(">Q", n) and its inverse.
Pack(n) == [i \in 1 .. NonceBytes |-> (n \div Base ^ (NonceBytes - i)) % Base]
Unpack(bytes) == FoldLeft(LAMBDA acc, b : acc * Base + b, 0, bytes)

EncodePayload(i) ==
    LET shard == Utf8(i.shard)
    IN  IF Len(shard) = 0 \/ Len(shard) > ShardMax \/ i.nonce >= Base ^ NonceBytes
        THEN PayloadError
        ELSE Magic \o <<Len(shard)>> \o shard \o i.hash \o Pack(i.nonce) \o i.id

IsDsmAnchorPayload(d) ==
    /\ Len(d) \in MinPayloadBytes .. MaxPayloadBytes
    /\ SubSeq(d, 1, Len(Magic)) = Magic
    /\ d[Len(Magic) + 1] \in 1 .. ShardMax

\* decode_payload: the whole field is accounted for.
LengthsAgree(d) == Len(d) = FixedBytes + d[Len(Magic) + 1]

\* decode_payload: the intents the field stands for, none where PayloadError is raised.
DecodePayload(d) ==
    IF ~(IsDsmAnchorPayload(d) /\ LengthsAgree(d)) THEN {}
    ELSE LET shardAt == Len(Magic) + 1
             hashAt  == shardAt + d[shardAt]
             nonceAt == hashAt + HashBytes
             idAt    == nonceAt + NonceBytes
         IN  {[shard |-> s,
               hash  |-> SubSeq(d, hashAt + 1, nonceAt),
               nonce |-> Unpack(SubSeq(d, nonceAt + 1, idAt)),
               id    |-> SubSeq(d, idAt + 1, idAt + IdBytes)] :
                s \in {x \in ShardIds : Utf8(x) = SubSeq(d, shardAt + 1, hashAt)}}

Intents == [shard : ShardIds, hash : BytesOf(HashBytes), nonce : 0 .. Base ^ NonceBytes,
            id : BytesOf(IdBytes)]

NoIntent == [shard |-> <<>>, hash |-> <<>>, nonce |-> 0, id |-> <<>>]

Init == intent = NoIntent /\ data = PayloadError

\* The adapter encodes the intent of one anchor.
Encode(i) ==
    /\ intent = NoIntent
    /\ intent' = i /\ data' = EncodePayload(i)

\* Anybody may send a transaction to the account: a payload with one byte changed, cut off
\* or added.
Foreign ==
    /\ data = EncodePayload(intent) /\ data # PayloadError
    /\ \/ \E i \in DOMAIN data, b \in Byte : data' = [data EXCEPT ![i] = b]
       \/ data' = Front(data)
       \/ \E b \in Byte : data' = Append(data, b)
    /\ UNCHANGED intent

Next == (\E i \in Intents : Encode(i)) \/ Foreign

Spec == Init /\ [][Next]_vars

\* Decoding is the inverse of encoding, both ways: what was encoded is read back, and no
\* other field, a byte away from a payload, decodes to the intent of a payload.  An intent
\* the schema admits is refused by the encoder only for its length in bytes or its nonce.
RoundTrip ==
    /\ EncodePayload(intent) # PayloadError => DecodePayload(EncodePayload(intent)) = {intent}
    /\ \A i \in DecodePayload(data) : EncodePayload(i) = data
    /\ intent # NoIntent => (EncodePayload(intent) = PayloadError
         <=> \/ intent.nonce >= Base ^ NonceBytes
             \/ Len(intent.shard) + Len(SelectSeq(intent.shard, LAMBDA c : c # "a")) > ShardMax)
============================================================================
