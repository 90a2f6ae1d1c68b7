------------------------------ MODULE Framing -------------------------------
(***************************************************************************)
(* The frame codec (src/src/framing.cpp, src/src/mac.cpp): what the pack   *)
(* functions put on the wire and what parse_frame_bytes makes of it.       *)
(*                                                                         *)
(* The bytes of a payload are given by what they are the text of and by    *)
(* whether they are a zstd frame of it; only their size is counted.  CRC   *)
(* and HMAC are taken as injective: a checksum equals another only when it *)
(* was computed over the same bytes, and with the same key.                *)
(***************************************************************************)
EXTENDS Naturals, Sequences

CONSTANTS
    Texts,        \* payloads
    PlainSize,    \* the size of each of them,
    ZipSize,      \* and of its zstd frame
    MaxPayload,   \* MAX_PAYLOAD_SIZE
    Threshold,    \* COMPRESS_THRESHOLD
    TargetWidth,  \* bytes of the header's target field
    Keys,         \* session keys
    NoKey         \* a null session_key

ASSUME CodecAssumption ==
    /\ PlainSize \in [Texts -> Nat] /\ ZipSize \in [Texts -> Nat]
    /\ MaxPayload \in Nat /\ Threshold \in Nat /\ TargetWidth \in Nat
    /\ NoKey \notin Keys

Flags == {"MAC", "COMPRESSED", "FRAGMENTED", "RAW"}
Bytes == [of : Texts, zipped : BOOLEAN]
Plain(text) == [of |-> text, zipped |-> FALSE]

Size(b) == IF b.zipped THEN ZipSize[b.of] ELSE PlainSize[b.of]
vynkor_crc32(b) == [sum |-> b]

NoTag == <<"no tag">>
\* Bytes that were never written as a tag, read where one is expected.
Garbage == <<"garbage">>
compute_tag(key, header, b) == <<key, header, b>>
verify_tag(key, header, b, tag) == tag = compute_tag(key, header, b)

-----------------------------------------------------------------------------
(***************************************************************************)
(* Packing.  Every pack function refuses a payload above MAX_PAYLOAD_SIZE. *)
(***************************************************************************)
Packable(b) == Size(b) <= MaxPayload

\* A target is a tuple; the header keeps as much of it as fits.
target_to_bytes(target) ==
    IF Len(target) <= TargetWidth THEN target ELSE SubSeq(target, 1, TargetWidth)

build_header(flags, target, b) ==
    [flags |-> flags, length |-> Size(b), target |-> target_to_bytes(target),
     crc |-> vynkor_crc32(b)]

Wire(header, b, tag) == [header |-> header, body |-> b, tag |-> tag]

\* The CRC-only frame.
pack_frame(target, b, flags) == Wire(build_header(flags, target, b), b, NoTag)

pack_frame_mac(target, b, key, flags) ==
    LET header == build_header({"MAC"} \cup flags, target, b)
    IN  Wire(header, b, compute_tag(key, header, b))

serialize_header_ws(target, flags, b) == build_header(flags, target, b)

\* The WebSocket transport's writer: never compresses.
pack_frame_ws(target, flags, b, key) ==
    LET header == serialize_header_ws(target, flags, b)
    IN  Wire(header, b, IF key = NoKey THEN NoTag ELSE compute_tag(key, header, b))

zstd_compress_level3(b) == [of |-> b.of, zipped |-> TRUE]

\* Compressed when it is large, not already compressed or raw, and shrinks.  A zstd frame
\* does not shrink again.
Compresses(flags, b) ==
    /\ Size(b) >= Threshold /\ flags \cap {"COMPRESSED", "RAW"} = {} /\ ~b.zipped
    /\ Size(zstd_compress_level3(b)) < Size(b)

\* Mutant: the tag is computed over what goes on the wire.
pack_frame_raw_tag_last(target, flags, b, key) ==
    LET zip    == Compresses(flags, b)
        body   == IF zip THEN zstd_compress_level3(b) ELSE b
        header == build_header(IF zip THEN flags \cup {"COMPRESSED"} ELSE flags, target, body)
    IN  Wire(header, body, IF key = NoKey THEN NoTag ELSE compute_tag(key, header, body))
\* The UNIX socket's writer.  The tag covers the header and payload before compression.
pack_frame_raw(target, flags, b, key) ==
    LET tag  == IF key = NoKey THEN NoTag
                ELSE compute_tag(key, build_header(flags, target, b), b)
        zip  == Compresses(flags, b)
        body == IF zip THEN zstd_compress_level3(b) ELSE b
    IN  Wire(build_header(IF zip THEN flags \cup {"COMPRESSED"} ELSE flags, target, body),
             body, tag)

-----------------------------------------------------------------------------
(***************************************************************************)
(* Parsing.                                                                *)
(***************************************************************************)
Decompressible(b) == b.zipped /\ PlainSize[b.of] <= MaxPayload
zstd_decompress_bounded(b) == Plain(b.of)

Refused == [ok |-> FALSE]

\* The result for a frame whose magic and length are in order and whose bytes are all
\* there; tag is what stands where the header promises one.
parse_frame_bytes(header, body, tag, key) ==
    LET zip       == "COMPRESSED" \in header.flags
        flags     == header.flags \ {"COMPRESSED"}
        payload   == IF zip THEN zstd_decompress_bounded(body) ELSE body
        effective == IF zip THEN build_header(flags, header.target, payload) ELSE header
        has_mac   == "MAC" \in flags
    IN  IF \/ header.crc # vynkor_crc32(body)
           \/ zip /\ ~Decompressible(body)
           \/ key # NoKey /\ ~(has_mac /\ verify_tag(key, effective, payload, tag))
        THEN Refused
        ELSE [ok |-> TRUE, payload |-> payload, flags |-> flags, header |-> effective,
              has_mac |-> has_mac]
=============================================================================
