------------------------- MODULE FrameReaderProofs --------------------------
(***************************************************************************)
(* Proofs about the frame codec and FrameReader, for every set of payloads,*)
(* requests and keys, every header and payload size and number of frames.  *)
(***************************************************************************)
EXTENDS FrameReader, TLAPS

-----------------------------------------------------------------------------
(***************************************************************************)
(* The codec.                                                              *)
(***************************************************************************)
\* What send checks before it packs.
Sendable(r) == r \in Requests /\ Packable(r.bytes) /\ (r.by = "mac" => skey # NoKey)

KeysOK == skey \in Keys \cup {NoKey} /\ rkey \in Keys \cup {NoKey} /\ ws \in BOOLEAN

\* Cutting a target that fits leaves it as it is.
LEMMA TargetOnce == target_to_bytes(target_to_bytes(Target)) = target_to_bytes(Target)
BY ReaderAssumption, CodecAssumption DEF target_to_bytes

\* The header of a cut target is that of the target.
LEMMA HeaderOnce ==
    ASSUME NEW flags, NEW b
    PROVE  build_header(flags, target_to_bytes(Target), b) = build_header(flags, Target, b)
BY TargetOnce DEF build_header

\* What the fields of a request are.
LEMMA RequestType ==
    ASSUME NEW r \in Requests
    PROVE  /\ r.by \in {"client", "crc", "mac", "corrupt"}
           /\ r.bytes \in Bytes /\ r.flags \subseteq Flags
           /\ r.bytes.of \in Texts /\ r.bytes.zipped \in BOOLEAN
           /\ ~r.bytes.zipped => Plain(r.bytes.of) = r.bytes
           /\ r.bytes.zipped => Plain(r.bytes.of) # r.bytes
<1>1. /\ r.by \in {"client", "crc", "mac", "corrupt"}
      /\ r.bytes \in Bytes /\ r.flags \subseteq Flags
  BY ReaderAssumption
<1>2. r.bytes.of \in Texts /\ r.bytes.zipped \in BOOLEAN
  BY <1>1 DEF Bytes
<1>3. ~r.bytes.zipped => Plain(r.bytes.of) = r.bytes
  BY <1>1 DEF Bytes, Plain
<1>4. r.bytes.zipped => Plain(r.bytes.of) # r.bytes
  BY <1>1 DEF Bytes, Plain
<1> QED
  BY <1>1, <1>2, <1>3, <1>4

\* The frame w carries the request r: header and body fit each other, what the flags and
\* the body stand for is what the request means, and the tag, if r is signed, is over
\* what r means, unless its sender compressed it.
Carries(w, r) ==
    LET zip == "COMPRESSED" \in w.header.flags
    IN  /\ w.header = build_header(w.header.flags, Target, w.body) /\ w.body \in Bytes
        /\ w.header.flags \ {"COMPRESSED"} = MeantFlags(r)
        /\ "COMPRESSED" \in r.flags => zip
        /\ zip /\ ~Decompressible(w.body)
             <=> "COMPRESSED" \in r.flags /\ ~Decompressible(r.bytes)
        /\ zip => (Decompressible(w.body) => Plain(w.body.of) = MeantBytes(r))
        /\ ~zip => w.body = MeantBytes(r)
        /\ SignedBy(r) = NoKey => w.tag = NoTag
        /\ SignedBy(r) # NoKey /\ "COMPRESSED" \notin r.flags =>
             w.tag = compute_tag(SignedBy(r), build_header(MeantFlags(r), Target, MeantBytes(r)),
                                 MeantBytes(r))
        /\ SignedBy(r) # NoKey /\ "COMPRESSED" \in r.flags =>
             \E header : w.tag = compute_tag(SignedBy(r), header, r.bytes)

\* The client's frame over a WebSocket, a CRC-only frame and a signed one: the body is the
\* bytes as they are.
LEMMA PlainCarries ==
    ASSUME NEW r \in Requests, NEW flags, NEW w, NEW tag,
           flags = r.flags \cup (IF SignedBy(r) = NoKey THEN {} ELSE {"MAC"}),
           w = Wire(build_header(flags, Target, r.bytes), r.bytes, tag),
           tag = IF SignedBy(r) = NoKey THEN NoTag
                 ELSE compute_tag(SignedBy(r), build_header(flags, Target, r.bytes), r.bytes)
    PROVE  Carries(w, r)
<1>1. /\ w.header = build_header(flags, Target, r.bytes) /\ w.header.flags = flags
      /\ w.body = r.bytes /\ w.tag = tag
  BY DEF Wire, build_header
<1>2. /\ flags \ {"COMPRESSED"} = MeantFlags(r)
      /\ "COMPRESSED" \in flags <=> "COMPRESSED" \in r.flags
  BY DEF MeantFlags
<1>3. r.bytes \in Bytes
  BY RequestType
<1>4. "COMPRESSED" \notin r.flags => MeantBytes(r) = r.bytes /\ MeantFlags(r) = flags
  BY <1>2 DEF MeantBytes
<1>5. "COMPRESSED" \in r.flags => MeantBytes(r) = Plain(r.bytes.of)
  BY DEF MeantBytes
<1> QED
  BY <1>1, <1>2, <1>3, <1>4, <1>5 DEF Carries

\* The client's frame over a UNIX socket, when it is compressed on the way.
LEMMA ZipCarries ==
    ASSUME NEW r \in Requests, Sendable(r), NEW flags, NEW w, NEW tag,
           flags = r.flags \cup (IF SignedBy(r) = NoKey THEN {} ELSE {"MAC"}),
           Compresses(flags, r.bytes),
           w = Wire(build_header(flags \cup {"COMPRESSED"}, Target, zstd_compress_level3(r.bytes)),
                    zstd_compress_level3(r.bytes), tag),
           tag = IF SignedBy(r) = NoKey THEN NoTag
                 ELSE compute_tag(SignedBy(r), build_header(flags, Target, r.bytes), r.bytes)
    PROVE  Carries(w, r)
<1> DEFINE b == zstd_compress_level3(r.bytes)
<1>1. /\ w.header = build_header(flags \cup {"COMPRESSED"}, Target, b)
      /\ w.header.flags = flags \cup {"COMPRESSED"}
      /\ w.body = b /\ w.tag = tag
  BY DEF Wire, build_header
<1>2. "COMPRESSED" \notin flags /\ ~r.bytes.zipped
  BY DEF Compresses
<1>3. /\ "COMPRESSED" \notin r.flags /\ MeantFlags(r) = flags /\ MeantBytes(r) = r.bytes
      /\ (flags \cup {"COMPRESSED"}) \ {"COMPRESSED"} = flags
  BY <1>2 DEF MeantFlags, MeantBytes
<1>4. b.of = r.bytes.of /\ b.zipped = TRUE /\ b \in Bytes
  BY RequestType DEF zstd_compress_level3, Bytes
<1>5. Decompressible(b) /\ Plain(b.of) = r.bytes
  <2>1. PlainSize[r.bytes.of] <= MaxPayload
    BY <1>2 DEF Sendable, Packable, Size
  <2> QED
    BY <1>2, <1>4, <2>1, RequestType DEF Decompressible
<1> HIDE DEF b
<1> QED
  BY <1>1, <1>3, <1>4, <1>5 DEF Carries

\* Everything the sending end packs carries its request, damage aside.
LEMMA SentCarries ==
    ASSUME NEW r \in Requests, Sendable(r), SignedBy(r) = skey
    PROVE  Carries(send_raw_with_flags(r.bytes, r.flags), r)
<1> DEFINE flags == r.flags \cup (IF skey = NoKey THEN {} ELSE {"MAC"})
           tag == IF skey = NoKey THEN NoTag
                  ELSE compute_tag(skey, build_header(flags, Target, r.bytes), r.bytes)
           w == send_raw_with_flags(r.bytes, r.flags)
<1>1. CASE ws
  <2>1. w = Wire(build_header(flags, Target, r.bytes), r.bytes, tag)
    BY <1>1 DEF send_raw_with_flags, pack_frame_ws, serialize_header_ws
  <2> QED
    BY <2>1, PlainCarries
<1>2. CASE ~ws /\ ~Compresses(flags, r.bytes)
  <2>1. w = Wire(build_header(flags, Target, r.bytes), r.bytes, tag)
    BY <1>2 DEF send_raw_with_flags, pack_frame_raw
  <2> QED
    BY <2>1, PlainCarries
<1>3. CASE ~ws /\ Compresses(flags, r.bytes)
  <2>1. w = Wire(build_header(flags \cup {"COMPRESSED"}, Target, zstd_compress_level3(r.bytes)),
                 zstd_compress_level3(r.bytes), tag)
    BY <1>3 DEF send_raw_with_flags, pack_frame_raw
  <2> QED
    BY <1>3, <2>1, ZipCarries
<1> QED
  BY <1>1, <1>2, <1>3

\* The other packers.
LEMMA PackedCarries ==
    ASSUME NEW r \in Requests, Sendable(r), r.by # "corrupt"
    PROVE  Carries(Packed(r), r)
<1>1. CASE r.by = "client"
  <2>1. SignedBy(r) = skey /\ Packed(r) = send_raw_with_flags(r.bytes, r.flags)
    BY <1>1 DEF SignedBy, Packed
  <2> QED
    BY <2>1, SentCarries
<1>2. CASE r.by = "crc"
  <2>1. /\ SignedBy(r) = NoKey
        /\ Packed(r) = Wire(build_header(r.flags, Target, r.bytes), r.bytes, NoTag)
    BY <1>2 DEF SignedBy, Packed, pack_frame
  <2>2. r.flags = r.flags \cup {}
    OBVIOUS
  <2> QED
    BY <2>1, <2>2, PlainCarries
<1>3. CASE r.by = "mac"
  <2> DEFINE flags == r.flags \cup {"MAC"}
             tag == compute_tag(skey, build_header(flags, Target, r.bytes), r.bytes)
  <2>1. SignedBy(r) = skey /\ skey # NoKey
    BY <1>3 DEF SignedBy, Sendable
  <2>2. {"MAC"} \cup r.flags = flags
    OBVIOUS
  <2>3. Packed(r) = Wire(build_header(flags, Target, r.bytes), r.bytes, tag)
    BY <1>3, <2>2 DEF Packed, pack_frame_mac
  <2> QED
    BY <2>1, <2>3, PlainCarries
<1> QED
  BY <1>1, <1>2, <1>3, RequestType

\* A damaged frame has the length, flags and tag of the undamaged one, and a wrong CRC.
LEMMA CorruptFrame ==
    ASSUME NEW r \in Requests, Sendable(r), r.by = "corrupt"
    PROVE  LET v == send_raw_with_flags(r.bytes, r.flags)
               w == Packed(r)
           IN  /\ Carries(v, r) /\ w.header.length = v.header.length
               /\ w.header.flags = v.header.flags
               /\ w.tag = v.tag /\ w.body = v.body /\ w.header.crc # vynkor_crc32(w.body)
<1> DEFINE v == send_raw_with_flags(r.bytes, r.flags)
           w == Packed(r)
           b == [v.body EXCEPT !.zipped = ~v.body.zipped]
<1>1. SignedBy(r) = skey /\ w = Corrupt(v)
  BY DEF SignedBy, Packed
<1>2. Carries(v, r)
  BY <1>1, SentCarries
<1>3. v.body \in Bytes /\ v.header = build_header(v.header.flags, Target, v.body)
  BY <1>2 DEF Carries
<1>4. v = Wire(v.header, v.body, v.tag)
  BY DEF send_raw_with_flags, pack_frame_raw, pack_frame_ws, Wire
<1> HIDE DEF v, w
<1>5. /\ w.body = v.body /\ w.tag = v.tag /\ w.header.flags = v.header.flags
      /\ w.header.length = v.header.length /\ w.header.crc = vynkor_crc32(b)
  <2> DEFINE h == v.header
             t == v.tag
             y == v.body
             x == [v.header EXCEPT !.crc = vynkor_crc32(b)]
  <2>1. w = [header |-> x, body |-> y, tag |-> t]
    BY <1>1, <1>4, Zenon DEF Corrupt, Wire
  <2>2. x.flags = h.flags /\ x.length = h.length /\ x.crc = vynkor_crc32(b)
    BY <1>3 DEF build_header
  <2> QED
    BY <2>1, <2>2
<1>7. b # v.body
  <2>1. b.zipped = ~v.body.zipped /\ v.body.zipped \in BOOLEAN
    BY <1>3 DEF Bytes
  <2> QED
    BY <2>1
<1>8. w.header.crc # vynkor_crc32(w.body)
  BY <1>5, <1>7 DEF vynkor_crc32
<1> QED
  BY <1>2, <1>5, <1>8 DEF v, w

\* What is read back is what the request means, or a refusal when there is a cause for one.
ReadsBack(r, result) ==
    /\ result.ok <=> ~Cause(r)
    /\ result.ok => /\ result.payload = MeantBytes(r) /\ result.flags = MeantFlags(r)
                    /\ result.header = build_header(MeantFlags(r), Target, MeantBytes(r))

\* A refusal is not ok.
LEMMA RefusedNotOk == Refused.ok = FALSE
BY DEF Refused

\* The tags that no key and no bytes give.
LEMMA NotATag ==
    ASSUME NEW key, NEW header, NEW b
    PROVE  /\ ~verify_tag(key, header, b, NoTag) /\ ~verify_tag(key, header, b, Garbage)
           /\ compute_tag(key, header, b) # NoTag
BY DEF verify_tag, compute_tag, NoTag, Garbage

\* parse_frame_bytes on an undamaged frame.  A tag that is not there is read as t.
LEMMA ParseCarried ==
    ASSUME KeysOK, NEW r \in Requests, Sendable(r), r.by # "corrupt", NEW w, Carries(w, r),
           NEW t, t = w.tag \/ (w.tag = NoTag /\ t = Garbage),
           ~(ws /\ "MAC" \in r.flags /\ SignedBy(r) = NoKey)
    PROVE  ReadsBack(r, parse_frame_bytes(w.header, w.body, t, rkey))
<1> DEFINE zip == "COMPRESSED" \in w.header.flags
           flags == w.header.flags \ {"COMPRESSED"}
           payload == IF zip THEN zstd_decompress_bounded(w.body) ELSE w.body
           effective == IF zip THEN build_header(flags, w.header.target, payload) ELSE w.header
           has_mac == "MAC" \in flags
           result == parse_frame_bytes(w.header, w.body, t, rkey)
<1>1. flags = MeantFlags(r)
  BY DEF Carries
<1>2. /\ w.header = build_header(w.header.flags, Target, w.body)
      /\ w.header.crc = vynkor_crc32(w.body) /\ w.header.target = target_to_bytes(Target)
  BY DEF Carries, build_header
<1>3. CASE zip /\ ~Decompressible(w.body)
  <2>1. result = Refused
    BY <1>3 DEF parse_frame_bytes
  <2>2. Cause(r)
    BY <1>3 DEF Carries, Cause
  <2> QED
    BY <2>1, <2>2, RefusedNotOk DEF ReadsBack
<1>4. CASE ~(zip /\ ~Decompressible(w.body))
  <2>1. payload = MeantBytes(r)
    BY <1>4 DEF Carries, zstd_decompress_bounded
  <2>2. effective = build_header(MeantFlags(r), Target, MeantBytes(r))
    <3>1. CASE zip
      BY <1>1, <1>2, <2>1, <3>1, HeaderOnce
    <3>2. CASE ~zip
      <4>1. w.header.flags = flags
        BY <3>2
      <4> QED
        BY <1>1, <1>2, <2>1, <3>2, <4>1
    <3> QED
      BY <3>1, <3>2
  <2>3. ~("COMPRESSED" \in r.flags /\ ~Decompressible(r.bytes))
    BY <1>4 DEF Carries
  <2>4. rkey # NoKey =>
          (has_mac /\ verify_tag(rkey, effective, payload, t)
             <=> SignedBy(r) = rkey /\ "COMPRESSED" \notin r.flags)
    <3> SUFFICES ASSUME rkey # NoKey
                 PROVE  has_mac /\ verify_tag(rkey, effective, payload, t)
                          <=> SignedBy(r) = rkey /\ "COMPRESSED" \notin r.flags
      OBVIOUS
    <3>1. CASE SignedBy(r) = NoKey
      <4>1. t \in {NoTag, Garbage}
        BY <3>1 DEF Carries
      <4> QED
        BY <3>1, <4>1, NotATag
    <3>2. CASE SignedBy(r) # NoKey /\ "COMPRESSED" \notin r.flags
      <4>1. t = compute_tag(SignedBy(r), effective, payload)
        <5>1. w.tag = compute_tag(SignedBy(r), effective, payload)
          BY <2>1, <2>2, <3>2 DEF Carries
        <5> QED
          BY <5>1, NotATag
      <4>2. has_mac
        BY <1>1, <3>2 DEF MeantFlags
      <4>3. verify_tag(rkey, effective, payload, t) <=> SignedBy(r) = rkey
        BY <4>1 DEF verify_tag, compute_tag
      <4> QED
        BY <3>2, <4>2, <4>3
    <3>3. CASE SignedBy(r) # NoKey /\ "COMPRESSED" \in r.flags
      <4>1. PICK header : w.tag = compute_tag(SignedBy(r), header, r.bytes)
        BY <3>3 DEF Carries
      <4>2. t = compute_tag(SignedBy(r), header, r.bytes)
        BY <4>1, NotATag
      <4>3. payload # r.bytes
        BY <2>1, <2>3, <3>3, RequestType DEF MeantBytes, Decompressible
      <4>4. ~verify_tag(rkey, effective, payload, t)
        <5> HIDE DEF payload, effective
        <5> QED
          BY <4>2, <4>3 DEF verify_tag, compute_tag
      <4> QED
        BY <3>3, <4>4
    <3> QED
      BY <3>1, <3>2, <3>3
  <2>5. Cause(r) <=> rkey # NoKey /\ (SignedBy(r) # rkey \/ "COMPRESSED" \in r.flags)
    BY <2>3 DEF Cause
  <2>6. CASE Cause(r)
    <3>1. result = Refused
      BY <2>4, <2>5, <2>6 DEF parse_frame_bytes
    <3> QED
      BY <2>6, <3>1, RefusedNotOk DEF ReadsBack
  <2>7. CASE ~Cause(r)
    <3>1. result = [ok |-> TRUE, payload |-> payload, flags |-> flags, header |-> effective,
                    has_mac |-> has_mac]
      BY <1>2, <1>4, <2>4, <2>5, <2>7 DEF parse_frame_bytes
    <3>2. /\ result.ok = TRUE /\ result.payload = payload /\ result.flags = flags
          /\ result.header = effective
      <4> HIDE DEF result, payload, flags, effective, has_mac
      <4> QED
        BY <3>1
    <3> QED
      BY <1>1, <2>1, <2>2, <2>7, <3>2 DEF ReadsBack
  <2> QED
    BY <2>6, <2>7
<1> QED
  BY <1>3, <1>4

\* The frame of a request: undamaged and carried, or damaged and refused.
LEMMA ParsePacked ==
    ASSUME KeysOK, NEW r \in Requests, Sendable(r), NEW t,
           t = Packed(r).tag \/ (Packed(r).tag = NoTag /\ t = Garbage),
           ~(ws /\ "MAC" \in r.flags /\ SignedBy(r) = NoKey)
    PROVE  ReadsBack(r, parse_frame_bytes(Packed(r).header, Packed(r).body, t, rkey))
<1>1. CASE r.by # "corrupt"
  BY <1>1, PackedCarries, ParseCarried
<1>2. CASE r.by = "corrupt"
  <2>1. Packed(r).header.crc # vynkor_crc32(Packed(r).body)
    BY <1>2, CorruptFrame
  <2>2. parse_frame_bytes(Packed(r).header, Packed(r).body, t, rkey) = Refused
    BY <2>1 DEF parse_frame_bytes
  <2>3. Cause(r)
    BY <1>2 DEF Cause
  <2> QED
    BY <2>2, <2>3, RefusedNotOk DEF ReadsBack
<1> QED
  BY <1>1, <1>2

\* What every frame, damaged or not, shows of its size.
LEMMA PackedShape ==
    ASSUME NEW r \in Requests, Sendable(r)
    PROVE  /\ Packed(r).header.length \in Nat
           /\ Packed(r).tag # NoTag => "MAC" \in Packed(r).header.flags
           /\ Packed(r).tag = NoTag <=> SignedBy(r) = NoKey
           /\ "MAC" \in Packed(r).header.flags <=> "MAC" \in MeantFlags(r)
<1>1. PICK v : /\ Carries(v, r) /\ Packed(r).header.length = v.header.length
               /\ Packed(r).header.flags = v.header.flags /\ Packed(r).tag = v.tag
  BY PackedCarries, CorruptFrame
<1>2. v.header.length = Size(v.body) /\ v.body \in Bytes
  BY <1>1 DEF Carries, build_header
<1>3. v.header.length \in Nat
  <2>1. v.body.of \in Texts
    BY <1>2 DEF Bytes
  <2> QED
    BY <1>2, <2>1, CodecAssumption DEF Size
<1>4. v.tag = NoTag <=> SignedBy(r) = NoKey
  BY <1>1, NotATag DEF Carries
<1>5. "MAC" \in v.header.flags <=> "MAC" \in MeantFlags(r)
  BY <1>1 DEF Carries
<1>6. SignedBy(r) # NoKey => "MAC" \in MeantFlags(r)
  BY DEF MeantFlags
<1> QED
  BY <1>1, <1>3, <1>4, <1>5, <1>6

-----------------------------------------------------------------------------
(***************************************************************************)
(* The stream.                                                             *)
(***************************************************************************)
FrameRecs == {[asked |-> r, wire |-> Packed(r), at |-> n] : r \in {q \in Requests : Sendable(q)},
                                                           n \in Nat}

\* The frames lie one behind the other.
Layout ==
    /\ frames \in Seq(FrameRecs)
    /\ \A i \in 1..Len(frames) : frames[i].at = EndOf(i - 1)
    /\ \A i, j \in 1..Len(frames) : i < j => EndOf(i) <= frames[j].at

SenderInv == KeysOK /\ Layout /\ written \in 0..Total

\* Where a read of frame i ends: behind the tag its header promises.
MacCells(i) == IF "MAC" \in frames[i].wire.header.flags THEN 1 ELSE 0
ReadEnd(i) == frames[i].at + HeadCells + frames[i].wire.header.length + MacCells(i)

ReadType == [pc : {"idle", "poll", "first", "head", "body"}, from : Nat, upto : Nat,
             late : BOOLEAN, wide : BOOLEAN]

ReaderInv ==
    /\ consumed \in 0..written
    /\ rd \in ReadType
    /\ ws => rd.pc \in {"idle", "poll", "first"}
    /\ rd.pc # "idle" => rd.from <= consumed /\ consumed < rd.upto
    /\ rd.pc \in {"poll", "first"} => consumed = rd.from
    /\ rd.pc \in {"poll", "first", "head"} => rd.upto = rd.from + HeadCells
    /\ rd.pc \in {"head", "body"} => rd.from < consumed
    /\ rd.pc = "body" => \A i \in FrameAt(rd.from) : rd.upto = ReadEnd(i)

\* The outcome of a frame read whole.
OutInv ==
    /\ out.frame \in 0..Len(frames)
    /\ out.frame # 0 => /\ out.what = "frame" <=> out.result.ok
                        /\ ReadsBack(frames[out.frame].asked, out.result)

\* Where the call in progress began, or the next one will.
Position == IF rd.pc = "idle" THEN consumed ELSE rd.from

\* The reader is past the last frame it returned, and not past another one when no call
\* has thrown since: right behind it, behind the tag that frame promised and did not have,
\* or inside a torn message.
ChannelInv ==
    /\ last \in 0..Len(frames) /\ warned \in BOOLEAN
    /\ EndOf(last) <= Position
    /\ ~warned => \A i \in 1..Len(frames) : last < i => Position < EndOf(i)

IndInv == SenderInv /\ ReaderInv /\ OutInv /\ ChannelInv

ChannelStep == [Channel!Next]_<<Len(frames), last, warned>>

\* The arithmetic of the layout.
LEMMA Cells ==
    ASSUME Layout
    PROVE  /\ Len(frames) \in Nat /\ EndOf(0) = 0 /\ Total \in Nat
           /\ \A i \in 1..Len(frames) :
                /\ frames[i].asked \in Requests /\ Sendable(frames[i].asked)
                /\ frames[i].wire = Packed(frames[i].asked)
                /\ frames[i].at \in Nat /\ EndOf(i) \in Nat /\ ReadEnd(i) \in Nat
                /\ frames[i].at + HeadCells <= EndOf(i) /\ EndOf(i) <= Total
                /\ ReadEnd(i) \in {EndOf(i), EndOf(i) + 1}
                /\ MacCells(i) \in {0, 1} /\ frames[i].wire.header.length \in Nat
                /\ MacCells(i) = 0 /\ frames[i].wire.header.length = 0
                     => ReadEnd(i) = frames[i].at + HeadCells
           /\ \A i, j \in 1..Len(frames) : frames[i].at = frames[j].at => i = j
<1>1. Len(frames) \in Nat /\ EndOf(0) = 0
  BY DEF Layout, EndOf
<1>2. ASSUME NEW i \in 1..Len(frames)
      PROVE  /\ frames[i].asked \in Requests /\ Sendable(frames[i].asked)
             /\ frames[i].wire = Packed(frames[i].asked) /\ frames[i].at \in Nat
  <2>1. frames[i] \in FrameRecs
    BY DEF Layout
  <2>2. PICK r \in {q \in Requests : Sendable(q)}, n \in Nat :
          frames[i] = [asked |-> r, wire |-> Packed(r), at |-> n]
    BY <2>1 DEF FrameRecs
  <2> QED
    BY <2>2
<1>3. ASSUME NEW i \in 1..Len(frames)
      PROVE  /\ frames[i].wire.header.length \in Nat
             /\ frames[i].wire.tag # NoTag => "MAC" \in frames[i].wire.header.flags
  BY <1>2, PackedShape
<1>4. ASSUME NEW i \in 1..Len(frames)
      PROVE  /\ EndOf(i) \in Nat /\ ReadEnd(i) \in Nat /\ frames[i].at + HeadCells <= EndOf(i)
             /\ ReadEnd(i) \in {EndOf(i), EndOf(i) + 1} /\ MacCells(i) \in {0, 1}
             /\ MacCells(i) = 0 /\ frames[i].wire.header.length = 0
                  => ReadEnd(i) = frames[i].at + HeadCells
  <2>1. HeadCells \in Nat /\ frames[i].at \in Nat /\ frames[i].wire.header.length \in Nat
    BY <1>2, <1>3, ReaderAssumption
  <2> DEFINE a == frames[i].at
             n == frames[i].wire.header.length
             t == IF frames[i].wire.tag = NoTag THEN 0 ELSE 1
             m == MacCells(i)
  <2>2. t \in {0, 1} /\ m \in {0, 1} /\ t <= m
    BY <1>3 DEF MacCells
  <2>3. EndOf(i) = a + (HeadCells + n + t)
    BY <1>1 DEF EndOf, CellsOf
  <2>4. ReadEnd(i) = a + HeadCells + n + m
    BY DEF ReadEnd
  <2>5. HeadCells \in Nat /\ a \in Nat /\ n \in Nat
    BY <2>1
  <2> HIDE DEF a, n, t, m
  <2>6. /\ EndOf(i) \in Nat /\ ReadEnd(i) \in Nat /\ a + HeadCells <= EndOf(i)
        /\ ReadEnd(i) \in {EndOf(i), EndOf(i) + 1} /\ m \in {0, 1}
        /\ m = 0 /\ n = 0 => ReadEnd(i) = a + HeadCells
    BY <2>2, <2>3, <2>4, <2>5
  <2> QED
    BY <2>6 DEF a, n, m
<1>5. Total \in Nat /\ \A i \in 1..Len(frames) : EndOf(i) <= Total
  <2>1. CASE Len(frames) = 0
    BY <1>1, <2>1 DEF Total
  <2>2. CASE Len(frames) # 0
    <3>1. Len(frames) \in 1..Len(frames)
      BY <1>1, <2>2
    <3>2. ASSUME NEW i \in 1..Len(frames) PROVE EndOf(i) <= Total
      <4>1. CASE i = Len(frames)
        BY <1>4, <4>1 DEF Total
      <4>2. CASE i # Len(frames)
        <5>1. EndOf(i) <= frames[Len(frames)].at
          BY <1>1, <3>1, <4>2 DEF Layout
        <5>2. HeadCells \in Nat
          BY ReaderAssumption
        <5> QED
          BY <1>2, <1>4, <3>1, <5>1, <5>2 DEF Total
      <4> QED
        BY <4>1, <4>2
    <3> QED
      BY <1>4, <3>1, <3>2 DEF Total
  <2> QED
    BY <2>1, <2>2
<1>6. ASSUME NEW i \in 1..Len(frames), NEW j \in 1..Len(frames), frames[i].at = frames[j].at
      PROVE  i = j
  <2>1. ASSUME NEW k \in 1..Len(frames), NEW n \in 1..Len(frames), k < n
        PROVE  frames[k].at < frames[n].at
    <3>1. EndOf(k) <= frames[n].at
      BY <2>1 DEF Layout
    <3>2. HeadCells \in Nat /\ HeadCells > 1
      BY ReaderAssumption
    <3>3. /\ frames[k].at \in Nat /\ frames[n].at \in Nat /\ EndOf(k) \in Nat
          /\ frames[k].at + HeadCells <= EndOf(k)
      BY <1>2, <1>4
    <3> QED
      BY <3>1, <3>2, <3>3
  <2> QED
    BY <1>1, <1>2, <1>6, <2>1
<1> QED
  BY <1>1, <1>2, <1>3, <1>4, <1>5, <1>6

\* A step of the reader leaves the stream alone.
LEMMA SenderSame ==
    ASSUME UNCHANGED sender
    PROVE  /\ SenderInv => SenderInv'
           /\ \A i : EndOf(i)' = EndOf(i) /\ ReadEnd(i)' = ReadEnd(i)
           /\ \A n : FrameAt(n)' = FrameAt(n)
           /\ \A r, x : ReadsBack(r, x)' = ReadsBack(r, x)
           /\ frames' = frames /\ ws' = ws /\ written' = written
<1>1. UNCHANGED <<ws, skey, rkey, frames, written, closed>>
  BY DEF sender
<1>2. \A i : EndOf(i)' = EndOf(i) /\ ReadEnd(i)' = ReadEnd(i)
  BY <1>1 DEF EndOf, ReadEnd, MacCells
<1>3. \A n : FrameAt(n)' = FrameAt(n)
  BY <1>1 DEF FrameAt
<1>4. \A r, x : ReadsBack(r, x)' = ReadsBack(r, x)
  BY <1>1 DEF ReadsBack, Cause, MeantFlags, MeantBytes, SignedBy
<1>5. FrameRecs' = FrameRecs
  BY <1>1 DEF FrameRecs, Packed, Sendable, send_raw_with_flags
<1>6. SenderInv => SenderInv'
  BY <1>1, <1>2, <1>5 DEF SenderInv, KeysOK, Layout, Total
<1> QED
  BY <1>1, <1>2, <1>3, <1>4, <1>6

-----------------------------------------------------------------------------
(***************************************************************************)
(* The reader.                                                             *)
(***************************************************************************)
\* Idle is the reader between two calls.
LEMMA IdleReader ==
    ASSUME rd' = Idle, UNCHANGED sender, consumed' \in 0..written
    PROVE  ReaderInv' /\ rd'.pc = "idle"
<1>1. /\ rd'.pc = "idle"
      /\ rd' \in ReadType
  BY DEF Idle, ReadType
<1>2. ws' = ws /\ written' = written
  BY SenderSame
<1> QED
  BY <1>1, <1>2 DEF ReaderInv

\* A step of the reader that ends no call.
LEMMA QuietKeeps ==
    ASSUME IndInv, UNCHANGED sender, UNCHANGED <<out, last, warned>>, ReaderInv',
           Position' = Position
    PROVE  IndInv' /\ ChannelStep
<1>1. SenderInv' /\ frames' = frames
  BY SenderSame DEF IndInv
<1>2. OutInv'
  <2>1. ReadsBack(frames[out.frame].asked, out.result)'
          = ReadsBack(frames[out.frame].asked, out.result)
    BY <1>1 DEF sender, ReadsBack, Cause, MeantFlags, MeantBytes, SignedBy
  <2> QED
    BY <1>1, <2>1 DEF IndInv, OutInv
<1>3. ChannelInv'
  <2>1. EndOf(last)' = EndOf(last) /\ \A i : EndOf(i)' = EndOf(i)
    BY <1>1 DEF EndOf
  <2> QED
    BY <1>1, <2>1 DEF IndInv, ChannelInv
<1>4. ChannelStep
  BY <1>1 DEF ChannelStep
<1> QED
  BY <1>1, <1>2, <1>3, <1>4 DEF IndInv

\* A call that throws, other than on a frame it has read, may leave the stream anywhere.
LEMMA FailKeeps ==
    ASSUME IndInv, UNCHANGED sender, Return("error", 0, Refused), consumed' \in 0..written,
           Position <= consumed'
    PROVE  IndInv' /\ ChannelStep
<1>1. /\ rd' = Idle /\ out' = Outcome("error", 0, Refused) /\ last' = last /\ warned' = TRUE
  BY DEF Return
<1>2. SenderInv' /\ frames' = frames
  BY SenderSame DEF IndInv
<1>3. ReaderInv' /\ rd'.pc = "idle"
  BY <1>1, IdleReader
<1>4. OutInv'
  <2>1. out'.frame = 0
    BY <1>1 DEF Outcome
  <2> QED
    BY <1>2, <2>1, Cells DEF OutInv, IndInv, SenderInv
<1>5. ChannelInv'
  <2>1. Position' = consumed'
    BY <1>3 DEF Position
  <2>4. EndOf(last) \in Nat /\ last \in 0..Len(frames)
    <3>1. Layout
      BY DEF IndInv, SenderInv
    <3> QED
      BY <3>1, Cells DEF IndInv, ChannelInv
  <2>5. Position \in Nat /\ consumed' \in Nat
    BY DEF Position, IndInv, ReaderInv, ReadType
  <2>6. EndOf(last)' = EndOf(last)
    BY <1>1, <1>2 DEF EndOf
  <2>7. EndOf(last)' <= Position'
    BY <2>1, <2>4, <2>5, <2>6 DEF IndInv, ChannelInv
  <2>8. warned' \in BOOLEAN /\ warned'
    BY <1>1, Zenon
  <2> QED
    BY <1>1, <1>2, <2>4, <2>7, <2>8 DEF ChannelInv
<1>6. ChannelStep
  BY <1>1, <1>2 DEF ChannelStep, Channel!Next, Channel!Fail
<1> QED
  BY <1>2, <1>3, <1>4, <1>5, <1>6 DEF IndInv

\* A frame that begins where the reader is follows the last one returned, immediately when
\* no call has thrown since.
LEMMA NextFrame ==
    ASSUME IndInv, NEW i \in 1..Len(frames), frames[i].at = Position
    PROVE  i > last /\ (~warned => i = last + 1)
<1>1. Layout
  BY DEF IndInv, SenderInv
<1>2. /\ frames[i].at \in Nat /\ EndOf(i) \in Nat /\ frames[i].at + HeadCells <= EndOf(i)
      /\ HeadCells \in Nat /\ HeadCells > 1 /\ EndOf(last) \in Nat
      /\ EndOf(last) <= frames[i].at /\ last \in 0..Len(frames) /\ Len(frames) \in Nat
  BY <1>1, Cells, ReaderAssumption DEF IndInv, ChannelInv
<1>3. i > last
  <2>1. CASE i = last
    BY <1>2, <2>1
  <2>2. CASE i < last
    <3>1. EndOf(i) <= frames[last].at /\ frames[last].at + HeadCells <= EndOf(last)
          /\ frames[last].at \in Nat
      BY <1>1, <1>2, <2>2, Cells DEF Layout
    <3> QED
      BY <1>2, <3>1
  <2> QED
    BY <1>2, <2>1, <2>2
<1>4. ASSUME ~warned, i # last + 1
      PROVE  FALSE
  <2>1. last + 1 \in 1..Len(frames) /\ last + 1 < i /\ last < last + 1
    BY <1>2, <1>3, <1>4
  <2>2. EndOf(last + 1) <= frames[i].at /\ EndOf(last + 1) \in Nat
    BY <1>1, <2>1, Cells DEF Layout
  <2>3. frames[i].at < EndOf(last + 1)
    BY <1>4, <2>1 DEF IndInv, ChannelInv
  <2> QED
    BY <1>2, <2>2, <2>3
<1> QED
  BY <1>3, <1>4

\* A frame is read whole: returned, or refused for a cause.
LEMMA WholeFrameKeeps ==
    ASSUME IndInv, UNCHANGED sender, NEW i \in 1..Len(frames), NEW result,
           ReadsBack(frames[i].asked, result), frames[i].at = Position,
           Return(IF result.ok THEN "frame" ELSE "error", i, result),
           consumed' \in 0..written, consumed' \in {EndOf(i), EndOf(i) + 1}
    PROVE  IndInv' /\ ChannelStep
<1>1. Layout
  BY DEF IndInv, SenderInv
<1>2. /\ rd' = Idle /\ out' = Outcome(IF result.ok THEN "frame" ELSE "error", i, result)
  BY DEF Return
<1>3. SenderInv' /\ frames' = frames
  BY SenderSame DEF IndInv
<1>4. ReaderInv' /\ rd'.pc = "idle"
  BY <1>2, IdleReader
<1>5. OutInv'
  <2>1. /\ out'.frame = i /\ out'.result = result
        /\ out'.what = IF result.ok THEN "frame" ELSE "error"
    BY <1>2 DEF Outcome
  <2>2. ReadsBack(frames[i].asked, result)'
    BY SenderSame
  <2>3. (out'.what = "frame" <=> out'.result.ok)
    BY <2>1
  <2>4. ReadsBack(frames[out.frame].asked, out.result)'
    BY <1>3, <2>1, <2>2 DEF ReadsBack
  <2>5. out'.frame \in 0..Len(frames')
    BY <1>1, <1>3, <2>1, Cells
  <2> QED
    BY <2>3, <2>4, <2>5 DEF OutInv
<1>6. Position' = consumed'
  BY <1>4 DEF Position
<1>7. /\ frames[i].at \in Nat /\ EndOf(i) \in Nat /\ frames[i].at + HeadCells <= EndOf(i)
      /\ HeadCells \in Nat /\ HeadCells > 1 /\ EndOf(last) \in Nat
      /\ EndOf(last) <= frames[i].at /\ last \in 0..Len(frames) /\ Len(frames) \in Nat
  BY <1>1, Cells, ReaderAssumption DEF IndInv, ChannelInv
<1>8. i > last
  BY NextFrame
<1>9. ~warned => i = last + 1
  BY <1>8, NextFrame
<1>10. CASE result.ok
  <2>1. last' = i /\ warned' = FALSE
    BY <1>10 DEF Return
  <2>2. EndOf(last)' = EndOf(i)
    BY <1>3, <2>1 DEF EndOf
  <2>3. ChannelInv'
    <3>1. warned' \in BOOLEAN
      BY <2>1, Zenon
    <3>2. last' \in 0..Len(frames') /\ EndOf(last)' <= Position'
      BY <1>3, <1>6, <1>7, <2>1, <2>2
    <3>3. ASSUME NEW j \in 1..Len(frames), i < j PROVE consumed' < EndOf(j)
      <4>1. EndOf(i) <= frames[j].at /\ frames[j].at + HeadCells <= EndOf(j)
            /\ frames[j].at \in Nat /\ EndOf(j) \in Nat
        BY <1>1, <3>3, Cells DEF Layout
      <4> QED
        BY <1>7, <4>1
    <3>4. \A j : EndOf(j)' = EndOf(j)
      BY SenderSame
    <3> QED
      BY <1>3, <1>6, <2>1, <3>1, <3>2, <3>3, <3>4 DEF ChannelInv
  <2>4. ChannelStep
    <3>1. i \in last + 1 .. Len(frames) /\ (i = last + 1 \/ warned)
      BY <1>7, <1>8, <1>9
    <3>2. Channel!Deliver
      BY <1>3, <2>1, <3>1 DEF Channel!Deliver
    <3> QED
      BY <3>2 DEF ChannelStep, Channel!Next
  <2> QED
    BY <1>3, <1>4, <1>5, <2>3, <2>4 DEF IndInv
<1>11. CASE ~result.ok
  <2>1. last' = last /\ warned' = TRUE
    BY <1>11 DEF Return
  <2>2. EndOf(last)' = EndOf(last)
    BY <1>3, <2>1 DEF EndOf
  <2>3. EndOf(last)' <= Position'
    BY <1>6, <1>7, <2>2
  <2>4. warned' \in BOOLEAN /\ warned'
    BY <2>1, Zenon
  <2>5. ChannelInv'
    BY <1>3, <1>7, <2>1, <2>3, <2>4 DEF ChannelInv
  <2>6. ChannelStep
    BY <1>3, <2>1 DEF ChannelStep, Channel!Next, Channel!Fail
  <2> QED
    BY <1>3, <1>4, <1>5, <2>5, <2>6 DEF IndInv
<1> QED
  BY <1>10, <1>11

\* Parse, on the cells of a read that ends where the header at its beginning says.
LEMMA ParseKeeps ==
    ASSUME IndInv, UNCHANGED sender, ~ws, rd.pc \in {"head", "body"}, Parse,
           consumed' \in 0..written, rd.from <= consumed',
           \A i \in FrameAt(rd.from) : consumed' = ReadEnd(i)
    PROVE  IndInv' /\ ChannelStep
<1>1. Position = rd.from
  BY DEF Position
<1>2. CASE Return("error", 0, Refused)
  BY <1>1, <1>2, FailKeeps
<1>3. ASSUME NEW i \in FrameAt(rd.from),
             LET w == frames[i].wire
                 result == parse_frame_bytes(w.header, w.body,
                               IF w.tag = NoTag THEN Garbage ELSE w.tag, rkey)
             IN  Return(IF result.ok THEN "frame" ELSE "error", i, result)
      PROVE  IndInv' /\ ChannelStep
  <2> DEFINE w == frames[i].wire
             r == frames[i].asked
             t == IF w.tag = NoTag THEN Garbage ELSE w.tag
             result == parse_frame_bytes(w.header, w.body, t, rkey)
  <2>1. /\ i \in 1..Len(frames) /\ frames[i].at = rd.from
        /\ r \in Requests /\ Sendable(r) /\ w = Packed(r)
        /\ ReadEnd(i) \in {EndOf(i), EndOf(i) + 1}
    BY Cells DEF IndInv, SenderInv, FrameAt
  <2>2. t = Packed(r).tag \/ (Packed(r).tag = NoTag /\ t = Garbage)
    BY <2>1
  <2>3. ReadsBack(r, result)
    <3> HIDE DEF t
    <3> QED
      BY <2>1, <2>2, ParsePacked DEF IndInv, SenderInv
  <2>4. Return(IF result.ok THEN "frame" ELSE "error", i, result)
    BY <1>3
  <2>5. consumed' \in {EndOf(i), EndOf(i) + 1}
    BY <2>1
  <2> HIDE DEF result, t, w
  <2> QED
    BY <1>1, <2>1, <2>3, <2>4, <2>5, WholeFrameKeeps
<1> QED
  BY <1>2, <1>3 DEF Parse

\* A message over a WebSocket.
LEMMA RecvMessageKeeps ==
    ASSUME IndInv, RecvMessage
    PROVE  IndInv' /\ ChannelStep
<1>1. ws /\ rd.pc \in {"poll", "first"} /\ UNCHANGED sender
  BY DEF RecvMessage, Receiving
<1>2. PICK i \in FrameAt(consumed) :
         LET w == frames[i].wire
             short == "MAC" \in w.header.flags /\ w.tag = NoTag
             result == IF short THEN Refused
                       ELSE parse_frame_bytes(w.header, w.body, w.tag, rkey)
         IN  /\ EndOf(i) <= written /\ consumed' = EndOf(i)
             /\ Return(IF result.ok THEN "frame" ELSE "error", i, result)
  BY DEF RecvMessage
<1> DEFINE w == frames[i].wire
           r == frames[i].asked
           short == "MAC" \in w.header.flags /\ w.tag = NoTag
           result == IF short THEN Refused
                     ELSE parse_frame_bytes(w.header, w.body, w.tag, rkey)
<1>3. /\ Layout /\ i \in 1..Len(frames) /\ frames[i].at = consumed
      /\ r \in Requests /\ Sendable(r) /\ w = Packed(r)
      /\ EndOf(i) \in Nat /\ EndOf(i) <= Total /\ Total \in Nat
  BY Cells DEF IndInv, SenderInv, FrameAt
<1>4. Position = consumed
  BY <1>1 DEF Position, IndInv, ReaderInv
<1>5. short <=> "MAC" \in r.flags /\ SignedBy(r) = NoKey
  BY <1>3, PackedShape DEF MeantFlags
<1>6. ReadsBack(r, result)
  <2>1. CASE short
    <3>1. Cause(r)
      BY <1>1, <1>5, <2>1 DEF Cause
    <3>2. result = Refused
      BY <2>1
    <3> QED
      BY <3>1, <3>2, RefusedNotOk DEF ReadsBack
  <2>2. CASE ~short
    <3>1. ReadsBack(r, parse_frame_bytes(Packed(r).header, Packed(r).body, Packed(r).tag, rkey))
      BY <1>3, <1>5, <2>2, ParsePacked DEF IndInv, SenderInv
    <3>2. result = parse_frame_bytes(Packed(r).header, Packed(r).body, Packed(r).tag, rkey)
      BY <1>3, <2>2
    <3> QED
      BY <3>1, <3>2
  <2> QED
    BY <2>1, <2>2
<1>7. EndOf(i) <= written
  BY <1>2
<1>8. consumed' = EndOf(i) /\ Return(IF result.ok THEN "frame" ELSE "error", i, result)
  BY <1>2
<1>9. consumed' \in 0..written /\ consumed' \in {EndOf(i), EndOf(i) + 1}
  BY <1>3, <1>7, <1>8 DEF IndInv, SenderInv
<1> HIDE DEF result, w
<1> QED
  BY <1>1, <1>3, <1>4, <1>6, <1>8, <1>9, WholeFrameKeeps

\* One turn of recv_exact_deadline.
LEMMA RecvExactKeeps ==
    ASSUME IndInv, RecvExact
    PROVE  IndInv' /\ ChannelStep
<1>1. /\ rd.pc \in {"head", "body"} /\ Available > 0 /\ consumed' = Reached
      /\ UNCHANGED sender
  BY DEF RecvExact
<1>2. /\ written \in Nat /\ consumed \in Nat /\ consumed < written
      /\ rd.from \in Nat /\ rd.upto \in Nat /\ rd.from < consumed /\ consumed < rd.upto
  <2>1. Total \in Nat
    BY Cells DEF IndInv, SenderInv
  <2> QED
    BY <1>1, <2>1 DEF IndInv, SenderInv, ReaderInv, ReadType, Available
<1>3. /\ consumed' \in 0..written /\ consumed < consumed' /\ consumed' <= rd.upto
      /\ consumed' \in Nat
  BY <1>1, <1>2 DEF Reached
<1>4. ~ws
  BY <1>1 DEF IndInv, ReaderInv, SenderInv, KeysOK
<1>5. SenderInv' /\ frames' = frames /\ ws' = ws /\ written' = written
  BY <1>1, SenderSame DEF IndInv
<1>6. CASE consumed' < rd.upto /\ UNCHANGED <<rd, out, last, warned>>
  <2>1. ReaderInv'
    <3>1. \A i : ReadEnd(i)' = ReadEnd(i)
      BY <1>1, SenderSame
    <3>2. FrameAt(rd.from)' = FrameAt(rd.from)
      BY <1>5, <1>6 DEF FrameAt
    <3>3. rd'.pc = "body" => \A i \in FrameAt(rd.from)' : rd'.upto = ReadEnd(i)'
      BY <1>6, <3>1, <3>2 DEF IndInv, ReaderInv
    <3> QED
      BY <1>1, <1>2, <1>3, <1>4, <1>5, <1>6, <3>3 DEF IndInv, ReaderInv
  <2>2. Position' = Position
    BY <1>1, <1>6 DEF Position
  <2> QED
    BY <1>1, <1>6, <2>1, <2>2, QuietKeeps
<1>7. CASE consumed' >= rd.upto /\ rd.pc = "body" /\ Parse
  <2>1. \A i \in FrameAt(rd.from) : consumed' = ReadEnd(i)
    BY <1>2, <1>3, <1>7 DEF IndInv, ReaderInv
  <2> QED
    BY <1>1, <1>2, <1>3, <1>4, <1>7, <2>1, ParseKeeps
<1>8. CASE consumed' >= rd.upto /\ rd.pc = "head" /\ HeaderRead
  <2>1. PICK h \in Announced :
          LET upto == rd.upto + h.length + (IF h.mac THEN 1 ELSE 0)
          IN  \/ h.length > MaxPayload /\ Return("error", 0, Refused)
              \/ h.length <= MaxPayload /\ upto = rd.upto /\ Parse
              \/ /\ h.length <= MaxPayload /\ upto > rd.upto
                 /\ rd' = [rd EXCEPT !.pc = "body", !.upto = upto]
                 /\ UNCHANGED <<out, last, warned>>
    BY <1>8 DEF HeaderRead
  <2>2. rd.upto = rd.from + HeadCells /\ consumed' = rd.upto /\ HeadCells \in Nat
    BY <1>2, <1>3, <1>8, ReaderAssumption DEF IndInv, ReaderInv
  <2> DEFINE m == IF h.mac THEN 1 ELSE 0
             upto == rd.upto + h.length + m
  <2>3. /\ h.length \in Nat /\ m \in {0, 1}
        /\ \A i \in FrameAt(rd.from) : ReadEnd(i) = upto
    <3>1. CASE FrameAt(rd.from) = {}
      BY <3>1, CodecAssumption DEF Announced
    <3>2. CASE FrameAt(rd.from) # {}
      <4>1. PICK k \in FrameAt(rd.from) :
              h = [length |-> frames[k].wire.header.length,
                   mac |-> "MAC" \in frames[k].wire.header.flags]
        BY <3>2 DEF Announced
      <4>2. /\ k \in 1..Len(frames) /\ frames[k].at = rd.from
            /\ \A i \in FrameAt(rd.from) : i = k
            /\ frames[k].wire.header.length \in Nat
        BY Cells DEF IndInv, SenderInv, FrameAt
      <4>3. h.length = frames[k].wire.header.length /\ m = MacCells(k)
        BY <4>1 DEF MacCells
      <4>4. ReadEnd(k) = upto
        BY <2>2, <4>2, <4>3 DEF ReadEnd
      <4> QED
        BY <4>2, <4>3, <4>4 DEF MacCells
    <3> QED
      BY <3>1, <3>2
  <2>4. CASE h.length > MaxPayload /\ Return("error", 0, Refused)
    <3>1. Position <= consumed'
      BY <1>1, <1>2, <1>3 DEF Position
    <3> QED
      BY <1>1, <1>3, <2>4, <3>1, FailKeeps
  <2>5. CASE upto = rd.upto /\ Parse
    <3>1. \A i \in FrameAt(rd.from) : consumed' = ReadEnd(i)
      BY <2>2, <2>3, <2>5
    <3> QED
      BY <1>1, <1>2, <1>3, <1>4, <2>5, <3>1, ParseKeeps
  <2>6. CASE upto > rd.upto /\ rd' = [rd EXCEPT !.pc = "body", !.upto = upto]
             /\ UNCHANGED <<out, last, warned>>
    <3>1. rd \in ReadType /\ upto \in Nat
      BY <1>2, <2>3 DEF IndInv, ReaderInv
    <3> HIDE DEF upto
    <3>2. /\ rd' \in ReadType
          /\ rd'.pc = "body" /\ rd'.from = rd.from /\ rd'.upto = upto
      BY <2>6, <3>1 DEF ReadType
    <3>3. \A i \in FrameAt(rd.from)' : rd'.upto = ReadEnd(i)'
      <4>1. FrameAt(rd.from)' = FrameAt(rd.from)
        BY <1>5, <3>2 DEF FrameAt
      <4>2. \A i : ReadEnd(i)' = ReadEnd(i)
        BY <1>1, SenderSame
      <4> QED
        BY <2>3, <3>2, <4>1, <4>2
    <3>4. ReaderInv'
      BY <1>2, <1>3, <1>4, <1>5, <2>2, <2>6, <3>1, <3>2, <3>3 DEF ReaderInv
    <3>5. Position' = Position
      BY <1>1, <3>2 DEF Position
    <3> QED
      BY <1>1, <2>6, <3>4, <3>5, QuietKeeps
  <2> QED
    BY <2>1, <2>4, <2>5, <2>6
<1> QED
  BY <1>1, <1>6, <1>7, <1>8 DEF RecvExact

\* The steps that read at most the first byte.
LEMMA BeginKeeps ==
    ASSUME IndInv,
           \/ \E timeout \in Timeouts : CallRead(timeout)
           \/ DeadlinePasses \/ WideExpires \/ PollReady \/ FirstByte
    PROVE  IndInv' /\ ChannelStep
<1>1. UNCHANGED sender /\ UNCHANGED <<out, last, warned>>
  BY DEF CallRead, DeadlinePasses, WideExpires, Expires, PollReady, FirstByte
<1>2. frames' = frames /\ ws' = ws /\ written' = written
  BY <1>1, SenderSame
<1>3. /\ rd \in ReadType /\ consumed \in Nat /\ written \in Nat /\ consumed <= written
      /\ HeadCells \in Nat /\ HeadCells > 1 /\ ws \in BOOLEAN
  <2>1. Total \in Nat
    BY Cells DEF IndInv, SenderInv
  <2> QED
    BY <2>1, ReaderAssumption DEF IndInv, ReaderInv, SenderInv, ReadType, KeysOK
<1>4. \A i : ReadEnd(i)' = ReadEnd(i)
  BY <1>1, SenderSame
<1>5. ASSUME NEW timeout \in Timeouts, CallRead(timeout)
      PROVE  IndInv' /\ ChannelStep
  <2>1. /\ rd.pc = "idle" /\ rd'.pc \in {"poll", "first"} /\ rd'.from = consumed
        /\ rd'.upto = consumed + HeadCells /\ consumed' = consumed /\ rd' \in ReadType
    BY <1>3, <1>5 DEF CallRead, ReadType
  <2>2. ReaderInv'
    BY <1>2, <1>3, <2>1 DEF ReaderInv, ReadType
  <2>3. Position' = Position
    BY <2>1 DEF Position
  <2> QED
    BY <1>1, <2>2, <2>3, QuietKeeps
<1>6. CASE DeadlinePasses \/ WideExpires
  <2>1. /\ rd.pc \in {"poll", "head", "body"} /\ rd'.pc = rd.pc /\ rd'.from = rd.from
        /\ rd'.upto = rd.upto /\ consumed' = consumed /\ rd' \in ReadType
    BY <1>3, <1>6 DEF DeadlinePasses, WideExpires, Expires, ReadType
  <2>2. FrameAt(rd.from)' = FrameAt(rd.from)
    BY <1>2, <2>1 DEF FrameAt
  <2>3. ReaderInv'
    BY <1>2, <1>3, <1>4, <2>1, <2>2 DEF IndInv, ReaderInv, ReadType
  <2>4. Position' = Position
    BY <2>1 DEF Position
  <2> QED
    BY <1>1, <2>3, <2>4, QuietKeeps
<1>7. CASE PollReady
  <2>1. /\ rd.pc = "poll" /\ rd'.pc = "first" /\ rd'.from = rd.from
        /\ rd'.upto = rd.upto /\ consumed' = consumed /\ rd' \in ReadType
    BY <1>3, <1>7 DEF PollReady, ReadType
  <2>2. ReaderInv'
    BY <1>2, <1>3, <2>1 DEF IndInv, ReaderInv, ReadType
  <2>3. Position' = Position
    BY <2>1 DEF Position
  <2> QED
    BY <1>1, <2>2, <2>3, QuietKeeps
<1>8. CASE FirstByte
  <2>1. /\ rd.pc = "first" /\ ~ws /\ rd'.pc = "head" /\ rd'.from = rd.from
        /\ rd'.upto = rd.upto /\ consumed' = consumed + 1 /\ consumed < written
        /\ rd' \in ReadType
    <3>1. rd.pc = "first" /\ ~ws /\ consumed' = consumed + 1 /\ consumed < written
      <4>1. rd.pc = "first" /\ ~ws /\ consumed' = consumed + 1 /\ Available > 0
        BY <1>8, Zenon DEF FirstByte
      <4> QED
        BY <1>3, <4>1 DEF Available
    <3>2. PICK late \in BOOLEAN : rd' = [rd EXCEPT !.pc = "head", !.late = late]
      <4>1. PICK late \in (IF rd.wide THEN BOOLEAN ELSE {FALSE}) :
              rd' = [rd EXCEPT !.pc = "head", !.late = late]
        BY <1>8 DEF FirstByte
      <4>2. late \in BOOLEAN
        OBVIOUS
      <4> QED
        BY <4>1, <4>2, Zenon
    <3>3. rd'.pc = "head" /\ rd'.from = rd.from /\ rd'.upto = rd.upto
      BY <1>3, <3>2 DEF ReadType
    <3>4. rd' \in ReadType
      BY <1>3, <3>2 DEF ReadType
    <3> QED
      BY <3>1, <3>3, <3>4
  <2>2. ReaderInv'
    BY <1>2, <1>3, <2>1 DEF IndInv, ReaderInv, ReadType
  <2>3. Position' = Position
    BY <2>1 DEF Position
  <2> QED
    BY <1>1, <2>2, <2>3, QuietKeeps
<1> QED
  BY <1>5, <1>6, <1>7, <1>8

\* The steps that end a call without a frame.
LEMMA EndKeeps ==
    ASSUME IndInv, PollTimesOut \/ FrameTimesOut \/ Hangup \/ TearMessage \/ RefuseRest \/ HangupWs
    PROVE  IndInv' /\ ChannelStep
<1>0. /\ consumed \in Nat /\ written \in Nat /\ consumed <= written /\ rd \in ReadType
      /\ rd.pc # "idle" => rd.from \in Nat /\ rd.from <= consumed
  <2>1. written \in Nat
    BY Cells DEF IndInv, SenderInv
  <2> QED
    BY <2>1 DEF IndInv, ReaderInv, ReadType
<1>1. UNCHANGED sender /\ consumed' \in consumed..written
  BY <1>0 DEF PollTimesOut, FrameTimesOut, Hangup, TearMessage, RefuseRest, HangupWs, Torn
<1>2. consumed' \in 0..written /\ Position <= consumed' /\ Position \in Nat
  BY <1>0, <1>1 DEF Position
<1>3. CASE PollTimesOut \/ TearMessage
  <2>1. rd' = Idle /\ last' = last /\ warned' = warned /\ rd.pc = "poll"
        /\ out' = Outcome("timeout", 0, Refused)
    BY <1>3 DEF PollTimesOut, TearMessage, Return
  <2>2. ReaderInv' /\ rd'.pc = "idle"
    BY <1>1, <1>2, <2>1, IdleReader
  <2>3. Position' = consumed' /\ Position = consumed
    BY <2>1, <2>2 DEF Position, IndInv, ReaderInv
  <2>4. SenderInv' /\ frames' = frames
    BY <1>1, SenderSame DEF IndInv
  <2>5. OutInv'
    <3>1. out'.frame = 0 /\ Len(frames) \in Nat
      BY <2>1, Cells DEF Outcome, IndInv, SenderInv
    <3> QED
      BY <2>4, <3>1 DEF OutInv
  <2>6. ~warned => \A j \in 1..Len(frames) : last < j => consumed' < EndOf(j)
    <3> SUFFICES ASSUME ~warned, NEW j \in 1..Len(frames), last < j
                 PROVE  consumed' < EndOf(j)
      OBVIOUS
    <3>1. CASE consumed' = consumed
      BY <2>3, <3>1 DEF IndInv, ChannelInv
    <3>2. CASE consumed' \in Torn
      <4>1. PICK i \in 1..Len(frames) : frames[i].at = consumed /\ consumed' < EndOf(i)
        BY <3>2 DEF Torn, FrameAt
      <4>2. i = last + 1
        BY <2>3, <4>1, NextFrame
      <4>3. Layout /\ Len(frames) \in Nat /\ last \in 0..Len(frames)
        BY Cells DEF IndInv, SenderInv, ChannelInv
      <4>4. CASE j = i
        BY <4>1, <4>4
      <4>5. CASE i < j
        <5>1. EndOf(i) <= frames[j].at /\ frames[j].at + HeadCells <= EndOf(j)
              /\ frames[j].at \in Nat /\ EndOf(j) \in Nat /\ EndOf(i) \in Nat
              /\ HeadCells \in Nat
          BY <4>3, <4>5, Cells, ReaderAssumption DEF Layout
        <5> QED
          BY <1>0, <1>1, <4>1, <5>1
      <4> QED
        BY <4>2, <4>3, <4>4, <4>5
    <3> QED
      BY <1>3, <3>1, <3>2 DEF PollTimesOut, TearMessage
  <2>7. ChannelInv'
    <3>1. EndOf(last)' = EndOf(last) /\ \A j : EndOf(j)' = EndOf(j)
      BY <2>1, <2>4 DEF EndOf
    <3>2. EndOf(last) \in Nat
      BY Cells DEF IndInv, SenderInv, ChannelInv
    <3>3. EndOf(last)' <= Position'
      BY <1>0, <1>2, <2>3, <3>1, <3>2 DEF IndInv, ChannelInv
    <3> QED
      BY <2>1, <2>3, <2>4, <2>6, <3>1, <3>3 DEF IndInv, ChannelInv
  <2>8. ChannelStep
    BY <2>1, <2>4 DEF ChannelStep
  <2> QED
    BY <2>2, <2>4, <2>5, <2>7, <2>8 DEF IndInv
<1>4. CASE FrameTimesOut \/ Hangup \/ RefuseRest \/ HangupWs
  <2>1. Return("error", 0, Refused)
    BY <1>4 DEF FrameTimesOut, Hangup, RefuseRest, HangupWs
  <2> QED
    BY <1>1, <1>2, <2>1, FailKeeps
<1> QED
  BY <1>3, <1>4

-----------------------------------------------------------------------------
(***************************************************************************)
(* The sender.                                                             *)
(***************************************************************************)
\* Writing and closing.
LEMMA WriteKeeps ==
    ASSUME IndInv, Write \/ PeerCloses
    PROVE  IndInv' /\ ChannelStep
<1>1. UNCHANGED <<ws, skey, rkey, frames, consumed, rd, out, last, warned>>
  BY DEF Write, PeerCloses
<1>2. Total \in Nat /\ written \in Nat /\ written <= Total /\ ws \in BOOLEAN
  BY Cells DEF IndInv, SenderInv, KeysOK
<1>3. written' \in Nat /\ written <= written' /\ written' <= Total
  BY <1>2 DEF Write, PeerCloses
<1>4. \A i : EndOf(i)' = EndOf(i) /\ ReadEnd(i)' = ReadEnd(i)
  BY <1>1 DEF EndOf, ReadEnd, MacCells
<1>5. FrameRecs' = FrameRecs
  BY <1>1 DEF FrameRecs, Packed, Sendable, send_raw_with_flags
<1>6. Total' = Total /\ Layout' /\ KeysOK'
  <2>1. Total' = Total
    BY <1>1 DEF Total, EndOf
  <2>2. Layout' /\ KeysOK'
    BY <1>1, <1>4, <1>5 DEF Layout, KeysOK, IndInv, SenderInv
  <2> QED
    BY <2>1, <2>2
<1>7. SenderInv'
  BY <1>2, <1>3, <1>6 DEF SenderInv
<1>8. ReaderInv'
  <2>1. FrameAt(rd.from)' = FrameAt(rd.from)
    BY <1>1 DEF FrameAt
  <2>2. consumed' \in 0..written'
    BY <1>1, <1>2, <1>3 DEF IndInv, ReaderInv
  <2> QED
    BY <1>1, <1>4, <2>1, <2>2 DEF IndInv, ReaderInv
<1>9. OutInv'
  <2>1. ReadsBack(frames[out.frame].asked, out.result)'
          = ReadsBack(frames[out.frame].asked, out.result)
    BY <1>1 DEF ReadsBack, Cause, MeantFlags, MeantBytes, SignedBy
  <2> QED
    BY <1>1, <2>1 DEF IndInv, OutInv
<1>10. ChannelInv'
  <2>1. EndOf(last)' = EndOf(last) /\ Position' = Position /\ \A i : EndOf(i)' = EndOf(i)
    BY <1>1 DEF EndOf, Position
  <2> QED
    BY <1>1, <2>1 DEF IndInv, ChannelInv
<1>11. ChannelStep
  BY <1>1 DEF ChannelStep
<1> QED
  BY <1>7, <1>8, <1>9, <1>10, <1>11 DEF IndInv

\* A new frame lies behind all others, and nobody has read any of it.
LEMMA SendKeeps ==
    ASSUME IndInv, NEW r \in Requests, Send(r)
    PROVE  IndInv' /\ ChannelStep
<1>0. PICK n \in Nat : n = Len(frames)
  BY Cells DEF IndInv, SenderInv
<1> DEFINE f == [asked |-> r, wire |-> Packed(r), at |-> Total]
<1>1. /\ UNCHANGED <<ws, skey, rkey, written, closed, consumed, rd, out, last, warned>>
      /\ frames' = Append(frames, f) /\ written = Total
  BY DEF Send
<1>2. Layout /\ n \in Nat /\ n = Len(frames) /\ Total \in Nat /\ KeysOK
  BY <1>0, Cells DEF IndInv, SenderInv
<1>3. Sendable(r)
  BY DEF Send, Sendable
<1>4. f \in FrameRecs
  <2>1. r \in {q \in Requests : Sendable(q)}
    BY <1>3
  <2>2. \E q \in {x \in Requests : Sendable(x)}, m \in Nat :
          f = [asked |-> q, wire |-> Packed(q), at |-> m]
    BY <1>2, <2>1, Zenon
  <2> HIDE DEF f
  <2> QED
    BY <2>2 DEF FrameRecs
<1>5. frames \in Seq(FrameRecs)
  BY <1>2 DEF Layout
<1>6. /\ frames' \in Seq(FrameRecs) /\ Len(frames') = n + 1 /\ frames'[n + 1] = f
      /\ \A i \in 1..n : frames'[i] = frames[i]
  <2> HIDE DEF f
  <2> QED
    BY <1>0, <1>1, <1>4, <1>5
<1>7. FrameRecs' = FrameRecs
  BY <1>1 DEF FrameRecs, Packed, Sendable, send_raw_with_flags
<1>8. /\ \A i \in 0..n : EndOf(i)' = EndOf(i)
      /\ \A i \in 1..n : ReadEnd(i)' = ReadEnd(i)
  BY <1>2, <1>6 DEF EndOf, ReadEnd, MacCells
<1>9. f.at = Total /\ Total = EndOf(n) /\ frames'[n + 1].at = Total
      /\ frames'[n + 1].wire = Packed(r)
  BY <1>2, <1>6 DEF Total
<1>10. \A i \in 1..n : EndOf(i) <= Total /\ EndOf(i) \in Nat
  BY <1>2, Cells
<1> HIDE DEF f
<1>11. Layout'
  <2>1. \A i \in 1..(n + 1) : frames'[i].at = EndOf(i - 1)'
    <3> SUFFICES ASSUME NEW i \in 1..(n + 1)
                 PROVE  frames'[i].at = EndOf(i - 1)'
      OBVIOUS
    <3>1. i - 1 \in 0..n
      BY <1>2
    <3>2. EndOf(i - 1)' = EndOf(i - 1)
      BY <1>8, <3>1
    <3>3. CASE i = n + 1
      <4>1. i - 1 = n
        BY <1>2, <3>3
      <4> QED
        BY <1>9, <3>2, <3>3, <4>1
    <3>4. CASE i # n + 1
      <4>1. i \in 1..n
        BY <1>2, <3>4
      <4> QED
        BY <1>2, <1>6, <3>2, <4>1 DEF Layout
    <3> QED
      BY <3>3, <3>4
  <2>2. \A i, j \in 1..(n + 1) : i < j => EndOf(i)' <= frames'[j].at
    <3> SUFFICES ASSUME NEW i \in 1..(n + 1), NEW j \in 1..(n + 1), i < j
                 PROVE  EndOf(i)' <= frames'[j].at
      OBVIOUS
    <3>1. i \in 1..n /\ i \in 0..n /\ EndOf(i)' = EndOf(i)
      BY <1>2, <1>8
    <3>2. CASE j = n + 1
      BY <1>9, <1>10, <3>1, <3>2
    <3>3. CASE j # n + 1
      <4>1. j \in 1..n
        BY <1>2, <3>3
      <4> QED
        BY <1>2, <1>6, <3>1, <4>1 DEF Layout
    <3> QED
      BY <3>2, <3>3
  <2> QED
    BY <1>6, <1>7, <2>1, <2>2 DEF Layout
<1>12. KeysOK'
  BY <1>1, <1>2 DEF KeysOK
<1>13. Total' \in Nat /\ Total < Total'
  <2>1. CellsOf(Packed(r)) \in Nat /\ CellsOf(Packed(r)) > 0
    BY <1>3, PackedShape, ReaderAssumption DEF CellsOf
  <2>2. Total' = Total + CellsOf(Packed(r))
    <3>1. Len(frames') # 0 /\ frames'[Len(frames')].at = Total
          /\ frames'[Len(frames')].wire = Packed(r)
      BY <1>2, <1>6, <1>9
    <3>2. Total' = frames'[Len(frames')].at + CellsOf(frames'[Len(frames')].wire)
      BY <3>1 DEF Total, EndOf, CellsOf
    <3> QED
      BY <3>1, <3>2
  <2> QED
    BY <1>2, <2>1, <2>2
<1>14. SenderInv'
  <2>1. written' \in 0..Total'
    BY <1>1, <1>2, <1>13
  <2> QED
    BY <1>11, <1>12, <2>1 DEF SenderInv
<1>15. ReaderInv'
  <2>1. rd.pc = "body" => \A i \in FrameAt(rd.from)' : rd'.upto = ReadEnd(i)'
    <3> SUFFICES ASSUME rd.pc = "body", NEW i \in FrameAt(rd.from)'
                 PROVE  rd'.upto = ReadEnd(i)'
      OBVIOUS
    <3>1. rd.from < consumed /\ consumed <= Total /\ rd.from \in Nat /\ consumed \in Nat
      BY <1>1, <1>2 DEF IndInv, ReaderInv, ReadType
    <3>2. i \in 1..(n + 1) /\ frames'[i].at = rd.from
      BY <1>1, <1>6 DEF FrameAt
    <3>3. i # n + 1
      BY <1>2, <1>9, <3>1, <3>2
    <3>4. i \in 1..n /\ i \in FrameAt(rd.from)
      BY <1>2, <1>6, <3>2, <3>3 DEF FrameAt
    <3> QED
      BY <1>1, <1>8, <3>4 DEF IndInv, ReaderInv
  <2> QED
    BY <1>1, <2>1 DEF IndInv, ReaderInv
<1>16. OutInv'
  <2>1. out.frame \in 0..n
    BY <1>2 DEF IndInv, OutInv
  <2>2. out.frame # 0 => frames'[out.frame] = frames[out.frame]
    BY <1>2, <1>6, <2>1
  <2>3. out.frame # 0 => ReadsBack(frames[out.frame].asked, out.result)'
                           = ReadsBack(frames[out.frame].asked, out.result)
    BY <1>1, <2>2 DEF ReadsBack, Cause, MeantFlags, MeantBytes, SignedBy
  <2>4. out'.frame \in 0..Len(frames')
    BY <1>1, <1>2, <1>6, <2>1
  <2> QED
    BY <1>1, <2>3, <2>4 DEF IndInv, OutInv
<1>17. ChannelInv'
  <2>1. last \in 0..n
    BY <1>2 DEF IndInv, ChannelInv
  <2>2. EndOf(last)' = EndOf(last)
    <3>1. last = 0 \/ frames'[last] = frames[last]
      BY <1>2, <1>6, <2>1
    <3> QED
      BY <1>1, <3>1 DEF EndOf
  <2>3. Position' = Position
    BY <1>1 DEF Position
  <2>4. last' \in 0..Len(frames')
    BY <1>1, <1>2, <1>6, <2>1
  <2>5. Position \in Nat /\ Position <= Total
    BY <1>1, <1>2 DEF Position, IndInv, ReaderInv, ReadType
  <2>6. EndOf(n + 1)' = Total'
    BY <1>6 DEF Total
  <2>7. ASSUME ~warned, NEW i \in 1..(n + 1), last < i
        PROVE  Position < EndOf(i)'
    <3>1. CASE i = n + 1
      BY <1>2, <1>13, <2>5, <2>6, <3>1
    <3>2. CASE i # n + 1
      <4>1. i \in 1..n /\ i \in 0..n
        BY <1>2, <3>2
      <4> QED
        BY <1>2, <1>8, <2>7, <4>1 DEF IndInv, ChannelInv
    <3> QED
      BY <3>1, <3>2
  <2> QED
    BY <1>1, <1>6, <2>2, <2>3, <2>4, <2>7 DEF IndInv, ChannelInv
<1>18. ChannelStep
  BY <1>1, <1>2, <1>6 DEF ChannelStep, Channel!Next, Channel!Send
<1> QED
  BY <1>14, <1>15, <1>16, <1>17, <1>18 DEF IndInv

-----------------------------------------------------------------------------
\* Every step keeps the inductive invariant and is a step of the channel.
LEMMA StepKeeps ==
    ASSUME IndInv, [Next]_vars
    PROVE  IndInv' /\ ChannelStep
<1>1. CASE UNCHANGED vars
  <2>1. UNCHANGED sender /\ UNCHANGED <<out, last, warned>> /\ consumed' = consumed /\ rd' = rd
    BY <1>1 DEF vars
  <2>2. FrameAt(rd.from)' = FrameAt(rd.from) /\ \A i : ReadEnd(i)' = ReadEnd(i)
    BY <2>1 DEF sender, FrameAt, ReadEnd, MacCells
  <2>3. ReaderInv'
    BY <2>1, <2>2 DEF sender, IndInv, ReaderInv
  <2>4. Position' = Position
    BY <2>1 DEF Position
  <2> QED
    BY <2>1, <2>3, <2>4, QuietKeeps
<1> QED
  BY <1>1, SendKeeps, WriteKeeps, BeginKeeps, EndKeeps, RecvExactKeeps, RecvMessageKeeps
  DEF Next, FdReader, WsReader

\* The inductive invariant holds in the initial states.
LEMMA InitHolds ==
    ASSUME Init
    PROVE  IndInv
<1>1. KeysOK
  BY ReaderAssumption DEF Init, KeysOK
<1>2. Len(frames) = 0 /\ frames \in Seq(FrameRecs)
  BY DEF Init
<1>3. EndOf(0) = 0 /\ Total = 0
  BY <1>2 DEF EndOf, Total
<1>4. SenderInv
  BY <1>1, <1>2, <1>3 DEF Init, SenderInv, Layout
<1>5. rd.pc = "idle" /\ rd \in ReadType
  BY DEF Init, Idle, ReadType
<1>6. ReaderInv
  BY <1>5 DEF Init, ReaderInv
<1>7. OutInv
  BY <1>2 DEF Init, Outcome, OutInv
<1>8. ChannelInv
  <2>1. warned \in BOOLEAN
    BY Zenon DEF Init
  <2> QED
    BY <1>2, <1>3, <1>5, <2>1 DEF Init, ChannelInv, Position
<1> QED
  BY <1>4, <1>6, <1>7, <1>8 DEF IndInv

\* The inductive invariant holds in every reachable state.
THEOREM Invariance == Spec => []IndInv
<1>1. IndInv /\ [Next]_vars => IndInv'
  BY StepKeeps
<1> QED
  BY <1>1, InitHolds, PTL DEF Spec

\* Every variable keeps its type, and the reader never takes cells that are not there nor
\* more than its read is for.
THEOREM TypeCorrect == Spec => []TypeOK
<1>1. IndInv => TypeOK
  BY DEF IndInv, SenderInv, ReaderInv, ReadType, OutInv, ChannelInv, TypeOK
<1> QED
  BY <1>1, Invariance, PTL

\* parse_frame_bytes undoes the pack functions: a frame read whole comes back as it was
\* meant exactly when there is no cause to refuse it, and under a session key only when it
\* was signed with that key.
THEOREM FramesRoundTrip == Spec => []RoundTrip
<1>1. IndInv => RoundTrip
  BY DEF IndInv, OutInv, ReadsBack, RoundTrip
<1> QED
  BY <1>1, Invariance, PTL

\* A read of a UNIX socket that throws VynkorTimeout has consumed nothing.
THEOREM CleanTimeouts == Spec => TimeoutIsClean
<1>1. IndInv /\ [Next]_vars => CleanStep
  <2> SUFFICES ASSUME IndInv, [Next]_vars, ~ws, rd.pc # "idle", rd'.pc = "idle",
                      out'.what = "timeout"
               PROVE  consumed' = rd.from
    BY DEF CleanStep
  <2>0. rd \in ReadType
    BY DEF IndInv, ReaderInv, ReadType
  <2>1. CASE PollTimesOut
    BY <2>1 DEF PollTimesOut, IndInv, ReaderInv
  <2>2. ASSUME NEW what, NEW i, NEW result, Return(what, i, result), what # "timeout"
        PROVE  FALSE
    BY <2>2 DEF Return, Outcome
  <2>3. CASE FrameTimesOut \/ Hangup
    BY <2>2, <2>3 DEF FrameTimesOut, Hangup
  <2>5. CASE RecvExact
    <3>1. ~Parse
      BY <2>2 DEF Parse
    <3>2. rd' # rd
      OBVIOUS
    <3>3. HeaderRead
      BY <2>5, <3>1, <3>2 DEF RecvExact
    <3>4. PICK upto : rd' = [rd EXCEPT !.pc = "body", !.upto = upto]
      BY <2>2, <3>1, <3>3 DEF HeaderRead
    <3> QED
      BY <2>0, <3>4 DEF ReadType
  <2>6. CASE DeadlinePasses \/ WideExpires \/ PollReady \/ FirstByte
    BY <2>0, <2>6 DEF DeadlinePasses, WideExpires, Expires, PollReady, FirstByte, ReadType
  <2>7. CASE \/ \E r \in Requests : Send(r)
             \/ Write \/ PeerCloses \/ UNCHANGED vars
    BY <2>7 DEF Send, Write, PeerCloses, vars
  <2>8. CASE \E timeout \in Timeouts : CallRead(timeout)
    BY <2>8 DEF CallRead
  <2> QED
    BY <2>1, <2>3, <2>5, <2>6, <2>7, <2>8 DEF Next, FdReader, WsReader
<1> QED
  BY <1>1, Invariance, PTL DEF Spec, TimeoutIsClean

\* The reader implements the channel: frames are delivered in order, none twice, and none
\* is passed over unless a call has thrown, other than VynkorTimeout.
THEOREM Refinement == Spec => ImplementsChannel
<1>1. Init => Channel!Init
  BY DEF Init, Channel!Init
<1>2. IndInv /\ [Next]_vars => [Channel!Next]_<<Len(frames), last, warned>>
  BY StepKeeps DEF ChannelStep
<1> QED
  BY <1>1, <1>2, Invariance, PTL DEF Spec, ImplementsChannel, Channel!Spec
=============================================================================
