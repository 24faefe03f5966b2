---- MODULE FixtureCodec ----
(***************************************************************************)
(* The fixture codecs of src/runtime/hooks.c and src/runtime/equivalence.c *)
(* A fixture is written as a JSON object or as a checksummed BIN frame,    *)
(* stored, and read back, through the same codec or another one.  A value  *)
(* is what it says ("is") and the form in which it is written.  Bytes are  *)
(* counted only as far as the four of a checksum can be mistaken for four  *)
(* of a field.  A checksum stands for what it covers, that is, checksums   *)
(* do not collide here, and memory does not run out.                       *)
(***************************************************************************)
EXTENDS Naturals, FiniteSets, SequencesExt

CONSTANTS
  Fixtures,     \* the fixtures handed to an encoder, valid or not
  Damageable,   \* the fields storage may damage
  Damage,       \* the values it may leave in them
  Abridged,     \* what the values say whose field is four bytes shorter than others
  FooterReadings, \* the fields four bytes of checksum may parse as, were they payload
  MaxFlaws      \* bound on the faults one payload suffers

VARIABLES
  source,       \* the fixture the payload was encoded from
  payload,      \* the output buffer of the last encoder: bytes in storage
  flaws,        \* what storage did to them
  decoded       \* the caller's out_fixture, once a decoder has filled it
codecVars == <<source, payload, flaws, decoded>>

Codecs == {"json", "bin"}

\* The tags of the BIN schema, in their order.
BinOrder == <<"scenario_id", "fixture_schema_version", "scenario_dsl_version", "profile",
  "codec", "seed", "input", "expected_events", "expected_final_snapshot",
  "expected_error_codes", "semantic_digest", "rust_baseline_commit",
  "rust_toolchain_commit_hash", "rust_toolchain_release", "rust_toolchain_host",
  "cargo_lock_sha256", "capture_run_id">>

\* The keys of the JSON object; those of the provenance object inside it are not told apart.
JsonOrder == <<"codec", "expected_error_codes", "expected_events", "expected_final_snapshot",
  "fixture_schema_version", "input", "profile", "cargo_lock_sha256", "capture_run_id",
  "rust_baseline_commit", "rust_toolchain_commit_hash", "rust_toolchain_host",
  "rust_toolchain_release", "scenario_dsl_version", "scenario_id", "seed",
  "semantic_digest">>

Fields == Range(BinOrder)
RawFields == {"input", "expected_events", "expected_final_snapshot", "expected_error_codes"}
TextFields == Fields \ (RawFields \cup {"codec", "seed"})
Provenance == {"cargo_lock_sha256", "capture_run_id", "rust_baseline_commit",
  "rust_toolchain_commit_hash", "rust_toolchain_host", "rust_toolchain_release"}

\* A value in memory is a string of C or a number, so that it has no NUL byte.
IsValue(v) == v = [is |-> v.is, form |-> v.form]
IsFixture(f) ==
  /\ f = [k \in Fields |-> f[k]]
  /\ \A k \in Fields : IsValue(f[k]) /\ f[k].form # "nul"
  /\ f["seed"].form = "number"
Tags == Fields \cup {"unknown", "outside"}
Wires == {"varint", "bytes", "other"}
IsBinField(m) ==
  m = [tag |-> m.tag, wire |-> m.wire, value |-> m.value] /\ m.tag \in Tags /\ m.wire \in Wires

ASSUME CodecAssumption ==
  /\ \A f \in Fixtures : IsFixture(f)
  /\ \A v \in Damage : IsValue(v)
  /\ FooterReadings # {}
  /\ \A r \in FooterReadings :
       /\ r = [n \in 1 .. Len(r) |-> r[n]] /\ Len(r) \in 1 .. 2
       /\ \A n \in 1 .. Len(r) : IsBinField(r[n]) /\ IsValue(r[n].value)
  /\ MaxFlaws \in Nat

\* A JSON value: whole, between blanks or not; an "input" without "ops" has a form of its
\* own, and so has one that does not parse or nests deeper than 64.
WholeJson == {"tight", "padded"}

\* asx_canonical_fixture_validate
ValidFixture(f) ==
  /\ \A k \in TextFields : f[k].form # "empty"
  /\ f["codec"].is \in Codecs
  /\ \A k \in RawFields : f[k].form \in WholeJson
  /\ f["semantic_digest"].form = "digest"

SchemaV1 == [is |-> "fixture-v1", form |-> "plain"]

----------------------------------------------------------------------------
(* JSON *)

\* A control character without an escape of its own is written \u00xx; blanks around a
\* JSON value are left out.
JsonText(v) == IF v.form = "control" THEN [v EXCEPT !.form = "escaped"] ELSE v
JsonRaw(v) == [v EXCEPT !.form = "tight"]
JsonValue(k, v) ==
  IF k \in RawFields THEN JsonRaw(v) ELSE IF k \in TextFields THEN JsonText(v) ELSE v

EncodeJson(f) ==
  [codec |-> "json", closed |-> TRUE,
   members |-> [n \in DOMAIN JsonOrder |->
                  [key |-> JsonOrder[n], value |-> JsonValue(JsonOrder[n], f[JsonOrder[n]])]]]

\* A \u escape is read as a question mark, whatever it stood for.
ReadText(v) == IF v.form = "escaped" THEN [v EXCEPT !.form = "question"] ELSE v
ReadRaw(v) == IF v.form = "padded" THEN [v EXCEPT !.form = "tight"] ELSE v
ReadJson(k, v) ==
  IF k \in RawFields THEN ReadRaw(v) ELSE IF k \in TextFields THEN ReadText(v) ELSE v

\* What can be read of one member: no NUL byte, a JSON value that parses, a known codec, a
\* seed of 64 bits.
Legible(m) ==
  /\ m.value.form # "nul"
  /\ m.key \in RawFields => m.value.form # "broken"
  /\ m.key = "seed" => m.value.form = "number"
  /\ m.key = "codec" => m.value.is \in Codecs

MemberOf(doc, k) == CHOOSE m \in Range(doc.members) : m.key = k

\* asx_codec_decode_fixture_json_payload: the fixture it returns, if any.
DecodeJson(doc) ==
  LET parsed == [k \in Fields |-> ReadJson(k, MemberOf(doc, k).value)]
  IN  IF /\ doc.closed
         /\ Len(doc.members) = Cardinality(Fields)
         /\ {doc.members[n].key : n \in DOMAIN doc.members} = Fields
         /\ \A n \in DOMAIN doc.members : Legible(doc.members[n])
         /\ ValidFixture(parsed)
      THEN {parsed} ELSE {}

----------------------------------------------------------------------------
(* BIN *)

WireOf(k) == IF k \in {"codec", "seed"} THEN "varint" ELSE "bytes"

NoFooter == [covers |-> <<>>, reads |-> <<>>]
Checksum(frame) == <<frame.header, frame.flag, frame.length, frame.fields>>

\* The bytes of fields, eight or four each.
SizeOf(fields) ==
  4 * (Len(fields) + Cardinality({n \in DOMAIN fields : fields[n].value.is \notin Abridged}))

\* asx_codec_encode_fixture_bin, for a fixture of the one schema it knows: every value as
\* it is, and always a checksum, of which "reads" is what its bytes would parse as.
EncodeBin(f, reads) ==
  LET fields == [n \in DOMAIN BinOrder |->
                   [tag |-> BinOrder[n], wire |-> WireOf(BinOrder[n]), value |-> f[BinOrder[n]]]]
      frame  == [codec |-> "bin", header |-> "v1", flag |-> TRUE, length |-> SizeOf(fields),
                 fields |-> fields, footer |-> NoFooter]
  IN  [frame EXCEPT !.footer = [covers |-> Checksum(frame), reads |-> reads]]

\* The length in the header, and a footer if the flag says so, are all there is.
LengthFits(frame) ==
  frame.length + (IF frame.flag THEN 4 ELSE 0)
    = SizeOf(frame.fields) + (IF frame.footer = NoFooter THEN 0 ELSE 4)

FrameAccepted_LengthOnly(frame) == frame.header = "v1" /\ LengthFits(frame)
\* asx_codec_bin_parse_frame: without the flag no checksum is read, and a footer that is
\* there all the same counts as payload.
FrameAccepted(frame) ==
  /\ frame.header = "v1"
  /\ LengthFits(frame)
  /\ frame.flag => frame.footer.covers = Checksum(frame)
PayloadOf(frame) == IF frame.flag THEN frame.fields ELSE frame.fields \o frame.footer.reads

\* A field of a tag of the schema and of the wire type of that tag is read; one of another
\* tag up to 63, or of the other of the two wire types, is passed over.
Taken(fields, k) == {n \in DOMAIN fields : fields[n].tag = k /\ fields[n].wire = WireOf(k)}
Slice(fields, k) == fields[CHOOSE n \in Taken(fields, k) : TRUE].value

\* asx_codec_bin_validate_view, on the bytes as they are in the frame.
ValidView(view) ==
  /\ view["fixture_schema_version"] = SchemaV1
  /\ view["codec"].is \in Codecs /\ view["seed"].form = "number"
  /\ \A k \in TextFields : view[k].form # "empty"
  /\ \A k \in RawFields : view[k].form \in WholeJson
  /\ view["semantic_digest"].form = "digest"

\* A text copied out of a frame ends at its first NUL byte.
CopiedText(v) == IF v.form = "nul" THEN [v EXCEPT !.form = "cut"] ELSE v

DecodeBin(frame) ==
  LET fields == PayloadOf(frame)
      view   == [k \in Fields |-> Slice(fields, k)]
      parsed == [k \in Fields |-> CopiedText(view[k])]
  IN  IF /\ FrameAccepted(frame)
         /\ \A n \in DOMAIN fields : fields[n].tag # "outside" /\ fields[n].wire # "other"
         /\ \A k \in Fields : Cardinality(Taken(fields, k)) = 1
         /\ ValidView(view)
         /\ ValidFixture(parsed)
      THEN {parsed} ELSE {}

----------------------------------------------------------------------------
(* Both *)

\* asx_codec_encode_fixture: the payload it writes, if any.  How a checksum would parse is
\* told by its bytes, which are not modelled.
Encoded(codec, f) ==
  IF ~ValidFixture(f) THEN {}
  ELSE IF codec = "json" THEN {EncodeJson(f)}
  ELSE IF f["fixture_schema_version"] # SchemaV1 THEN {}
  ELSE {EncodeBin(f, r) : r \in FooterReadings}

\* asx_codec_decode_fixture: neither codec takes the bytes of the other.
Decoded(codec, p) ==
  IF p.codec # codec THEN {} ELSE IF codec = "json" THEN DecodeJson(p) ELSE DecodeBin(p)

\* asx_codec_fixture_semantic_eq: every field but the codec.
SemanticEq(a, b) == \A k \in Fields \ {"codec"} : a[k] = b[k]

\* The keys that name a scenario, of valid fixtures.
SemanticKey(f) ==
  [k \in {"profile", "scenario_id", "seed", "semantic_digest"} |-> JsonValue(k, f[k])]
ReplayKey(f) ==
  [k \in {"codec", "profile", "scenario_id", "seed", "semantic_digest"} |-> JsonValue(k, f[k])]

\* asx_codec_cross_codec_verify: both round trips, compared with each other.
CrossCodecVerify(f) ==
  \E viaJson \in UNION {Decoded("json", p) : p \in Encoded("json", f)},
     viaBin  \in UNION {Decoded("bin", p) : p \in Encoded("bin", f)} :
        SemanticEq(viaJson, viaBin)

NoBytes == [codec |-> "none"]
NoFixture == [k \in Fields |-> [is |-> "none", form |-> "empty"]]

CodecInit == source = NoFixture /\ payload = NoBytes /\ flaws = <<>> /\ decoded = {}

\* An encoder that refuses leaves the buffer as it was.
EncodeFixture(codec, f) ==
  /\ \E p \in Encoded(codec, f) : payload' = p
  /\ source' = f /\ flaws' = <<>>
  /\ UNCHANGED decoded

\* A decoder fills out_fixture only when it accepts the whole payload.
DecodeFixture(codec) ==
  /\ payload # NoBytes
  /\ decoded' = IF Decoded(codec, payload) = {} THEN decoded ELSE Decoded(codec, payload)
  /\ UNCHANGED <<source, payload, flaws>>

\* asx_canonical_fixture_reset
FixtureReset == decoded' = {} /\ UNCHANGED <<source, payload, flaws>>

----------------------------------------------------------------------------
(* Storage: one fault at a time, to a whole field or member, or to the frame around them. *)

Fault(kind) == Len(flaws) < MaxFlaws /\ flaws' = Append(flaws, kind) /\ UNCHANGED <<source, decoded>>

\* The keys whose values would pass for each other's; any other exchange of two keys is
\* refused as an unknown key is.
Interchangeable ==
  {TextFields \ Provenance, Provenance, {"expected_events", "expected_error_codes"}}

JsonDamaged ==
  /\ payload.codec = "json"
  /\ LET m == payload.members
     IN  \/ /\ Fault("cut") /\ m # <<>>
            /\ payload' = [payload EXCEPT !.members = Front(m), !.closed = FALSE]
         \/ \E n \in DOMAIN m :
              /\ m[n].key \in Damageable
              /\ \/ Fault("drop") /\ payload' = [payload EXCEPT !.members = RemoveAt(m, n)]
                 \/ Fault("double") /\ payload' = [payload EXCEPT !.members = Append(m, m[n])]
                 \/ Fault("key") /\ payload' = [payload EXCEPT !.members[n].key = "unknown"]
                 \/ \E kind \in Interchangeable : \E k \in (kind \cap Damageable) \ {m[n].key} :
                      /\ m[n].key \in kind
                      /\ Fault("rename") /\ payload' = [payload EXCEPT !.members[n].key = k]
                 \/ \E v \in Damage :
                      Fault("value") /\ payload' = [payload EXCEPT !.members[n].value = v]

BinDamaged ==
  /\ payload.codec = "bin"
  /\ LET fs == payload.fields
     IN  \/ Fault("header") /\ payload' = [payload EXCEPT !.header = "other"]
         \/ Fault("flag") /\ payload' = [payload EXCEPT !.flag = ~@]
         \/ Fault("footer") /\ payload' = [payload EXCEPT !.footer = NoFooter]
         \/ \E r \in FooterReadings :
              /\ Fault("footer")
              /\ payload' = [payload EXCEPT !.footer = [covers |-> <<"other">>, reads |-> r]]
         \/ \E d \in {0, 5, 8} :
              Fault("length") /\ payload' = [payload EXCEPT !.length = (@ + d) - 4]
         \/ \E n \in DOMAIN fs :
              /\ fs[n].tag \in Damageable
              /\ \/ Fault("drop") /\ payload' = [payload EXCEPT !.fields = RemoveAt(fs, n)]
                 \/ Fault("double") /\ payload' = [payload EXCEPT !.fields = Append(fs, fs[n])]
                 \/ \E t \in {"unknown", "outside"} :
                      Fault("key") /\ payload' = [payload EXCEPT !.fields[n].tag = t]
                 \/ \E w \in Wires \ {fs[n].wire} :
                      Fault("wire") /\ payload' = [payload EXCEPT !.fields[n].wire = w]
                 \/ \E v \in Damage :
                      Fault("value") /\ payload' = [payload EXCEPT !.fields[n].value = v]

CodecNext ==
  \/ \E codec \in Codecs, f \in Fixtures \cup decoded : EncodeFixture(codec, f)
  \/ \E codec \in Codecs : DecodeFixture(codec)
  \/ FixtureReset
  \/ JsonDamaged \/ BinDamaged

CodecSpec == CodecInit /\ [][CodecNext]_codecVars

----------------------------------------------------------------------------
(* Properties *)

RoundTrips(codec, f) ==
  \A p \in Encoded(codec, f) : Decoded(codec, p) = {f}

\* Every payload an encoder writes is one its decoder takes.  BIN brings back the fixture
\* itself.  JSON brings back a fixture that both codecs then preserve, so that a chain of
\* conversions loses nothing after its first JSON step, and two codecs disagree about a
\* fixture, as asx_codec_cross_codec_verify finds, exactly if JSON changed it; a fixture
\* they agree about keeps its keys.
RoundTripSettles ==
  payload # NoBytes /\ flaws = <<>> =>
    \E back \in Decoded(payload.codec, payload) :
      /\ payload.codec = "bin" => back = source
      /\ payload.codec = "json" =>
           /\ \A codec \in Codecs : RoundTrips(codec, back)
           /\ Encoded("bin", source) # {} => (CrossCodecVerify(source) <=> back = source)
      /\ CrossCodecVerify(source) =>
           SemanticKey(back) = SemanticKey(source) /\ ReplayKey(back) = ReplayKey(source)

\* While its flag is set no number of faults makes a BIN payload yield another fixture, and
\* neither does one fault without it; in a JSON payload any number is borne that leaves keys
\* and values alone, or turns keys into unknown ones, and so is one key that took the name
\* of another.  (More defeat them: with the flag cleared and the fields four bytes shorter
\* the checksum is read as payload, and compared with nothing; two keys exchanged leave an
\* object that is whole.)
Bearable ==
  IF payload.codec = "bin" THEN payload.flag \/ Len(flaws) <= 1
  ELSE ~Contains(flaws, "value") /\ (Contains(flaws, "rename") => Len(flaws) <= 1)
DamageRefused ==
  payload # NoBytes /\ Bearable =>
    Decoded(payload.codec, payload) \subseteq
      UNION {Decoded(payload.codec, p) : p \in Encoded(payload.codec, source)}
====
