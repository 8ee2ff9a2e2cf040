----------------------------- MODULE WsReassembly -----------------------------
(***************************************************************************)
(* ltictr_ws: one direction of a websocket as the proxy sees it.  The      *)
(* bytes arrive in reads that need not respect the frames; those of text   *)
(* frames are collected in a ring buffer (cring or sring) and taken out of *)
(* it one frame at a time.  What is taken out is reported to the LMS.      *)
(*                                                                         *)
(* Bytes are numbers.  A body is a few bytes, also behind the long headers *)
(* that the protocol keeps for bodies of 126 bytes and more; the ring      *)
(* buffer of 2 MB never fills.                                             *)
(***************************************************************************)
EXTENDS Naturals, Sequences, SequencesExt

CONSTANTS
  Streams,       \* what may be sent: sequences of frames
  Stale,         \* bytes that may be left in the ring buffer behind its data
  ByteXor(_, _)  \* the operator ^ of C on two bytes

Byte == 0 .. 255
Text == 129   \* 0x81: an unfragmented text frame
Brace == 123  \* '{'

\* A frame: its first byte, the number of its additional length bytes, its
\* mask or the empty sequence, and its unmasked body.
Frame == [op : Byte, ext : {0, 2, 8}, mask : Seq(Byte), body : Seq(Byte)]

ASSUME StreamsAssumption ==
  \A fs \in Streams :
    /\ fs \in Seq(Frame)
    /\ \A i \in DOMAIN fs : Len(fs[i].mask) \in {0, 4} /\ Len(fs[i].body) < 126

ASSUME StaleAssumption == Stale \subseteq Byte

ASSUME XorAssumption ==
  \A a, b \in Byte : ByteXor(a, b) \in Byte /\ ByteXor(ByteXor(a, b), b) = a

VARIABLES
  frames,   \* the frames that are sent on this connection
  received, \* how many of their bytes have been read from the socket
  ring,     \* the data in the ring buffer
  state,    \* JBXL_NORMAL or JBXL_INCOMPLETE
  busy,     \* whether ws_json_parse is being called
  parsed,   \* the JSON texts that it returned
  crashed   \* whether NULL has been dereferenced

vars == <<frames, received, ring, state, busy, parsed, crashed>>

-------------------------------------------------------------------------------
(* The browser and the notebook server: RFC 6455. *)

\* pp[i] ^ pm[i%4]
Unmask(pp, pm) == [i \in 1 .. Len(pp) |-> ByteXor(pp[i], pm[((i - 1) % 4) + 1])]

\* The bytes of a frame.
Encode(f) ==
  LET bit == IF f.mask = <<>> THEN 0 ELSE 128
      len == CASE f.ext = 0 -> <<bit + Len(f.body)>>
               [] f.ext = 2 -> <<bit + 126, 0, Len(f.body)>>
               [] f.ext = 8 -> <<bit + 127, 0, 0, 0, 0, 0, 0, 0, Len(f.body)>>
  IN <<f.op>> \o len \o f.mask \o (IF f.mask = <<>> THEN f.body ELSE Unmask(f.body, f.mask))

Encoded == [i \in DOMAIN frames |-> Encode(frames[i])]

Stream == FlattenSeq(Encoded)

Init ==
  /\ frames \in Streams
  /\ received = 0
  /\ ring = <<>>
  /\ state = "normal"
  /\ busy = FALSE
  /\ parsed = <<>>
  /\ crashed = FALSE

-------------------------------------------------------------------------------
(* ws_json_client, ws_json_server *)

\* clear_ringBuffer, put_ringBuffer
Put(chunk) ==
  IF chunk[1] = Text /\ state = "incomplete" THEN chunk ELSE ring \o chunk

\* The socket returns the next n bytes.  What cannot be text is not collected.
Read(n) ==
  LET chunk == SubSeq(Stream, received + 1, received + n) IN
  /\ ~busy /\ ~crashed
  /\ received' = received + n
  /\ IF chunk[1] # Text /\ state = "normal"
       THEN UNCHANGED <<ring, state, busy>>
       ELSE ring' = Put(chunk) /\ state' = "normal" /\ busy' = TRUE
  /\ UNCHANGED <<frames, parsed, crashed>>

-------------------------------------------------------------------------------
(* ws_json_parse *)

\* ref_ringBuffer(ring, i): the bytes it may point to, none when it is NULL.
\* The byte behind the data can be referred to.
Ref(i) ==
  CASE i < Len(ring) -> {ring[i + 1]}
    [] i = Len(ring) -> Stale
    [] OTHER -> {}

\* Mutant: the loop over eight bytes is run for both long headers.
ExtLongest(b) == IF b % 128 >= 126 THEN 8 ELSE 0

\* How many more length bytes a first length byte b announces.
Ext(b) == CASE b % 128 = 126 -> 2 [] b % 128 = 127 -> 8 [] OTHER -> 0

\* The length of the body, with its last additional byte in last.
BodyLen(b, last) ==
  LET len[i \in 2 .. Ext(b) + 1] == IF i = 2 THEN 0 ELSE 256 * len[i - 1] + ring[i]
  IN  IF Ext(b) = 0 THEN b % 128 ELSE 256 * len[Ext(b) + 1] + last

\* Mutant: every text is taken for JSON.
AnyText(body) == TRUE

IsJson(body) == body # <<>> /\ body[1] = Brace

\* Mutant: the call that found a frame is the last one.
ParseOnce(body) == FALSE

\* The while loops over ws_json_parse.
ParseMore(body) == IsJson(body)

\* A frame of pos bytes of header, mask times four of key, and len of body.
Take(pos, mask, len) ==
  LET key  == SubSeq(ring, pos + 1, pos + 4 * mask)
      data == SubSeq(ring, pos + 4 * mask + 1, pos + 4 * mask + len)
      body == IF mask = 1 THEN Unmask(data, key) ELSE data
      size == pos + len + 4 * mask
  IN
  IF Len(ring) >= size
    THEN /\ ring' = SubSeq(ring, size + 1, Len(ring))
         /\ state' = "normal"
         /\ parsed' = IF IsJson(body) THEN Append(parsed, body) ELSE parsed
         /\ busy' = ParseMore(body)
    ELSE /\ state' = "incomplete"
         /\ busy' = FALSE
         /\ UNCHANGED <<ring, parsed>>

AtText == ring # <<>> /\ ring[1] = Text

ParseNothing ==
  /\ busy /\ ~AtText
  /\ busy' = FALSE
  /\ UNCHANGED <<frames, received, ring, state, parsed, crashed>>

\* A header that ends before the last byte but one is referred to as NULL.
ParseNull ==
  /\ busy /\ AtText
  /\ \E b \in Ref(1) : Ext(b) > 0 /\ Ref(Ext(b) + 1) = {}
  /\ crashed' = TRUE
  /\ busy' = FALSE
  /\ UNCHANGED <<frames, received, ring, state, parsed>>

ParseText ==
  /\ busy /\ AtText
  /\ \E b \in Ref(1) :
       \E last \in IF Ext(b) = 0 THEN {b} ELSE Ref(Ext(b) + 1) :
         Take(2 + Ext(b), b \div 128, BodyLen(b, last))
  /\ UNCHANGED <<frames, received, crashed>>

Next ==
  \/ \E n \in 1 .. Len(Stream) - received : Read(n)
  \/ ParseNothing
  \/ ParseNull
  \/ ParseText

Spec == Init /\ [][Next]_vars

-------------------------------------------------------------------------------
(* Properties. *)

\* The bodies that can be JSON.
JsonText == {body \in Seq(Byte) : body # <<>> /\ body[1] = Brace}

\* Every variable has its type; what is parsed is JSON.
TypeOK ==
  /\ frames \in Streams
  /\ received \in 0 .. Len(Stream)
  /\ ring \in Seq(Byte)
  /\ state \in {"normal", "incomplete"}
  /\ busy \in BOOLEAN
  /\ parsed \in Seq(JsonText)
  /\ crashed \in BOOLEAN

\* Where frame i ends in the stream.
End(i) == Len(FlattenSeq(SubSeq(Encoded, 1, i)))

\* The text frames that have arrived completely and hold JSON.
Due ==
  {i \in DOMAIN frames :
     End(i) <= received /\ frames[i].op = Text /\ frames[i].body \in JsonText}

\* However the stream is cut into reads: between two calls, the JSON texts of
\* all the text frames that have arrived completely have been returned, in
\* order, whole, and nothing else.
TextIsParsed ==
  ~busy /\ ~crashed =>
    /\ Len(parsed) = Cardinality(Due)
    /\ \A i \in Due : parsed[Cardinality({j \in Due : j <= i})] = frames[i].body

\* The process dies only of a read that ends inside the header of a frame, and
\* nothing of an earlier frame is in the ring buffer then.
CrashIsInHeader ==
  crashed => \E i \in DOMAIN frames :
               /\ received - End(i - 1) = Len(ring)
               /\ received - End(i - 1) \in 1 .. 1 + frames[i].ext
===============================================================================
