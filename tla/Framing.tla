------------------------------ MODULE Framing ------------------------------
(***************************************************************************)
(* The length-prefixed framing shared by the Geth proxy server             *)
(* (GethProxyTCPHandler.handle) and its tester client (DoRequest):         *)
(*                                                                         *)
(*   frame = 8-byte little-endian length ++ JSON text of that length       *)
(*                                                                         *)
(* A TCP connection direction is a byte stream.  It is represented by the  *)
(* sequence of frames written into it; byte positions are computed from    *)
(* the frames, so a payload of hundreds of bytes costs one number.         *)
(***************************************************************************)
EXTENDS Naturals, Sequences

\* Width of the length header: to_bytes(8, ...) / sock.recv(8).
HeaderWidth == 8

\* A payload byte is printable ASCII (json.dumps uses ensure_ascii).  The
\* properties never tell payload byte values apart, so one stands for all.
JsonByte == 34

\* n.to_bytes(w, byteorder='little')
RECURSIVE ToBytesLE(_, _)
ToBytesLE(n, w) == IF w = 0 THEN <<>> ELSE <<n % 256>> \o ToBytesLE(n \div 256, w - 1)

\* Mutant: the length is taken from the first byte alone (rawSockData[0]).
FromBytesFirstByte(bs) == IF bs = <<>> THEN 0 ELSE Head(bs)

\* int.from_bytes(bs, byteorder='little'); int.from_bytes(b'') = 0.
RECURSIVE FromBytesLE(_)
FromBytesLE(bs) == IF bs = <<>> THEN 0 ELSE Head(bs) + 256 * FromBytesLE(Tail(bs))

\* Reference for what the first k bytes of an n.to_bytes(8, 'little')
\* header decode to: n modulo 256^k (lengths here are far below 2^31, the
\* range of TLC's integers, so k >= 4 leaves n whole).
LowBytesValue(n, k) == IF 8 * k >= 31 THEN n ELSE n % (2^(8 * k))

(***************************************************************************)
(* len(json.dumps({'method': m, 'params': [h1, ..., hn]})): the fixed text *)
(* '{"method": "", "params": []}' is 28 characters, each string parameter *)
(* adds its quotes, and parameters are joined by ', '.                     *)
(***************************************************************************)
RECURSIVE SumHexLen(_)
SumHexLen(ps) == IF ps = <<>> THEN 0 ELSE Head(ps).hexLen + SumHexLen(Tail(ps))

RequestJsonLen(methodLen, params) ==
    28 + methodLen + SumHexLen(params)
       + (IF params = <<>> THEN 0 ELSE 4 * Len(params) - 2)

\* len(json.dumps({'status': 'ok', 'result': []}))
OkJsonLen == 30

\* len(json.dumps({'status': 'error', 'result': 'Unknown method: ' + m}))
ErrorJsonLen(methodLen) == 49 + methodLen

(***************************************************************************)
(* Byte positions in a stream of frames.  lens is the sequence of payload  *)
(* lengths of the frames written so far, in order.                         *)
(***************************************************************************)
RECURSIVE FrameStart(_, _)
\* Number of stream bytes before frame i.
FrameStart(lens, i) ==
    IF i = 1 THEN 0 ELSE FrameStart(lens, i - 1) + HeaderWidth + lens[i - 1]

\* The value of stream byte p (1-based).
ByteAt(lens, p) ==
    LET i == CHOOSE f \in 1..Len(lens) :
                 FrameStart(lens, f) < p
                 /\ p <= FrameStart(lens, f) + HeaderWidth + lens[f]
        off == p - FrameStart(lens, i)
    IN  IF off <= HeaderWidth THEN ToBytesLE(lens[i], HeaderWidth)[off]
        ELSE JsonByte

\* The bytes a recv returns when the reader has consumed `from` bytes and
\* the call returns k more.
Segment(lens, from, k) == [j \in 1..k |-> ByteAt(lens, from + j)]

\* Positions at which a frame starts: the only places a header may be read.
Boundaries(lens) == {FrameStart(lens, i) : i \in 1..Len(lens) + 1}

\* json.loads succeeds on the bytes from+1..from+k only when they are the
\* whole JSON text of one frame: a proper prefix of a JSON object, or text
\* that includes header bytes, raises.  The result is that frame's index.
WholePayload(lens, from, k) ==
    {i \in 1..Len(lens) : from = FrameStart(lens, i) + HeaderWidth /\ k = lens[i]}

=============================================================================
