----------------------------- MODULE FormatHex -----------------------------
(***************************************************************************)
(* FormatTestInput.py turns certificates, keys and numbers into Solidity   *)
(* source for the contract tests: FormatHex splits a hex string into lines *)
(* of 64 digits (32 bytes) and writes each as a hex"..." literal, the      *)
(* literals separated by a newline, so that the printed lines pasted into  *)
(* Solidity are one bytes constant.  FormatBytes formats data.hex();       *)
(* FormatInt formats hex(data) without its 0x, padded to an even length.   *)
(*                                                                         *)
(* Text is a sequence of one-character strings.  The check runs each      *)
(* formatter on a bounded set of inputs and parses what it prints with a   *)
(* reference reader of Solidity hex literals.                              *)
(***************************************************************************)
EXTENDS Naturals, Sequences, SequencesExt

CONSTANTS
    Positions,  \* --start and --end values tried
    MaxBytes,   \* longest byte string given to FormatBytes
    MaxSmall,   \* FormatInt is given every number up to this
    MaxDigits   \* and numbers of up to this many hex digits

HexChars == <<"0", "1", "2", "3", "4", "5", "6", "7",
              "8", "9", "a", "b", "c", "d", "e", "f">>
Digit(v) == HexChars[v + 1]
Quote == "\""
NL == "\n"

\* The text hex"
HexOpen == <<"h", "e", "x", Quote>>

\* '"\nhex"'.join(lines): the lines with the separator between them.
Join(lines, sep) ==
    IF lines = <<>> THEN <<>>
    ELSE FoldLeft(LAMBDA acc, l : acc \o sep \o l, Head(lines), Tail(lines))

\* [dataHex[i:i+64] for i in range(0, len(dataHex), 64)]
HexLines(d) ==
    [k \in 1..((Len(d) + 63) \div 64) |->
        SubSeq(d, (k - 1) * 64 + 1, IF k * 64 < Len(d) THEN k * 64 ELSE Len(d))]

FormatHex(d) ==
    HexOpen \o Join(HexLines(d), <<Quote, NL>> \o HexOpen) \o <<Quote>>

\* bytes.hex(): two digits per byte, high nibble first.
ToHex(bytes) == FlattenSeq([i \in DOMAIN bytes |->
                    <<Digit(bytes[i] \div 16), Digit(bytes[i] % 16)>>])

FormatBytes(bytes) == FormatHex(ToHex(bytes))

\* hex(n): 0x and the digits of n, without leading zeros.
RECURSIVE Digits(_)
Digits(n) == IF n < 16 THEN <<Digit(n)>> ELSE Digits(n \div 16) \o <<Digit(n % 16)>>
PyHex(n) == <<"0", "x">> \o Digits(n)

\* Mutant: the odd-length hex is not padded.
FormatIntUnpadded(intHex0x) ==
    FormatHex(SubSeq(intHex0x, 3, Len(intHex0x)))

\* FormatInt, from the text hex(data) returns: drop 0x, pad with a 0 to an
\* even length.
FormatInt(intHex0x) ==
    LET intHex == SubSeq(intHex0x, 3, Len(intHex0x)) IN
    FormatHex(IF Len(intHex) % 2 = 1 THEN <<"0">> \o intHex ELSE intHex)

\* s[a:b], Python's slice: a negative bound counts from the end, and
\* bounds are clamped to the string.
PySlice(str, a, b) ==
    LET n == Len(str)
        Norm(i) == IF i < 0 THEN (IF n + i < 0 THEN 0 ELSE n + i)
                   ELSE (IF i > n THEN n ELSE i)
    IN IF Norm(a) < Norm(b) THEN SubSeq(str, Norm(a) + 1, Norm(b)) ELSE <<>>

\* FormatHexStrOrFile: a certificate file's bytes, or a hex string (which
\* unhexlify has checked), cut from startPos to endPos (-1: to the end).
FormatHexStrOrFile(isFile, data, startPos, endPos) ==
    IF isFile
    THEN FormatBytes(PySlice(data, startPos, IF endPos = -1 THEN Len(data) ELSE endPos))
    ELSE FormatHex(PySlice(data, startPos * 2,
                           (IF endPos = -1 THEN Len(data) \div 2 ELSE endPos) * 2))

-----------------------------------------------------------------------------
(* The inputs *)

\* Bytes whose values differ from position to position.
Pattern(n) == [i \in 1..n |-> (i * 37 + 11) % 256]

\* A number with n hex digits, its first digit not 0, given by hex().
BigHex(n) == <<"0", "x">> \o [i \in 1..n |-> IF i = 1 THEN "f" ELSE Digit(i % 16)]

ByteInputs == {Pattern(n) : n \in 0..MaxBytes} \cup {<<b>> : b \in 0..255}
IntInputs == {PyHex(n) : n \in 0..MaxSmall} \cup {BigHex(n) : n \in 1..MaxDigits}

\* `hex --start --end` and the file form: byte strings around one line,
\* cut by positions inside, at and past both ends, and negative.
CutInputs ==
    [bytes : {Pattern(n) : n \in {0, 1, 3, 32, 33}}, start : Positions, end : Positions]

VARIABLES kind, input, out

vars == <<kind, input, out>>

Init ==
    \/ kind = "bytes" /\ input \in ByteInputs /\ out = <<>>
    \/ kind = "int" /\ input \in IntInputs /\ out = <<>>
    \/ kind \in {"file", "hexstr"} /\ input \in CutInputs /\ out = <<>>

\* FormatAndPrintBytes.
PrintBytes ==
    /\ kind = "bytes" /\ out = <<>>
    /\ out' = FormatBytes(input)
    /\ UNCHANGED <<kind, input>>

\* FormatAndPrintInt, given what hex(data) returns.
PrintInt ==
    /\ kind = "int" /\ out = <<>>
    /\ out' = FormatInt(input)
    /\ UNCHANGED <<kind, input>>

\* FormatHexStrOrFile on a file's bytes, or on their hex.
PrintCut ==
    /\ kind \in {"file", "hexstr"} /\ out = <<>>
    /\ out' = IF kind = "file"
              THEN FormatHexStrOrFile(TRUE, input.bytes, input.start, input.end)
              ELSE FormatHexStrOrFile(FALSE, ToHex(input.bytes), input.start, input.end)
    /\ UNCHANGED <<kind, input>>

\* The text is printed; the script goes on to the next value.
Printed == out # <<>> /\ UNCHANGED vars

Next == PrintBytes \/ PrintInt \/ PrintCut \/ Printed

Spec == Init /\ [][Next]_vars

-----------------------------------------------------------------------------
(* The reference: a reader of Solidity hex literals *)

\* The text cut at its newlines.
RECURSIVE SplitLines(_)
SplitLines(s) ==
    LET i == SelectInSeq(s, LAMBDA c : c = NL) IN
    IF i = 0 THEN <<s>>
    ELSE <<SubSeq(s, 1, i - 1)>> \o SplitLines(SubSeq(s, i + 1, Len(s)))

\* The line is hex"...": digits in quotes.
IsLiteral(line) ==
    /\ Len(line) >= 5
    /\ SubSeq(line, 1, 4) = HexOpen /\ line[Len(line)] = Quote
    /\ \A i \in 5..Len(line) - 1 : line[i] \in ToSet(HexChars)

LiteralDigits(line) == SubSeq(line, 5, Len(line) - 1)

\* The digits without leading zeros: the number they spell.
RECURSIVE Canonical(_)
Canonical(d) == IF Len(d) > 1 /\ Head(d) = "0" THEN Canonical(Tail(d)) ELSE d

\* What FormatTestInput prints is a list of Solidity hex literals, one per
\* line, each of an even number of digits (Solidity rejects an odd one) and
\* of at most 32 bytes, and read together they give back the input: the
\* bytes for FormatBytes, the number for FormatInt, for inputs of any
\* length including none, a multiple of 32 bytes and an odd digit count,
\* and for `hex` and a file the bytes from --start to --end as Python
\* slices the byte string, whether the hex or the bytes were cut.
LiteralsDecode ==
    out # <<>> =>
        LET lines == SplitLines(out)
            digits == FlattenSeq([i \in DOMAIN lines |-> LiteralDigits(lines[i])]) IN
        /\ \A i \in DOMAIN lines :
              /\ IsLiteral(lines[i])
              /\ Len(LiteralDigits(lines[i])) % 2 = 0
              /\ Len(LiteralDigits(lines[i])) <= 64
        /\ kind = "bytes" => digits = ToHex(input)
        /\ kind = "int" => Canonical(digits) = SubSeq(input, 3, Len(input))
        /\ kind \in {"file", "hexstr"} =>
              digits = ToHex(PySlice(input.bytes, input.start,
                                     IF input.end = -1 THEN Len(input.bytes) ELSE input.end))

=============================================================================
