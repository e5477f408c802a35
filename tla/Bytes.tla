------------------------------- MODULE Bytes -------------------------------
(***************************************************************************)
(* Byte strings as the codecs of the repository see them: sequences of     *)
(* 0..255 read at offsets that count from zero, written most significant   *)
(* byte first.  Numbers stay below 2^31, the largest that TLC computes     *)
(* with.  A parser that returns an error returns Fail; everything it       *)
(* accepts is a record without the field "fail".  A writer that returns an *)
(* error returns Refused, which is no byte string.                         *)
(***************************************************************************)
EXTENDS Naturals, Sequences, SequencesExt

Fail == [fail |-> TRUE]
Refused == <<256>>

U16(n) == <<n \div 256, n % 256>>
U24(n) == <<(n \div 65536) % 256>> \o U16(n % 65536)
U32(n) == U16(n \div 65536) \o U16(n % 65536)
U64(n) == U32(0) \o U32(n)
LE16(n) == <<n % 256, n \div 256>>
LE32(n) == LE16(n % 65536) \o LE16(n \div 65536)

Get16(b, off) == b[off + 1] * 256 + b[off + 2]
Get24(b, off) == b[off + 1] * 65536 + Get16(b, off + 1)
Get32(b, off) == Get16(b, off) * 65536 + Get16(b, off + 2)
GetLE16(b, off) == b[off + 2] * 256 + b[off + 1]
GetLE32(b, off) == GetLE16(b, off + 2) * 65536 + GetLE16(b, off)

\* The bytes from offset first up to, not including, offset end.
Slice(b, first, end) == SubSeq(b, first + 1, end)

From(b, first) == SubSeq(b, first + 1, Len(b))

Zeros(n) == [i \in 1 .. n |-> 0]

\* Bytes to add to a length to reach a multiple of four.
PadTo4(n) == (4 - (n % 4)) % 4

\* Every element of a sequence written by Op, one after the other.
Each(Op(_), s) == FlattenSeq([i \in 1 .. Len(s) |-> Op(s[i])])

\* A list of n-byte items read by Op from consecutive offsets.
Items(Op(_), b, n) == [i \in 1 .. Len(b) \div n |-> Op(Slice(b, (i - 1) * n, i * n))]

\* The sum of a sequence of numbers.
Total(s) ==
    LET sum[i \in 0 .. Len(s)] == IF i = 0 THEN 0 ELSE sum[i - 1] + s[i]
    IN sum[Len(s)]

\* One bit of a byte or a number, and a flag as a bit.
Bit(n, i) == (n \div 2^i) % 2 = 1
Flag(cond, i) == IF cond THEN 2^i ELSE 0

\* A number of one to four bytes, and a byte string preceded by its length.
UN(w, n) == CASE w = 1 -> <<n>> [] w = 2 -> U16(n) [] w = 3 -> U24(n) [] OTHER -> U32(n)

GetN(w, b, off) ==
    CASE w = 1 -> b[off + 1] [] w = 2 -> Get16(b, off) [] w = 3 -> Get24(b, off)
      [] OTHER -> Get32(b, off)

Counted(w, bytes) == UN(w, Len(bytes)) \o bytes

\* The counted string at an offset, and the offset after it.
CountedAt(w, b, off) ==
    IF Len(b) < off + w THEN Fail
    ELSE LET end == off + w + GetN(w, b, off)
         IN IF Len(b) < end THEN Fail ELSE [body |-> Slice(b, off + w, end), end |-> end]

\* Fixed-width fields one after the other.  A layout is a sequence of
\* <<name, width>>; a field of eight bytes is opaque.
Put(layout, m) ==
    LET Field(f) == CASE f[2] = 1 -> <<m[f[1]]>>
                      [] f[2] = 2 -> U16(m[f[1]])
                      [] f[2] = 3 -> U24(m[f[1]])
                      [] f[2] = 4 -> U32(m[f[1]])
                      [] OTHER -> m[f[1]]
    IN Each(Field, layout)

Take(layout, b) ==
    LET off[i \in 1 .. Len(layout)] == IF i = 1 THEN 0 ELSE off[i - 1] + layout[i - 1][2]
        At(i) == CASE layout[i][2] = 1 -> b[off[i] + 1]
                   [] layout[i][2] = 2 -> Get16(b, off[i])
                   [] layout[i][2] = 3 -> Get24(b, off[i])
                   [] layout[i][2] = 4 -> Get32(b, off[i])
                   [] OTHER -> Slice(b, off[i], off[i] + layout[i][2])
    IN [name \in {layout[i][1] : i \in 1 .. Len(layout)} |->
            At(CHOOSE i \in 1 .. Len(layout) : layout[i][1] = name)]

\* Op applied to r and to each of s[first .. last] in turn; the range is halved
\* to keep the evaluation shallow.
RECURSIVE FoldRange(_, _, _, _, _)
FoldRange(Op(_, _), r, s, first, last) ==
    LET mid == (first + last) \div 2
    IN IF first > last THEN r
       ELSE IF first = last THEN Op(r, s[first])
       ELSE CHOOSE v \in {FoldRange(Op, left, s, mid + 1, last) :
                              left \in {FoldRange(Op, r, s, first, mid)}} : TRUE


-----------------------------------------------------------------------------
(* External.  The hashes and stream ciphers the protocols take from crypto *)
(* libraries, stood in for by a checksum that depends on every byte and on *)
(* its place, stretched to as many bytes as the library's function gives.  *)

RECURSIVE MixSpan(_, _, _)
MixSpan(b, first, last) ==
    LET mid == (first + last) \div 2
    IN IF first = last THEN ((b[first] + 1) * (first * first + 17 * first + 3)) % 65521
       ELSE (MixSpan(b, first, mid) + MixSpan(b, mid + 1, last)) % 65521

Mix(b) == IF b = << >> THEN 7 ELSE MixSpan(b, 1, Len(b))

Stream(seed, n) == [i \in 1 .. n |-> (seed * (2 * i + 1) + i * i) % 256]
=============================================================================
