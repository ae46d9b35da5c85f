---------------------------- MODULE BinaryMessage ----------------------------
(***************************************************************************)
(* A binary message, from internal.postBinaryMessage of common_api.js,     *)
(* which lays its fields out in an ArrayBuffer, to HandleBinaryMessage of  *)
(* the function handler, which finds them again by the lengths it reads.   *)
(* The two sides share no definition of the layout.                        *)
(*                                                                         *)
(*   name length | name | callback id, object id length | object id |      *)
(*   method length | method | arguments                                    *)
(*                                                                         *)
(* A buffer maps offsets to cells.  The cell of a byte has its value; the  *)
(* four cells of an Int32 have the value of all four, and which it is.     *)
(***************************************************************************)
EXTENDS Integers, Sequences

CONSTANTS Chars,      \* the characters of names and the bytes of arguments
          MaxLength,  \* bound on the length of each string
          MaxCallback \* bound on the callback identifiers

ASSUME CharsAssumption == Chars \subseteq 0 .. 255
ASSUME LengthAssumption == MaxLength \in Nat
ASSUME CallbackAssumption == MaxCallback \in 0 .. 2147483647  \* an Int32

VARIABLES message,      \* what the script asks for
          phase,        \* "script", "sent", "thrown" or "handled"
          array_buffer, \* the ArrayBuffer
          info          \* what the function info is made of

vars == <<message, phase, array_buffer, info>>

Strings == UNION {[1 .. n -> Chars] : n \in 0 .. MaxLength}
Messages == [func : Strings, id : 0 .. MaxCallback, object : Strings,
             method : Strings, args : Strings]

byteLengthOfInt32 == 4
Nothing == <<>>

\* The room a string takes: at least one byte of padding, on both sides.
TightlyAligned(number) == number + ((4 - (number % 4)) % 4)
NotAligned(number) == number + 4
alignedWith4Bytes(number) == number + (4 - (number % 4))
AlignedWith4Bytes(length) == length + (4 - (length % 4))

-----------------------------------------------------------------------------
(* The script writes. *)

Int32Cell(v, k) == [value |-> v, part |-> k]
ByteCell(v) == [value |-> v, part |-> -1]
Word(v) == [k \in 0 .. 3 |-> Int32Cell(v, k)]
Text(s) == [k \in 0 .. (Len(s) - 1) |-> ByteCell(s[k + 1] % 256)]
Put(b, at, cells) ==
    [p \in DOMAIN b |-> IF p - at \in DOMAIN cells THEN cells[p - at] ELSE b[p]]

\* Where the fields start, and where the buffer ends.
FuncAt(m) == byteLengthOfInt32
IdAt(m) == FuncAt(m) + alignedWith4Bytes(Len(m.func))
ObjectAt(m) == IdAt(m) + 2 * byteLengthOfInt32
MethodLengthAt(m) == ObjectAt(m) + alignedWith4Bytes(Len(m.object))
MethodAt(m) == MethodLengthAt(m) + byteLengthOfInt32
ArgsAt(m) == MethodAt(m) + alignedWith4Bytes(Len(m.method))
ByteLen(m) ==
    byteLengthOfInt32 + alignedWith4Bytes(Len(m.func)) + 2 * byteLengthOfInt32
        + alignedWith4Bytes(Len(m.object)) + byteLengthOfInt32
        + alignedWith4Bytes(Len(m.method)) + Len(m.args)

\* A view of the buffer throws when it is not aligned or does not fit.
WordViewFits(m, at, n) == at % 4 = 0 /\ at + 4 * n \leq ByteLen(m)
ViewsFit(m) ==
    /\ WordViewFits(m, 0, 1)
    /\ WordViewFits(m, IdAt(m), 2)
    /\ WordViewFits(m, MethodLengthAt(m), 1)
    /\ FuncAt(m) + Len(m.func) \leq ByteLen(m)
    /\ ObjectAt(m) + Len(m.object) \leq ByteLen(m)
    /\ MethodAt(m) + Len(m.method) \leq ByteLen(m)
    /\ ArgsAt(m) + Len(m.args) \leq ByteLen(m)

Written(m) ==
    LET empty == [p \in 0 .. (ByteLen(m) - 1) |-> ByteCell(0)]
        b1 == Put(empty, 0, Word(Len(m.func)))
        b2 == Put(b1, FuncAt(m), Text(m.func))
        b3 == Put(b2, IdAt(m), Word(m.id))
        b4 == Put(b3, IdAt(m) + 4, Word(Len(m.object)))
        b5 == Put(b4, ObjectAt(m), Text(m.object))
        b6 == Put(b5, MethodLengthAt(m), Word(Len(m.method)))
        b7 == Put(b6, MethodAt(m), Text(m.method))
    IN  Put(b7, ArgsAt(m), Text(m.args))

-----------------------------------------------------------------------------
(* The handler reads. *)

\* An int at an offset; anything but a whole word reads as garbage.
Garbage == -1
ReadWord(b, at) ==
    IF \A k \in 0 .. 3 : at + k \in DOMAIN b /\ b[at + k] = Int32Cell(b[at].value, k)
    THEN b[at].value ELSE Garbage

\* A std::string of a given length; what lies outside the buffer, or inside a
\* word, is garbage.
ReadText(b, at, length) ==
    [i \in 1 .. length |->
        IF at + i - 1 \in DOMAIN b /\ b[at + i - 1].part = -1
        THEN b[at + i - 1].value ELSE Garbage]

\* The offsets of the reader follow from the lengths it has read.
Read(b, size) ==
    LET func_len == ReadWord(b, 0)
        id_at == 4 + AlignedWith4Bytes(func_len)
        object_len == ReadWord(b, id_at + 4)
        object_at == id_at + 8
        method_len_at == object_at + AlignedWith4Bytes(object_len)
        method_len == ReadWord(b, method_len_at)
        method_at == method_len_at + 4
        args_at == method_at + AlignedWith4Bytes(method_len)
    IN  [func   |-> ReadText(b, 4, func_len),
         id     |-> ReadWord(b, id_at),
         object |-> ReadText(b, object_at, object_len),
         method |-> ReadText(b, method_at, method_len),
         args   |-> ReadText(b, args_at, size - args_at)]

-----------------------------------------------------------------------------
Init ==
    /\ message \in Messages
    /\ phase = "script"
    /\ array_buffer = Nothing
    /\ info = Nothing

postBinaryMessage ==
    /\ phase = "script"
    /\ IF ViewsFit(message)
       THEN /\ phase' = "sent"
            /\ array_buffer' = Written(message)
       ELSE /\ phase' = "thrown"
            /\ UNCHANGED array_buffer
    /\ UNCHANGED <<message, info>>

HandleBinaryMessage ==
    /\ phase = "sent"
    /\ phase' = "handled"
    /\ info' = Read(array_buffer, ByteLen(message))
    /\ UNCHANGED <<message, array_buffer>>

Next == postBinaryMessage \/ HandleBinaryMessage

Spec == Init /\ [][Next]_vars

-----------------------------------------------------------------------------
\* Whatever the lengths of the strings, no view of the buffer is misaligned or
\* too long, so posting does not throw (postBinaryMessage).
NeverThrows == phase # "thrown"

\* The handler reads the name, the callback identifier, the object, the method
\* and the arguments the script wrote, although each offset is computed on
\* either side on its own (postBinaryMessage, HandleBinaryMessage).
RoundTrip == phase = "handled" => info = message
=============================================================================
