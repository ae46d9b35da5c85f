-------------------------- MODULE BinaryMessageProofs --------------------------
(***************************************************************************)
(* Proofs about BinaryMessage, for strings of every length: the layout the *)
(* script computes has aligned views that fit, and the handler's offsets   *)
(* are the script's.                                                       *)
(***************************************************************************)
EXTENDS BinaryMessage, SequenceTheorems, TLAPS

\* A string is a sequence of characters that a byte can hold.
LEMMA StringFacts ==
    ASSUME NEW s \in Strings
    PROVE  /\ Len(s) \in Nat
           /\ s = [i \in 1 .. Len(s) |-> s[i]]
           /\ \A i \in 1 .. Len(s) : s[i] \in 0 .. 255 /\ s[i] % 256 = s[i]
  <1>1. PICK n \in 0 .. MaxLength : s \in [1 .. n -> Chars]
    BY DEF Strings
  <1>2. n \in Nat
    BY <1>1, LengthAssumption DEF LengthAssumption
  <1>3. s \in Seq(Chars)
    BY <1>1, <1>2, SeqDef
  <1>4. Len(s) \in Nat /\ s \in [1 .. Len(s) -> Chars]
    BY <1>3, LenProperties
  <1>5. \A i \in 1 .. Len(s) : s[i] \in 0 .. 255
    BY <1>4, CharsAssumption DEF CharsAssumption
  <1>6. \A c \in 0 .. 255 : c % 256 = c
    OBVIOUS
  <1>7. \A i \in 1 .. Len(s) : s[i] % 256 = s[i]
    BY <1>5, <1>6
  <1>8. s = [i \in 1 .. Len(s) |-> s[i]]
    BY <1>4
  <1> QED
    BY <1>4, <1>5, <1>7, <1>8

\* The room for a string is a multiple of four, and both sides agree on it.
LEMMA AlignedFacts ==
    ASSUME NEW n \in Nat
    PROVE  /\ alignedWith4Bytes(n) \in Nat
           /\ alignedWith4Bytes(n) \geq n
           /\ alignedWith4Bytes(n) % 4 = 0
           /\ AlignedWith4Bytes(n) = alignedWith4Bytes(n)
  BY DEF alignedWith4Bytes, AlignedWith4Bytes

\* The fields of a message follow one another, the words at multiples of four.
LEMMA Layout ==
    ASSUME NEW m \in Messages
    PROVE  /\ Len(m.func) \in Nat /\ Len(m.object) \in Nat
           /\ Len(m.method) \in Nat /\ Len(m.args) \in Nat
           /\ FuncAt(m) = 4
           /\ IdAt(m) \in Nat /\ IdAt(m) % 4 = 0
           /\ IdAt(m) \geq FuncAt(m) + Len(m.func)
           /\ ObjectAt(m) = IdAt(m) + 8
           /\ MethodLengthAt(m) \in Nat /\ MethodLengthAt(m) % 4 = 0
           /\ MethodLengthAt(m) \geq ObjectAt(m) + Len(m.object)
           /\ MethodAt(m) = MethodLengthAt(m) + 4
           /\ ArgsAt(m) \in Nat
           /\ ArgsAt(m) \geq MethodAt(m) + Len(m.method)
           /\ ByteLen(m) = ArgsAt(m) + Len(m.args)
  <1> DEFINE f == alignedWith4Bytes(Len(m.func))
             o == alignedWith4Bytes(Len(m.object))
             t == alignedWith4Bytes(Len(m.method))
  <1>1. /\ Len(m.func) \in Nat /\ Len(m.object) \in Nat
        /\ Len(m.method) \in Nat /\ Len(m.args) \in Nat
    BY StringFacts DEF Messages
  <1>2. /\ f \in Nat /\ f \geq Len(m.func) /\ f % 4 = 0
        /\ o \in Nat /\ o \geq Len(m.object) /\ o % 4 = 0
        /\ t \in Nat /\ t \geq Len(m.method)
    BY <1>1, AlignedFacts
  <1>3. /\ FuncAt(m) = 4
        /\ IdAt(m) = 4 + f
        /\ ObjectAt(m) = IdAt(m) + 8
        /\ MethodLengthAt(m) = ObjectAt(m) + o
        /\ MethodAt(m) = MethodLengthAt(m) + 4
        /\ ArgsAt(m) = MethodAt(m) + t
        /\ ByteLen(m) = 4 + f + 2 * 4 + o + 4 + t + Len(m.args)
    BY DEF FuncAt, IdAt, ObjectAt, MethodLengthAt, MethodAt, ArgsAt, ByteLen,
           byteLengthOfInt32
  <1> HIDE DEF f, o, t
  <1>4. (4 + f) % 4 = 0 /\ (4 + f + 8 + o) % 4 = 0
    BY <1>2
  <1> QED
    BY <1>1, <1>2, <1>3, <1>4

\* Posting a message does not throw.
LEMMA Fits ==
    ASSUME NEW m \in Messages
    PROVE  ViewsFit(m)
  <1> DEFINE f == Len(m.func)
             o == Len(m.object)
             t == Len(m.method)
             a == Len(m.args)
  <1>1. /\ f \in Nat /\ o \in Nat /\ t \in Nat /\ a \in Nat
        /\ FuncAt(m) = 4
        /\ IdAt(m) \in Nat /\ IdAt(m) % 4 = 0 /\ IdAt(m) \geq FuncAt(m) + f
        /\ ObjectAt(m) = IdAt(m) + 8
        /\ MethodLengthAt(m) \in Nat /\ MethodLengthAt(m) % 4 = 0
        /\ MethodLengthAt(m) \geq ObjectAt(m) + o
        /\ MethodAt(m) = MethodLengthAt(m) + 4
        /\ ArgsAt(m) \in Nat /\ ArgsAt(m) \geq MethodAt(m) + t
        /\ ByteLen(m) = ArgsAt(m) + a
    BY Layout
  <1> HIDE DEF f, o, t, a
  <1>2. /\ WordViewFits(m, 0, 1)
        /\ WordViewFits(m, IdAt(m), 2)
        /\ WordViewFits(m, MethodLengthAt(m), 1)
    BY <1>1 DEF WordViewFits
  <1>3. /\ FuncAt(m) + f \leq ByteLen(m)
        /\ ObjectAt(m) + o \leq ByteLen(m)
        /\ MethodAt(m) + t \leq ByteLen(m)
        /\ ArgsAt(m) + a \leq ByteLen(m)
    BY <1>1
  <1> QED
    BY <1>2, <1>3 DEF ViewsFit, f, o, t, a

-----------------------------------------------------------------------------
(* What the handler finds at an offset. *)

\* The cells of an int, and those of a string, are in the buffer.
HasWord(b, at, v) ==
    \A p \in at .. (at + 3) : p \in DOMAIN b /\ b[p] = Int32Cell(v, p - at)
HasText(b, at, s) ==
    \A p \in at .. (at + Len(s) - 1) :
        p \in DOMAIN b /\ b[p] = ByteCell(s[p - at + 1] % 256)

\* A buffer has cells 0 .. size - 1.
HasSize(b, size) == DOMAIN b = 0 .. (size - 1)

\* What is in a buffer below an offset is in another one, too.
SameBelow(b, c, at) ==
    \A p \in DOMAIN b : p < at => p \in DOMAIN c /\ c[p] = b[p]

\* Writing an int keeps the size and leaves what is below the offset alone.
LEMMA PutWordBelow ==
    ASSUME NEW b, NEW size \in Nat, HasSize(b, size), NEW at \in Nat, NEW v
    PROVE  /\ HasSize(Put(b, at, Word(v)), size)
           /\ SameBelow(b, Put(b, at, Word(v)), at)
  <1>1. HasSize(Put(b, at, Word(v)), size)
    BY DEF HasSize, Put
  <1>2. ASSUME NEW p \in DOMAIN b, p < at
        PROVE  p \in DOMAIN Put(b, at, Word(v)) /\ Put(b, at, Word(v))[p] = b[p]
    <2>1. p \in Int /\ p - at \notin 0 .. 3
      BY <1>2 DEF HasSize
    <2>2. DOMAIN Word(v) = 0 .. 3
      BY DEF Word
    <2> QED
      BY <1>2, <2>1, <2>2 DEF Put
  <1> QED
    BY <1>1, <1>2 DEF SameBelow

\* Writing a string does, too.
LEMMA PutTextBelow ==
    ASSUME NEW b, NEW size \in Nat, HasSize(b, size), NEW at \in Nat,
           NEW s, Len(s) \in Nat
    PROVE  /\ HasSize(Put(b, at, Text(s)), size)
           /\ SameBelow(b, Put(b, at, Text(s)), at)
  <1>1. HasSize(Put(b, at, Text(s)), size)
    BY DEF HasSize, Put
  <1>2. ASSUME NEW p \in DOMAIN b, p < at
        PROVE  p \in DOMAIN Put(b, at, Text(s)) /\ Put(b, at, Text(s))[p] = b[p]
    <2>1. p \in Int /\ p - at \notin 0 .. (Len(s) - 1)
      BY <1>2 DEF HasSize
    <2>2. DOMAIN Text(s) = 0 .. (Len(s) - 1)
      BY DEF Text
    <2> QED
      BY <1>2, <2>1, <2>2 DEF Put
  <1> QED
    BY <1>1, <1>2 DEF SameBelow

\* What is the same below two offsets in turn is so below the smaller one.
LEMMA BelowTrans ==
    ASSUME NEW a, NEW b, NEW c, NEW size \in Nat, HasSize(a, size),
           NEW at \in Nat, NEW later \in Nat, at \leq later,
           SameBelow(a, b, at), SameBelow(b, c, later)
    PROVE  SameBelow(a, c, at)
  <1> SUFFICES ASSUME NEW p \in DOMAIN a, p < at
               PROVE  p \in DOMAIN c /\ c[p] = a[p]
    BY DEF SameBelow
  <1>1. p \in DOMAIN b /\ b[p] = a[p]
    BY DEF SameBelow
  <1>2. p < later
    BY DEF HasSize
  <1> QED
    BY <1>1, <1>2 DEF SameBelow

LEMMA WordBelow ==
    ASSUME NEW b, NEW c, NEW at \in Nat, NEW later \in Nat, NEW v,
           HasWord(b, at, v), SameBelow(b, c, later), at + 4 \leq later
    PROVE  HasWord(c, at, v)
  <1> SUFFICES ASSUME NEW p \in at .. (at + 3)
               PROVE  p \in DOMAIN c /\ c[p] = Int32Cell(v, p - at)
    BY DEF HasWord
  <1>1. p \in DOMAIN b /\ b[p] = Int32Cell(v, p - at) /\ p < later
    BY DEF HasWord
  <1> QED
    BY <1>1 DEF SameBelow

LEMMA TextBelow ==
    ASSUME NEW b, NEW c, NEW at \in Nat, NEW later \in Nat, NEW s, Len(s) \in Nat,
           HasText(b, at, s), SameBelow(b, c, later), at + Len(s) \leq later
    PROVE  HasText(c, at, s)
  <1> SUFFICES ASSUME NEW p \in at .. (at + Len(s) - 1)
               PROVE  p \in DOMAIN c /\ c[p] = ByteCell(s[p - at + 1] % 256)
    BY DEF HasText
  <1>1. p \in DOMAIN b /\ b[p] = ByteCell(s[p - at + 1] % 256)
    BY DEF HasText
  <1>2. p < later
    OBVIOUS
  <1> QED
    BY <1>1, <1>2 DEF SameBelow

\* An int that fits is in the buffer once it is written.
LEMMA PutWord ==
    ASSUME NEW b, NEW size \in Nat, HasSize(b, size), NEW at \in Nat, at + 4 \leq size, NEW v
    PROVE  HasWord(Put(b, at, Word(v)), at, v)
  <1> SUFFICES ASSUME NEW p \in at .. (at + 3)
               PROVE  /\ p \in DOMAIN Put(b, at, Word(v))
                      /\ Put(b, at, Word(v))[p] = Int32Cell(v, p - at)
    BY DEF HasWord
  <1>1. p \in DOMAIN b /\ p - at \in 0 .. 3
    BY DEF HasSize
  <1>2. p - at \in DOMAIN Word(v) /\ Word(v)[p - at] = Int32Cell(v, p - at)
    BY <1>1 DEF Word
  <1> QED
    BY <1>1, <1>2 DEF Put

\* A string that fits is in the buffer once it is written.
LEMMA PutText ==
    ASSUME NEW b, NEW size \in Nat, HasSize(b, size), NEW at \in Nat,
           NEW s, Len(s) \in Nat, at + Len(s) \leq size
    PROVE  HasText(Put(b, at, Text(s)), at, s)
  <1> SUFFICES ASSUME NEW p \in at .. (at + Len(s) - 1)
               PROVE  /\ p \in DOMAIN Put(b, at, Text(s))
                      /\ Put(b, at, Text(s))[p] = ByteCell(s[p - at + 1] % 256)
    BY DEF HasText
  <1>1. p \in DOMAIN b /\ p - at \in 0 .. (Len(s) - 1)
    BY DEF HasSize
  <1>2. p - at \in DOMAIN Text(s) /\ Text(s)[p - at] = ByteCell(s[p - at + 1] % 256)
    BY <1>1 DEF Text
  <1> QED
    BY <1>1, <1>2 DEF Put

\* An int that was written is read.
LEMMA WordRead ==
    ASSUME NEW b, NEW at \in Nat, NEW v, HasWord(b, at, v)
    PROVE  ReadWord(b, at) = v
  <1>1. b[at].value = v
    <2>1. at \in at .. (at + 3)
      OBVIOUS
    <2>2. b[at] = Int32Cell(v, at - at)
      BY <2>1 DEF HasWord
    <2> QED
      BY <2>2 DEF Int32Cell
  <1>2. \A k \in 0 .. 3 : at + k \in DOMAIN b /\ b[at + k] = Int32Cell(v, k)
    <2> SUFFICES ASSUME NEW k \in 0 .. 3
                 PROVE  at + k \in DOMAIN b /\ b[at + k] = Int32Cell(v, k)
      OBVIOUS
    <2>1. at + k \in at .. (at + 3) /\ (at + k) - at = k
      OBVIOUS
    <2> QED
      BY <2>1 DEF HasWord
  <1> QED
    BY <1>1, <1>2 DEF ReadWord

\* A string that was written is read.
LEMMA TextRead ==
    ASSUME NEW b, NEW at \in Nat, NEW s \in Strings, HasText(b, at, s)
    PROVE  ReadText(b, at, Len(s)) = s
  <1>1. /\ Len(s) \in Nat
        /\ s = [i \in 1 .. Len(s) |-> s[i]]
        /\ \A i \in 1 .. Len(s) : s[i] % 256 = s[i]
    BY StringFacts
  <1>2. \A i \in 1 .. Len(s) :
          /\ at + i - 1 \in DOMAIN b
          /\ b[at + i - 1].part = -1
          /\ b[at + i - 1].value = s[i]
    <2> SUFFICES ASSUME NEW i \in 1 .. Len(s)
                 PROVE  /\ at + i - 1 \in DOMAIN b
                        /\ b[at + i - 1].part = -1
                        /\ b[at + i - 1].value = s[i]
      OBVIOUS
    <2> DEFINE p == at + i - 1
    <2>1. p \in at .. (at + Len(s) - 1) /\ p - at + 1 = i
      BY <1>1
    <2> HIDE DEF p
    <2>2. p \in DOMAIN b /\ b[p] = ByteCell(s[i] % 256)
      BY <2>1 DEF HasText
    <2>3. b[p].part = -1 /\ b[p].value = s[i]
      BY <1>1, <2>2 DEF ByteCell
    <2> QED
      BY <2>2, <2>3 DEF p
  <1>3. ReadText(b, at, Len(s)) = [i \in 1 .. Len(s) |-> s[i]]
    BY <1>2 DEF ReadText
  <1> QED
    BY <1>1, <1>3

\* Each field of a message is where the layout puts it: it is there once it is
\* written, and every later write starts behind it.
LEMMA Cells ==
    ASSUME NEW m \in Messages
    PROVE  LET b == Written(m)
           IN  /\ HasWord(b, 0, Len(m.func))
               /\ HasText(b, FuncAt(m), m.func)
               /\ HasWord(b, IdAt(m), m.id)
               /\ HasWord(b, IdAt(m) + 4, Len(m.object))
               /\ HasText(b, ObjectAt(m), m.object)
               /\ HasWord(b, MethodLengthAt(m), Len(m.method))
               /\ HasText(b, MethodAt(m), m.method)
               /\ HasText(b, ArgsAt(m), m.args)
  <1> DEFINE size == ByteLen(m)
             F == m.func
             O == m.object
             T == m.method
             A == m.args
             c == m.id
             at1 == FuncAt(m)
             at2 == IdAt(m)
             at3 == IdAt(m) + 4
             at4 == ObjectAt(m)
             at5 == MethodLengthAt(m)
             at6 == MethodAt(m)
             at7 == ArgsAt(m)
             b0 == [p \in 0 .. (size - 1) |-> ByteCell(0)]
             b1 == Put(b0, 0, Word(Len(F)))
             b2 == Put(b1, at1, Text(F))
             b3 == Put(b2, at2, Word(c))
             b4 == Put(b3, at3, Word(Len(O)))
             b5 == Put(b4, at4, Text(O))
             b6 == Put(b5, at5, Word(Len(T)))
             b7 == Put(b6, at6, Text(T))
             b8 == Put(b7, at7, Text(A))
  <1>1. Written(m) = b8
    BY DEF Written
  <1>2. /\ Len(F) \in Nat /\ Len(O) \in Nat /\ Len(T) \in Nat /\ Len(A) \in Nat
        /\ at1 = 4
        /\ at2 \in Nat /\ at2 \geq 4 + Len(F)
        /\ at3 = at2 + 4
        /\ at4 = at2 + 8
        /\ at5 \in Nat /\ at5 \geq at4 + Len(O)
        /\ at6 = at5 + 4
        /\ at7 \in Nat /\ at7 \geq at6 + Len(T)
        /\ size = at7 + Len(A)
    BY Layout
  <1>3. HasSize(b0, size)
    BY DEF HasSize
  <1> HIDE DEF size, F, O, T, A, c, at1, at2, at3, at4, at5, at6, at7,
               b0, b1, b2, b3, b4, b5, b6, b7, b8
  <1>4. /\ size \in Nat /\ 0 \in Nat /\ at1 \in Nat /\ at2 \in Nat /\ at3 \in Nat
        /\ at4 \in Nat /\ at5 \in Nat /\ at6 \in Nat /\ at7 \in Nat
        /\ Len(F) \in Nat /\ Len(O) \in Nat /\ Len(T) \in Nat /\ Len(A) \in Nat
    BY <1>2
  <1>5. /\ 0 + 4 \leq at1 /\ at1 + Len(F) \leq at2 /\ at2 + 4 \leq at3
        /\ at3 + 4 \leq at4 /\ at4 + Len(O) \leq at5 /\ at5 + 4 \leq at6
        /\ at6 + Len(T) \leq at7 /\ at7 + Len(A) \leq size
    BY <1>2
  <1>6. /\ at1 \leq at2 /\ at2 \leq at3 /\ at3 \leq at4 /\ at4 \leq at5
        /\ at5 \leq at6 /\ at6 \leq at7
    BY <1>2
  <1>7. /\ 0 + 4 \leq size /\ at1 + Len(F) \leq size /\ at2 + 4 \leq size
        /\ at3 + 4 \leq size /\ at4 + Len(O) \leq size /\ at5 + 4 \leq size
        /\ at6 + Len(T) \leq size
    BY <1>2
  <1>8. HasSize(b1, size) /\ SameBelow(b0, b1, 0)
    BY <1>4, <1>3, PutWordBelow DEF b1
  <1>9. HasSize(b2, size) /\ SameBelow(b1, b2, at1)
    BY <1>4, <1>8, PutTextBelow DEF b2
  <1>10. HasSize(b3, size) /\ SameBelow(b2, b3, at2)
    BY <1>4, <1>9, PutWordBelow DEF b3
  <1>11. HasSize(b4, size) /\ SameBelow(b3, b4, at3)
    BY <1>4, <1>10, PutWordBelow DEF b4
  <1>12. HasSize(b5, size) /\ SameBelow(b4, b5, at4)
    BY <1>4, <1>11, PutTextBelow DEF b5
  <1>13. HasSize(b6, size) /\ SameBelow(b5, b6, at5)
    BY <1>4, <1>12, PutWordBelow DEF b6
  <1>14. HasSize(b7, size) /\ SameBelow(b6, b7, at6)
    BY <1>4, <1>13, PutTextBelow DEF b7
  <1>15. HasSize(b8, size) /\ SameBelow(b7, b8, at7)
    BY <1>4, <1>14, PutTextBelow DEF b8
  <1>16. SameBelow(b6, b8, at6)
    BY <1>4, <1>6, <1>13, <1>14, <1>15, BelowTrans
  <1>17. SameBelow(b5, b8, at5)
    BY <1>4, <1>6, <1>12, <1>13, <1>16, BelowTrans
  <1>18. SameBelow(b4, b8, at4)
    BY <1>4, <1>6, <1>11, <1>12, <1>17, BelowTrans
  <1>19. SameBelow(b3, b8, at3)
    BY <1>4, <1>6, <1>10, <1>11, <1>18, BelowTrans
  <1>20. SameBelow(b2, b8, at2)
    BY <1>4, <1>6, <1>9, <1>10, <1>19, BelowTrans
  <1>21. SameBelow(b1, b8, at1)
    BY <1>4, <1>6, <1>8, <1>9, <1>20, BelowTrans
  <1>22. HasWord(b8, 0, Len(F))
    <2>1. HasWord(b1, 0, Len(F))
      BY <1>4, <1>7, <1>3, PutWord DEF b1
    <2> QED
      BY <1>4, <1>5, <1>21, <2>1, WordBelow
  <1>23. HasText(b8, at1, F)
    <2>1. HasText(b2, at1, F)
      BY <1>4, <1>7, <1>8, PutText DEF b2
    <2> QED
      BY <1>4, <1>5, <1>20, <2>1, TextBelow
  <1>24. HasWord(b8, at2, c)
    <2>1. HasWord(b3, at2, c)
      BY <1>4, <1>7, <1>9, PutWord DEF b3
    <2> QED
      BY <1>4, <1>5, <1>19, <2>1, WordBelow
  <1>25. HasWord(b8, at3, Len(O))
    <2>1. HasWord(b4, at3, Len(O))
      BY <1>4, <1>7, <1>10, PutWord DEF b4
    <2> QED
      BY <1>4, <1>5, <1>18, <2>1, WordBelow
  <1>26. HasText(b8, at4, O)
    <2>1. HasText(b5, at4, O)
      BY <1>4, <1>7, <1>11, PutText DEF b5
    <2> QED
      BY <1>4, <1>5, <1>17, <2>1, TextBelow
  <1>27. HasWord(b8, at5, Len(T))
    <2>1. HasWord(b6, at5, Len(T))
      BY <1>4, <1>7, <1>12, PutWord DEF b6
    <2> QED
      BY <1>4, <1>5, <1>16, <2>1, WordBelow
  <1>28. HasText(b8, at6, T)
    <2>1. HasText(b7, at6, T)
      BY <1>4, <1>7, <1>13, PutText DEF b7
    <2> QED
      BY <1>4, <1>5, <1>15, <2>1, TextBelow
  <1>29. HasText(b8, at7, A)
    BY <1>4, <1>5, <1>14, PutText DEF b8
  <1> QED
    BY <1>1, <1>22, <1>23, <1>24, <1>25, <1>26, <1>27, <1>28, <1>29
       DEF F, O, T, A, c, at1, at2, at3, at4, at5, at6, at7

\* The handler reads back the message the script wrote.
LEMMA ReadWritten ==
    ASSUME NEW m \in Messages
    PROVE  Read(Written(m), ByteLen(m)) = m
  <1> DEFINE b == Written(m)
             F == m.func
             O == m.object
             T == m.method
             A == m.args
             c == m.id
  <1>1. /\ F \in Strings /\ O \in Strings /\ T \in Strings /\ A \in Strings
        /\ m = [func |-> F, id |-> c, object |-> O, method |-> T, args |-> A]
    BY DEF Messages
  <1>2. /\ Len(F) \in Nat /\ Len(O) \in Nat /\ Len(T) \in Nat /\ Len(A) \in Nat
        /\ FuncAt(m) = 4
        /\ IdAt(m) \in Nat /\ IdAt(m) + 4 \in Nat
        /\ ObjectAt(m) = IdAt(m) + 8 /\ ObjectAt(m) \in Nat
        /\ MethodLengthAt(m) \in Nat
        /\ MethodAt(m) = MethodLengthAt(m) + 4 /\ MethodAt(m) \in Nat
        /\ ArgsAt(m) \in Nat
        /\ ByteLen(m) = ArgsAt(m) + Len(A)
        /\ 0 \in Nat /\ FuncAt(m) \in Nat
    <2>1. /\ Len(F) \in Nat /\ Len(O) \in Nat /\ Len(T) \in Nat /\ Len(A) \in Nat
          /\ FuncAt(m) = 4 /\ IdAt(m) \in Nat
          /\ ObjectAt(m) = IdAt(m) + 8 /\ MethodLengthAt(m) \in Nat
          /\ MethodAt(m) = MethodLengthAt(m) + 4 /\ ArgsAt(m) \in Nat
          /\ ByteLen(m) = ArgsAt(m) + Len(A)
      BY Layout
    <2> HIDE DEF F, O, T, A
    <2> QED
      BY <2>1
  <1>3. /\ IdAt(m) = FuncAt(m) + alignedWith4Bytes(Len(F))
        /\ MethodLengthAt(m) = ObjectAt(m) + alignedWith4Bytes(Len(O))
        /\ ArgsAt(m) = MethodAt(m) + alignedWith4Bytes(Len(T))
    BY DEF IdAt, MethodLengthAt, ArgsAt
  <1>4. /\ HasWord(b, 0, Len(F)) /\ HasText(b, FuncAt(m), F)
        /\ HasWord(b, IdAt(m), c) /\ HasWord(b, IdAt(m) + 4, Len(O))
        /\ HasText(b, ObjectAt(m), O) /\ HasWord(b, MethodLengthAt(m), Len(T))
        /\ HasText(b, MethodAt(m), T) /\ HasText(b, ArgsAt(m), A)
    BY Cells
  <1> HIDE DEF b, F, O, T, A, c
  <1>5. /\ ReadWord(b, 0) = Len(F)
        /\ ReadWord(b, IdAt(m)) = c
        /\ ReadWord(b, IdAt(m) + 4) = Len(O)
        /\ ReadWord(b, MethodLengthAt(m)) = Len(T)
    BY <1>2, <1>4, WordRead
  <1>6. /\ ReadText(b, FuncAt(m), Len(F)) = F
        /\ ReadText(b, ObjectAt(m), Len(O)) = O
        /\ ReadText(b, MethodAt(m), Len(T)) = T
        /\ ReadText(b, ArgsAt(m), Len(A)) = A
    BY <1>1, <1>2, <1>4, TextRead
  <1>7. /\ 4 + AlignedWith4Bytes(Len(F)) = IdAt(m)
        /\ ObjectAt(m) + AlignedWith4Bytes(Len(O)) = MethodLengthAt(m)
        /\ MethodAt(m) + AlignedWith4Bytes(Len(T)) = ArgsAt(m)
    BY <1>2, <1>3, AlignedFacts
  <1>8. /\ IdAt(m) + 8 = ObjectAt(m)
        /\ MethodLengthAt(m) + 4 = MethodAt(m)
        /\ ByteLen(m) - ArgsAt(m) = Len(A)
    BY <1>2
  <1>9. Read(b, ByteLen(m)) =
           [func |-> F, id |-> c, object |-> O, method |-> T, args |-> A]
    BY <1>2, <1>5, <1>6, <1>7, <1>8 DEF Read
  <1> QED
    BY <1>1, <1>9 DEF b

-----------------------------------------------------------------------------
\* What the handler is about to read is what the script wrote.
LayoutInv ==
    /\ message \in Messages
    /\ phase \in {"script", "sent", "handled"}
    /\ phase = "sent" => array_buffer = Written(message)
    /\ RoundTrip

\* The invariant is inductive.
LEMMA LayoutInvariant == Spec => []LayoutInv
  <1>1. Init => LayoutInv
    BY DEF Init, LayoutInv, RoundTrip
  <1>2. LayoutInv /\ [Next]_vars => LayoutInv'
    <2> SUFFICES ASSUME LayoutInv, [Next]_vars
                 PROVE  LayoutInv'
      OBVIOUS
    <2>1. CASE postBinaryMessage
      BY <2>1, Fits DEF postBinaryMessage, LayoutInv, RoundTrip
    <2>2. CASE HandleBinaryMessage
      BY <2>2, ReadWritten DEF HandleBinaryMessage, LayoutInv, RoundTrip
    <2>3. CASE UNCHANGED vars
      BY <2>3 DEF vars, LayoutInv, RoundTrip
    <2> QED
      BY <2>1, <2>2, <2>3 DEF Next
  <1> QED
    BY <1>1, <1>2, PTL DEF Spec

\* The handler reads exactly what the script wrote, for every length of the
\* names and of the arguments (postBinaryMessage, HandleBinaryMessage).
THEOREM RoundTripHolds == Spec => []RoundTrip
  BY LayoutInvariant, PTL DEF LayoutInv

\* No view of the ArrayBuffer is misaligned or too long, for every length of
\* the names and of the arguments (alignedWith4Bytes, postBinaryMessage).
THEOREM NeverThrowsHolds == Spec => []NeverThrows
  <1>1. LayoutInv => NeverThrows
    BY DEF LayoutInv, NeverThrows
  <1> QED
    BY <1>1, LayoutInvariant, PTL
=============================================================================
