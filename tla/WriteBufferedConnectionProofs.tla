--------------------- MODULE WriteBufferedConnectionProofs ---------------------
(***************************************************************************)
(* Proofs about WriteBufferedConnection, for every size of the buffer and  *)
(* of the writes.                                                          *)
(***************************************************************************)
EXTENDS WriteBufferedConnection, SequenceTheorems, TLAPS

\* What the bytes of the caller are as a sequence.
LEMMA BytesSeq ==
  ASSUME NEW w \in Nat, NEW n \in Nat
  PROVE  /\ Bytes(w, n) \in Seq(Nat)
         /\ Len(Bytes(w, n)) = n
         /\ \A i \in 1 .. n : Bytes(w, n)[i] = w + i
  BY DEF Bytes

\* Copying n bytes to the end of a buffer.
LEMMA CopySeq ==
  ASSUME NEW b \in Seq(Nat), NEW w \in Nat, NEW n \in Nat
  PROVE  /\ b \o Bytes(w, n) \in Seq(Nat)
         /\ Len(b \o Bytes(w, n)) = Len(b) + n
         /\ \A j \in 1 .. Len(b) + n :
              (b \o Bytes(w, n))[j]
                = IF j <= Len(b) THEN b[j] ELSE w + (j - Len(b))
<1> DEFINE d == Bytes(w, n)
<1>1. d \in Seq(Nat) /\ Len(d) = n /\ \A i \in 1 .. n : d[i] = w + i
  BY BytesSeq
<1> HIDE DEF d
<1>2. /\ b \o d \in Seq(Nat)
      /\ Len(b \o d) = Len(b) + Len(d)
      /\ \A i \in 1 .. Len(b) + Len(d) : (b \o d)[i] =
           IF i <= Len(b) THEN b[i] ELSE d[i - Len(b)]
  BY <1>1, ConcatProperties
<1>3. Len(b) \in Nat
  BY LenProperties
<1>4. \A i \in 1 .. Len(b) + n :
        (b \o d)[i] = IF i <= Len(b) THEN b[i] ELSE w + (i - Len(b))
  BY <1>1, <1>2, <1>3
<1> QED BY <1>1, <1>2, <1>4 DEF d

\* Giving the client n bytes of a buffer that follow its first f ones.
LEMMA TakeSeq ==
  ASSUME NEW d \in Seq(Nat), NEW b \in Seq(Nat), NEW f \in Nat, NEW n \in Nat,
         n > 0, f + n <= Len(b)
  PROVE  /\ d \o Part(b, f, n) \in Seq(Nat)
         /\ Len(d \o Part(b, f, n)) = Len(d) + n
         /\ \A i \in 1 .. Len(d) + n :
              (d \o Part(b, f, n))[i]
                = IF i <= Len(d) THEN d[i] ELSE b[f + (i - Len(d))]
<1> DEFINE e == Part(b, f, n)
<1>0. Len(b) \in Nat /\ Len(d) \in Nat
  BY LenProperties
<1>1. \A i \in f + 1 .. f + n : b[i] \in Nat
  BY <1>0, ElementOfSeq
<1>2. /\ e \in Seq(Nat)
      /\ Len(e) = IF f + 1 <= f + n THEN f + n - (f + 1) + 1 ELSE 0
      /\ \A i \in 1 .. f + n - (f + 1) + 1 : e[i] = b[f + 1 + i - 1]
  <2>1. f + 1 \in Int /\ f + n \in Int
    OBVIOUS
  <2> QED BY <1>1, <2>1, SubSeqProperties DEF Part
<1> HIDE DEF e
<1>3. Len(e) = n /\ \A i \in 1 .. n : e[i] = b[f + i]
  BY <1>2
<1>4. /\ d \o e \in Seq(Nat)
      /\ Len(d \o e) = Len(d) + Len(e)
      /\ \A i \in 1 .. Len(d) + Len(e) : (d \o e)[i] =
           IF i <= Len(d) THEN d[i] ELSE e[i - Len(d)]
  BY <1>2, ConcatProperties
<1>5. ASSUME NEW i \in 1 .. Len(d) + n
      PROVE  (d \o e)[i] = IF i <= Len(d) THEN d[i] ELSE b[f + (i - Len(d))]
  <2>1. CASE i <= Len(d)
    BY <1>0, <1>3, <1>4, <2>1
  <2>2. CASE ~(i <= Len(d))
    <3>1. i - Len(d) \in 1 .. n
      BY <1>0, <2>2
    <3>2. e[i - Len(d)] = b[f + (i - Len(d))]
      BY <1>3, <3>1
    <3>3. (d \o e)[i] = e[i - Len(d)]
      BY <1>0, <1>3, <1>4, <2>2
    <3> QED BY <2>2, <3>2, <3>3
  <2> QED BY <2>1, <2>2
<1> QED BY <1>3, <1>4, <1>5 DEF e

-----------------------------------------------------------------------------
(* The inductive invariant.                                                *)

Inv == TypeOK /\ BufferAssertions /\ StreamInv

\* The types of what the arithmetic is about.
LEMMA InvTypes ==
  ASSUME Inv
  PROVE  /\ Size \in Nat /\ Len(delivered) \in Nat
         /\ written \in Nat /\ flushed \in Nat /\ remaining \in Nat
         /\ writeBuffer \in Seq(Nat) /\ delivered \in Seq(Nat)
<1>1. writeBuffer \in Seq(Nat) /\ delivered \in Seq(Nat)
  BY DEF Inv, TypeOK
<1>2. Len(writeBuffer) \in Nat /\ Len(delivered) \in Nat
  BY <1>1, LenProperties
<1> QED BY <1>1, <1>2 DEF Inv, TypeOK, Size

\* Copying the next bytes keeps a buffer the last bytes that entered it.
LEMMA CopyRun ==
  ASSUME NEW b \in Seq(Nat), NEW w \in Nat, NEW n \in Nat,
         \A i \in 1 .. Len(b) : b[i] = w - Len(b) + i
  PROVE  \A i \in 1 .. Len(b) + n :
           (b \o Bytes(w, n))[i] = (w + n) - (Len(b) + n) + i
<1>0. Len(b) \in Nat
  BY LenProperties
<1> DEFINE c == b \o Bytes(w, n)
<1>1. \A i \in 1 .. Len(b) + n :
        c[i] = IF i <= Len(b) THEN b[i] ELSE w + (i - Len(b))
  BY CopySeq
<1> HIDE DEF c
<1>2. ASSUME NEW i \in 1 .. Len(b) + n
      PROVE  c[i] = (w + n) - (Len(b) + n) + i
  <2>1. CASE i <= Len(b)
    <3>1. i \in 1 .. Len(b)
      BY <1>0, <2>1
    <3>2. c[i] = b[i]
      BY <1>1, <2>1
    <3>3. b[i] = w - Len(b) + i
      BY <3>1
    <3> QED BY <1>0, <3>2, <3>3
  <2>2. CASE ~(i <= Len(b))
    <3>1. c[i] = w + (i - Len(b))
      BY <1>1, <2>2
    <3> QED BY <1>0, <3>1
  <2> QED BY <2>1, <2>2
<1> QED BY <1>2 DEF c

\* Copying bytes of the caller into the buffer.
LEMMA CopyKeeps ==
  ASSUME Inv, NEW n \in Nat, Copy(n)
  PROVE  /\ writeBuffer' \in Seq(Nat) /\ written' \in Nat
         /\ Size' = Size + n
         /\ written' = written + n
         /\ \A i \in 1 .. Size' : writeBuffer'[i] = written' - Size' + i
<1>0. Len(writeBuffer) \in Nat /\ written \in Nat /\ writeBuffer \in Seq(Nat)
  BY InvTypes DEF Size
<1>1. writeBuffer' = writeBuffer \o Bytes(written, n) /\ written' = written + n
  BY DEF Copy
<1>2. /\ writeBuffer \o Bytes(written, n) \in Seq(Nat)
      /\ Len(writeBuffer \o Bytes(written, n)) = Len(writeBuffer) + n
  BY <1>0, CopySeq
<1>3. \A i \in 1 .. Len(writeBuffer) :
        writeBuffer[i] = written - Len(writeBuffer) + i
  BY DEF Inv, StreamInv, Size
<1>4. \A i \in 1 .. Len(writeBuffer) + n :
        (writeBuffer \o Bytes(written, n))[i]
          = (written + n) - (Len(writeBuffer) + n) + i
  BY <1>0, <1>3, CopyRun
<1> QED BY <1>0, <1>1, <1>2, <1>4 DEF Size

\* A buffer b holds the last of w bytes, d the first ones, up to those of the
\* buffer that follow its first f ones; n of these are to be given.
Meet(d, b, f, n, w) ==
  /\ d \in Seq(Nat) /\ b \in Seq(Nat)
  /\ f \in Nat /\ n \in Nat /\ w \in Nat
  /\ n > 0 /\ f + n <= Len(b) /\ Len(b) <= w
  /\ Len(d) = w - Len(b) + f
  /\ \A i \in 1 .. Len(b) : b[i] = w - Len(b) + i
  /\ \A i \in 1 .. Len(d) : d[i] = i

\* Then d goes on in order.
LEMMA TakeRun ==
  ASSUME NEW d, NEW b, NEW f, NEW n, NEW w, Meet(d, b, f, n, w)
  PROVE  d \o Part(b, f, n) = Bytes(0, Len(d) + n)
<1>a. /\ d \in Seq(Nat) /\ b \in Seq(Nat)
      /\ f \in Nat /\ n \in Nat /\ w \in Nat
      /\ n > 0 /\ f + n <= Len(b) /\ Len(b) <= w
      /\ Len(d) = w - Len(b) + f
  BY DEF Meet
<1>b. \A i \in 1 .. Len(b) : b[i] = w - Len(b) + i
  BY DEF Meet
<1>d. \A i \in 1 .. Len(d) : d[i] = i
  BY DEF Meet
<1>0. Len(b) \in Nat /\ Len(d) \in Nat
  BY <1>a, LenProperties
<1> DEFINE c == d \o Part(b, f, n)
<1>1. /\ c \in Seq(Nat)
      /\ Len(c) = Len(d) + n
      /\ \A i \in 1 .. Len(d) + n :
           c[i] = IF i <= Len(d) THEN d[i] ELSE b[f + (i - Len(d))]
  BY <1>a, TakeSeq
<1> HIDE DEF c
<1>2. ASSUME NEW i \in 1 .. Len(d) + n PROVE c[i] = i
  <2>1. CASE i <= Len(d)
    <3>1. i \in 1 .. Len(d)
      BY <1>0, <2>1
    <3>2. c[i] = d[i]
      BY <1>1, <2>1
    <3> QED BY <1>d, <3>1, <3>2
  <2>2. CASE ~(i <= Len(d))
    <3>1. f + (i - Len(d)) \in 1 .. Len(b)
      BY <1>a, <1>0, <2>2
    <3>2. b[f + (i - Len(d))] = w - Len(b) + (f + (i - Len(d)))
      BY <1>b, <3>1
    <3>3. c[i] = b[f + (i - Len(d))]
      BY <1>1, <2>2
    <3> QED BY <1>a, <1>0, <3>2, <3>3
  <2> QED BY <2>1, <2>2
<1>3. c = [i \in 1 .. Len(d) + n |-> c[i]]
  BY <1>a, <1>1, <1>0
<1>4. c = [i \in 1 .. Len(d) + n |-> 0 + i]
  BY <1>0, <1>2, <1>3
<1> QED BY <1>4 DEF c, Bytes

\* One call of client_.write.
LEMMA ClientKeeps ==
  ASSUME Inv, NEW n \in 1 .. Size - flushed, ClientTakes(n)
  PROVE  delivered' = Bytes(0, Len(delivered) + n)
<1>0. /\ Size \in Nat /\ Len(delivered) \in Nat /\ written \in Nat
      /\ flushed \in Nat /\ writeBuffer \in Seq(Nat) /\ delivered \in Seq(Nat)
      /\ n \in Nat /\ n > 0 /\ flushed + n <= Size
  BY InvTypes
<1>1. delivered' = delivered \o Part(writeBuffer, flushed, n)
  BY DEF ClientTakes
<1>2. /\ \A i \in 1 .. Len(writeBuffer) :
           writeBuffer[i] = written - Len(writeBuffer) + i
      /\ \A i \in 1 .. Len(delivered) : delivered[i] = i
      /\ Len(delivered) = written - Len(writeBuffer) + flushed
      /\ Len(writeBuffer) <= written
  BY DEF Inv, StreamInv, ClientTakes, Size
<1>3. n > 0 /\ flushed + n <= Len(writeBuffer)
  BY <1>0 DEF Size
<1>4. Meet(delivered, writeBuffer, flushed, n, written)
  BY <1>0, <1>2, <1>3 DEF Meet
<1>5. delivered \o Part(writeBuffer, flushed, n) = Bytes(0, Len(delivered) + n)
  BY <1>4, TakeRun
<1> QED BY <1>1, <1>5

\* The assertions and the place of every byte hold initially.
LEMMA InvInit == Init => Inv
<1> SUFFICES ASSUME Init PROVE Inv
  OBVIOUS
<1>1. writeBuffer = <<>> /\ delivered = <<>>
  BY DEF Init
<1>2. /\ writeBuffer \in Seq(Nat) /\ delivered \in Seq(Nat)
      /\ Len(writeBuffer) = 0 /\ Len(delivered) = 0
  BY <1>1, EmptySeq
<1>3. TypeOK
  BY <1>2 DEF Init, TypeOK
<1>4. BufferAssertions
  BY <1>2, LimitAssumption DEF Init, BufferAssertions, Size
<1>5. StreamInv
  <2>1. Size = 0 /\ 1 .. 0 = {}
    BY <1>2 DEF Size
  <2> QED BY <1>2, <2>1 DEF Init, StreamInv
<1> QED BY <1>3, <1>4, <1>5 DEF Inv

\* A step that moves no byte keeps the invariant if what depends on the control
\* state holds of the new one.
LEMMA NoByteMoves ==
  ASSUME Inv, UNCHANGED <<writeBuffer, written, delivered>>,
         writeError' \in BOOLEAN, remaining' \in Nat, flushed' = 0,
         caller' \in {"none", "write byte", "write", "flush", "destructor"},
         pc' \in {"idle", "write", "flush", "return", "gone"},
         pc' = "flush" => Size > 0,
         pc' \in {"write", "flush"} => ~writeError',
         ~writeError' => ~writeError /\ flushed = 0,
         pc' \in {"return", "gone"} /\ ~writeError' => Size = 0
  PROVE  Inv'
<1>1. Size' = Size
  BY DEF Size
<1>2. TypeOK'
  BY DEF Inv, TypeOK
<1>3. BufferAssertions'
  BY <1>1 DEF Inv, BufferAssertions
<1>4. StreamInv'
  BY <1>1 DEF Inv, StreamInv
<1> QED BY <1>2, <1>3, <1>4 DEF Inv

\* A step that copies bytes, which the two methods write do between flushes.
LEMMA CopyStep ==
  ASSUME Inv, NEW n \in Nat, Copy(n), Size + n <= write_buffer_limit,
         UNCHANGED <<writeError, flushed, caller, delivered>>, flushed = 0,
         ~writeError, pc' \in {"idle", "write"}, remaining' \in Nat
  PROVE  Inv'
<1>0. Size \in Nat /\ written \in Nat /\ Len(delivered) \in Nat
  BY InvTypes
<1>1. /\ writeBuffer' \in Seq(Nat) /\ written' \in Nat
      /\ Size' = Size + n
      /\ written' = written + n
      /\ \A i \in 1 .. Size' : writeBuffer'[i] = written' - Size' + i
  BY CopyKeeps
<1>2. TypeOK'
  BY <1>1 DEF Inv, TypeOK
<1>3. BufferAssertions'
  BY <1>1 DEF BufferAssertions
<1>4. /\ Size' <= written' /\ Len(delivered)' <= written'
      /\ Len(delivered)' = written' - Size' + flushed'
  <2>1. Size <= written /\ Len(delivered) = written - Size + 0
    BY DEF Inv, StreamInv
  <2>2. Len(delivered)' = Len(delivered) /\ flushed' = 0
    OBVIOUS
  <2> QED BY <1>0, <1>1, <2>1, <2>2
<1>5. \A i \in 1 .. Len(delivered)' : delivered'[i] = i
  BY DEF Inv, StreamInv
<1>6. StreamInv'
  BY <1>1, <1>4, <1>5 DEF StreamInv
<1> QED BY <1>2, <1>3, <1>6 DEF Inv

\* A step in which the client takes bytes.
LEMMA ClientStep ==
  ASSUME Inv, NEW n \in 1 .. Size - flushed, ClientTakes(n)
  PROVE  Inv'
<1>0. /\ Size \in Nat /\ Len(delivered) \in Nat /\ written \in Nat
      /\ flushed \in Nat /\ writeBuffer \in Seq(Nat)
      /\ n \in Nat /\ n > 0 /\ flushed + n <= Size
  BY InvTypes
<1>1. delivered' = Bytes(0, Len(delivered) + n)
  BY ClientKeeps
<1>2. /\ delivered' \in Seq(Nat)
      /\ Len(delivered') = Len(delivered) + n
      /\ \A i \in 1 .. Len(delivered) + n : delivered'[i] = 0 + i
  <2>1. Len(delivered) + n \in Nat /\ 0 \in Nat
    BY <1>0
  <2> QED BY <1>1, <2>1, BytesSeq
<1>3. /\ pc = "flush" /\ ~writeError /\ Size <= written
      /\ Len(delivered) = written - Size + flushed
      /\ UNCHANGED <<writeError, written, remaining, caller>>
  BY DEF Inv, StreamInv, ClientTakes
<1>4. \A i \in 1 .. Len(delivered') : delivered'[i] = i
  BY <1>0, <1>2
<1>5. CASE flushed + n = Size
  <2>1. /\ writeBuffer' = <<>> /\ flushed' = 0 /\ pc' = "return"
    BY <1>5 DEF ClientTakes
  <2>2. writeBuffer' \in Seq(Nat) /\ Size' = 0
    BY <2>1, EmptySeq DEF Size
  <2>3. TypeOK'
    BY <1>2, <1>3, <2>1, <2>2 DEF Inv, TypeOK
  <2>4. BufferAssertions'
    BY <2>1, <2>2, LimitAssumption DEF BufferAssertions
  <2>5. /\ Len(delivered') = written' - Size' + flushed'
        /\ Size' <= written' /\ Len(delivered') <= written'
    BY <1>0, <1>2, <1>3, <1>5, <2>1, <2>2
  <2>6. StreamInv'
    BY <1>3, <1>4, <2>1, <2>2, <2>5 DEF StreamInv
  <2> QED BY <2>3, <2>4, <2>6 DEF Inv
<1>6. CASE flushed + n # Size
  <2>1. flushed' = flushed + n /\ UNCHANGED <<writeBuffer, pc>>
    BY <1>6 DEF ClientTakes
  <2>2. Size' = Size
    BY <2>1 DEF Size
  <2>3. TypeOK'
    <3>1. flushed' \in Nat
      BY <1>0, <2>1
    <3> QED BY <1>2, <1>3, <2>1, <3>1 DEF Inv, TypeOK
  <2>4. BufferAssertions'
    BY <1>0, <1>6, <2>1, <2>2 DEF Inv, BufferAssertions
  <2>5. /\ Len(delivered') = written' - Size' + flushed'
        /\ Size' <= written' /\ Len(delivered') <= written'
    BY <1>0, <1>2, <1>3, <2>1, <2>2
  <2>6. \A i \in 1 .. Size' : writeBuffer'[i] = written' - Size' + i
    BY <1>3, <2>1, <2>2 DEF Inv, StreamInv
  <2>7. StreamInv'
    BY <1>3, <1>4, <2>1, <2>5, <2>6 DEF StreamInv
  <2> QED BY <2>3, <2>4, <2>7 DEF Inv
<1> QED BY <1>5, <1>6

\* The induction step.
LEMMA InvNext == Inv /\ [Next]_vars => Inv'
<1> SUFFICES ASSUME Inv, [Next]_vars PROVE Inv'
  OBVIOUS
<1>0. /\ Size \in Nat /\ remaining \in Nat /\ flushed \in Nat
      /\ Size <= write_buffer_limit
      /\ write_buffer_limit \in Nat /\ 1 <= write_buffer_limit
      /\ writeError \in BOOLEAN
  <2>1. Size \in Nat /\ remaining \in Nat /\ flushed \in Nat
    BY InvTypes
  <2>2. Size <= write_buffer_limit /\ writeError \in BOOLEAN
    BY DEF Inv, TypeOK, BufferAssertions
  <2>3. write_buffer_limit \in Nat /\ 1 <= write_buffer_limit
    BY LimitAssumption
  <2> QED BY <2>1, <2>2, <2>3
<1>t. /\ caller \in {"none", "write byte", "write", "flush", "destructor"}
      /\ pc \in {"idle", "write", "flush", "return", "gone"}
  BY DEF Inv, TypeOK
<1>c. /\ pc # "flush" => flushed = 0
      /\ pc \in {"write", "flush"} => ~writeError
      /\ pc \in {"return", "gone"} /\ ~writeError => Size = 0
      /\ pc = "flush" => flushed < Size
  BY DEF Inv, StreamInv, BufferAssertions
<1>1. CASE WriteByteBuffers
  <2>1. Size + 1 <= write_buffer_limit /\ 1 \in Nat
    BY <1>0, <1>1 DEF WriteByteBuffers
  <2> QED BY <1>0, <1>1, <1>c, <2>1, CopyStep DEF WriteByteBuffers
<1>2. CASE WriteByteFlushes
  <2>0. Size >= write_buffer_limit
    BY <1>2 DEF WriteByteFlushes
  <2>1. Size > 0
    BY <1>0, <2>0
  <2> QED BY <1>0, <1>t, <1>2, <1>c, <2>1, NoByteMoves DEF WriteByteFlushes, FlushInternal
<1>3. ASSUME NEW size \in 1 .. MaxWrite, WriteStarts(size) PROVE Inv'
  <2>1. size \in Nat
    BY MaxAssumption
  <2>2. /\ pc = "idle" /\ ~writeError /\ remaining' = size /\ pc' = "write"
        /\ UNCHANGED <<writeBuffer, writeError, written, flushed, caller,
                       delivered>>
    BY <1>3 DEF WriteStarts
  <2> QED BY <1>0, <1>t, <1>c, <2>1, <2>2, NoByteMoves
<1>4. ASSUME NEW method \in {"flush", "destructor"}, Flush(method) PROVE Inv'
  BY <1>0, <1>t, <1>4, <1>c, NoByteMoves DEF Flush, FlushInternal
<1>5. CASE DestructorWithEmptyBuffer
  BY <1>0, <1>t, <1>5, <1>c, NoByteMoves DEF DestructorWithEmptyBuffer
<1>6. CASE WriteCopies
  <2> DEFINE room == write_buffer_limit - Size
             n == IF room > remaining THEN remaining ELSE room
  <2>1. /\ n \in Nat /\ Size + n <= write_buffer_limit
        /\ remaining - n \in Nat
    BY <1>0
  <2>2. /\ Copy(n) /\ remaining' = remaining - n /\ pc = "write"
        /\ UNCHANGED <<writeError, flushed, caller, pc, delivered>>
    BY <1>6 DEF WriteCopies
  <2> HIDE DEF n
  <2> QED BY <1>c, <2>1, <2>2, CopyStep
<1>7. CASE WriteFlushes
  <2>1. Size > 0
    BY <1>0, <1>7 DEF WriteFlushes
  <2> QED BY <1>0, <1>t, <1>7, <1>c, <2>1, NoByteMoves DEF WriteFlushes, FlushInternal
<1>8. CASE WriteEnds
  BY <1>0, <1>t, <1>8, <1>c, NoByteMoves DEF WriteEnds
<1>9. ASSUME NEW n \in 1 .. Size - flushed, ClientTakes(n) PROVE Inv'
  BY <1>9, ClientStep
<1>10. CASE ClientTakesNothing
  BY <1>0, <1>t, <1>10, <1>c, NoByteMoves DEF ClientTakesNothing
<1>11. CASE ReturnToWriteByte
  <2>1. CASE writeError
    BY <1>0, <1>t, <1>11, <1>c, <2>1, NoByteMoves DEF ReturnToWriteByte
  <2>2. CASE ~writeError
    <3>0. Size = 0
      BY <1>11, <1>c, <2>2 DEF ReturnToWriteByte
    <3>1. Size + 1 <= write_buffer_limit /\ 1 \in Nat
      BY <1>0, <3>0
    <3> QED BY <1>0, <1>11, <1>c, <2>2, <3>1, CopyStep DEF ReturnToWriteByte
  <2> QED BY <2>1, <2>2
<1>12. CASE ReturnToWrite
  BY <1>0, <1>t, <1>12, <1>c, NoByteMoves DEF ReturnToWrite
<1>13. CASE ReturnToFlush
  BY <1>0, <1>t, <1>13, <1>c, NoByteMoves DEF ReturnToFlush
<1>14. CASE UNCHANGED vars
  BY <1>14 DEF vars, Inv, TypeOK, BufferAssertions, StreamInv, Size
<1> QED BY <1>1, <1>2, <1>3, <1>4, <1>5, <1>6, <1>7, <1>8, <1>9, <1>10, <1>11,
           <1>12, <1>13, <1>14 DEF Next, Calls, Steps

\* The inductive invariant holds in every behaviour.
LEMMA InvAlways == Spec => []Inv
  BY InvInit, InvNext, PTL DEF Spec

\* Every variable keeps its type through every call, however the client answers:
\* the counters never become negative, and the buffer and what was delivered stay
\* sequences of byte numbers.
THEOREM TypeCorrect == Spec => []TypeOK
<1>1. Inv => TypeOK
  BY DEF Inv
<1> QED BY <1>1, InvAlways, PTL

\* write and FlushInternal never overrun the write buffer, and FlushInternal
\* never calls client_.write with nothing left to write, for every size of the
\* buffer and of the writes.
THEOREM AssertionsHold == Spec => []BufferAssertions
<1>1. Inv => BufferAssertions
  BY DEF Inv
<1> QED BY <1>1, InvAlways, PTL

-----------------------------------------------------------------------------
(* The refinement.  Copying is Accept, a call of client_.write is Deliver  *)
(* or Fail, the end of the destructor is GoAway; the rest is invisible.    *)

\* A step that copies bytes accepts them.
LEMMA CopyAccepts ==
  ASSUME Inv, NEW n \in Nat, n > 0, Copy(n), ~writeError,
         UNCHANGED <<writeError, delivered>>, pc # "gone", pc' # "gone"
  PROVE  Stream!Next
<1>1. written' \in Nat /\ written' > written
  <2>1. written \in Nat /\ written' = written + n
    BY DEF Inv, TypeOK, Copy
  <2> QED BY <2>1
<1>2. Stream!Accept
  BY <1>1 DEF Stream!Accept
<1> QED BY <1>2 DEF Stream!Next

\* A step that only moves the control is invisible.
LEMMA ControlStutters ==
  ASSUME UNCHANGED <<written, delivered, writeError>>, pc # "gone", pc' # "gone"
  PROVE  UNCHANGED Stream!vars
  BY DEF Stream!vars

\* A step that ends the destructor.
LEMMA GoneGoesAway ==
  ASSUME Inv, UNCHANGED <<written, delivered, writeError>>, pc' = "gone",
         pc # "flush", writeError \/ Size = 0
  PROVE  Stream!Next
<1>1. writeError \/ Len(delivered) = written
  <2>1. CASE writeError
    BY <2>1
  <2>2. CASE ~writeError
    <3>1. Len(delivered) = written - 0 + 0
      BY <2>2 DEF Inv, StreamInv
    <3>2. written \in Nat
      BY InvTypes
    <3> QED BY <3>1, <3>2
  <2> QED BY <2>1, <2>2
<1>2. Stream!GoAway
  BY <1>1 DEF Stream!GoAway
<1> QED BY <1>2 DEF Stream!Next

\* A call of client_.write that takes bytes delivers them.
LEMMA ClientDelivers ==
  ASSUME Inv, NEW n \in 1 .. Size - flushed, ClientTakes(n)
  PROVE  Stream!Next
<1>0. /\ Size \in Nat /\ Len(delivered) \in Nat /\ written \in Nat
      /\ flushed \in Nat /\ n \in Nat /\ n > 0 /\ flushed + n <= Size
  BY InvTypes
<1>1. delivered' = Bytes(0, Len(delivered) + n)
  BY ClientKeeps
<1>2. /\ pc = "flush" /\ ~writeError /\ Size <= written
      /\ Len(delivered) = written - Size + flushed
      /\ UNCHANGED <<writeError, written>>
      /\ pc' # "gone"
  BY DEF Inv, StreamInv, ClientTakes
<1> DEFINE m == Len(delivered) + n
<1>3. m \in 1 .. written /\ Len(delivered) < m
  BY <1>0, <1>2
<1>4. delivered' = [i \in 1 .. m |-> i]
  <2>1. \A i \in 1 .. m : 0 + i = i
    BY <1>3
  <2> QED BY <1>1, <2>1 DEF Bytes
<1> HIDE DEF m
<1>5. Stream!Deliver(m)
  BY <1>2, <1>3, <1>4 DEF Stream!Deliver
<1> QED BY <1>3, <1>5 DEF Stream!Next

\* Every step implements a step of ByteStream.
LEMMA StreamNext == Inv /\ [Next]_vars => [Stream!Next]_(Stream!vars)
<1> SUFFICES ASSUME Inv, [Next]_vars PROVE Stream!Next \/ UNCHANGED Stream!vars
  OBVIOUS
<1>c. pc \in {"return", "gone"} /\ ~writeError => Size = 0
  BY DEF Inv, StreamInv
<1>1. CASE WriteByteBuffers
  <2>1. 1 \in Nat /\ 1 > 0
    OBVIOUS
  <2> QED BY <1>1, <2>1, CopyAccepts DEF WriteByteBuffers
<1>2. CASE WriteByteFlushes
  BY <1>2, ControlStutters DEF WriteByteFlushes, FlushInternal
<1>3. ASSUME NEW size \in 1 .. MaxWrite, WriteStarts(size)
      PROVE  UNCHANGED Stream!vars
  BY <1>3, ControlStutters DEF WriteStarts
<1>4. ASSUME NEW method \in {"flush", "destructor"}, Flush(method)
      PROVE  UNCHANGED Stream!vars
  BY <1>4, ControlStutters DEF Flush, FlushInternal
<1>5. CASE DestructorWithEmptyBuffer
  BY <1>5, GoneGoesAway DEF DestructorWithEmptyBuffer
<1>6. CASE WriteCopies
  <2> DEFINE room == write_buffer_limit - Size
             n == IF room > remaining THEN remaining ELSE room
  <2>1. /\ Copy(n) /\ n > 0 /\ pc = "write"
        /\ UNCHANGED <<writeError, pc, delivered>>
    BY <1>6 DEF WriteCopies
  <2>2. n \in Nat
    <3>1. Size \in Nat /\ remaining \in Nat
      BY InvTypes
    <3>2. Size <= write_buffer_limit
      BY DEF Inv, BufferAssertions
    <3> QED BY <3>1, <3>2, LimitAssumption
  <2>3. ~writeError
    BY <2>1 DEF Inv, StreamInv
  <2> HIDE DEF n
  <2> QED BY <2>1, <2>2, <2>3, CopyAccepts
<1>7. CASE WriteFlushes
  BY <1>7, ControlStutters DEF WriteFlushes, FlushInternal
<1>8. CASE WriteEnds
  BY <1>8, ControlStutters DEF WriteEnds
<1>9. ASSUME NEW n \in 1 .. Size - flushed, ClientTakes(n) PROVE Stream!Next
  BY <1>9, ClientDelivers
<1>10. CASE ClientTakesNothing
  <2>1. Stream!Fail
    BY <1>10 DEF ClientTakesNothing, Stream!Fail
  <2> QED BY <2>1 DEF Stream!Next
<1>11. CASE ReturnToWriteByte
  <2>1. CASE writeError
    BY <1>11, <2>1, ControlStutters DEF ReturnToWriteByte
  <2>2. CASE ~writeError
    <3>1. 1 \in Nat /\ 1 > 0
      OBVIOUS
    <3> QED BY <1>11, <2>2, <3>1, CopyAccepts DEF ReturnToWriteByte
  <2> QED BY <2>1, <2>2
<1>12. CASE ReturnToWrite
  BY <1>12, ControlStutters DEF ReturnToWrite
<1>13. CASE ReturnToFlush
  <2>1. CASE caller = "flush"
    BY <1>13, <2>1, ControlStutters DEF ReturnToFlush
  <2>2. CASE caller # "flush"
    BY <1>13, <1>c, <2>2, GoneGoesAway DEF ReturnToFlush
  <2> QED BY <2>1, <2>2
<1>14. CASE UNCHANGED vars
  BY <1>14 DEF vars, Stream!vars
<1> QED BY <1>1, <1>2, <1>3, <1>4, <1>5, <1>6, <1>7, <1>8, <1>9, <1>10, <1>11,
           <1>12, <1>13, <1>14 DEF Next, Calls, Steps

\* A WriteBufferedConnection implements ByteStream: whatever parts of the buffer
\* client_.write takes, the peer gets the bytes written once each and in order,
\* and all of them by the end of the destructor unless writing has failed.
THEOREM StreamImplemented == Spec => ImplementsByteStream
<1>1. Init => Stream!Init
  BY DEF Init, Stream!Init
<1> QED BY <1>1, StreamNext, InvAlways, PTL
  DEF Spec, ImplementsByteStream, Stream!Spec
=============================================================================
