-------------------------- MODULE PortTestProofs --------------------------
(***************************************************************************)
(* Proofs about PortTest and the modules it is made of, for any servers,   *)
(* ports and delays: types, messages that arrive whole, a verified start   *)
(* whose ports are fine, timers that end with their test, and a successful *)
(* start that is one.  The inductive invariant is PInv, whose parts are    *)
(*   FInv         what is under way is a row of frames, the first perhaps  *)
(*                without its header (Framing);                            *)
(*   WatchInv     the questions of the status check that are out are       *)
(*                those that were asked, and it tells when none is left;   *)
(*   OutsideTests, ReportsOwed   a report under way is one the present     *)
(*                test asked for.                                          *)
(* The order is: the operators, the frames, the status check, what each    *)
(* action does to the tests, and the theorems.                             *)
(***************************************************************************)
EXTENDS PortTest, SequenceTheorems, TLAPS

\* The payloads' lengths.
LEMMA Sizes ==
  /\ Message = {"ip", "good", "bad"}
  /\ \A m \in Message : Size[m] \in 1..2
BY DEF Message, Size

\* A byte knows its message and its place.
LEMMA Bytes ==
  ASSUME NEW b \in Byte
  PROVE  /\ b[1] \in Message /\ b[2] \in 1..(Header + Size[b[1]])
         /\ b = <<b[1], b[2]>>
BY Sizes DEF Byte, Header

\* What send puts together, byte by byte.
LEMMA FrameBytes ==
  ASSUME NEW m \in Message
  PROVE  /\ Frame(m) \in Seq(Byte) /\ Len(Frame(m)) = Header + Size[m]
         /\ \A k \in 1..(Header + Size[m]) : Frame(m)[k] = <<m, k>>
<1>1. Header + Size[m] \in Nat /\ Header + Size[m] <= 4
  BY Sizes DEF Header
<1>2. \A k \in 1..(Header + Size[m]) : <<m, k>> \in Byte
  BY <1>1 DEF Byte
<1>3. QED BY <1>1, <1>2 DEF Frame

(* What is left of a stream after some bytes are taken off its front, or lost
   at its end, is a part of it. *)
Part(t, s, d) ==
  /\ d \in Nat /\ d + Len(t) <= Len(s)
  /\ \A k \in 1..Len(t) : t[k] = s[d + k]

\* The stream is a sequence of bytes.
LEMMA StreamBytes ==
  ASSUME FrameTypeOK
  PROVE  /\ stream \in Seq(Byte) /\ Len(stream) = Len(buf) + Len(wire)
         /\ \A k \in 1..Len(buf) : stream[k] = buf[k]
         /\ \A k \in 1..Len(wire) : stream[Len(buf) + k] = wire[k]
         /\ \A k \in 1..Len(stream) : stream[k] \in Byte
BY DEF FrameTypeOK, stream

\* A part of the stream is in its order, and has no report that it had not.
LEMMA PartBytes ==
  ASSUME FrameTypeOK, FrameTypeOK', NEW d, Part(stream', stream, d)
  PROVE  /\ FrameOrder => FrameOrder'
         /\ NoReport => NoReport'
         /\ OneReport => OneReport'
         /\ Reported("good")' => Reported("good")
         /\ Whole /\ d + Len(stream') = Len(stream) /\ stream' # <<>> => Whole'
<1>1. /\ stream \in Seq(Byte) /\ stream' \in Seq(Byte)
      /\ Len(stream) \in Nat /\ Len(stream') \in Nat
  BY DEF FrameTypeOK, stream
<1>2. \A k \in 1..Len(stream') : stream'[k] = stream[d + k] /\ d + k \in 1..Len(stream)
  BY <1>1 DEF Part
<1>3. \A k \in 1..(Len(stream') - 1) :
        /\ d + k \in 1..(Len(stream) - 1) /\ (d + k) + 1 = d + (k + 1)
        /\ k \in 1..Len(stream') /\ k + 1 \in 1..Len(stream')
  BY <1>1 DEF Part
<1>4. ASSUME FrameOrder PROVE FrameOrder'
  <2> SUFFICES ASSUME NEW k \in 1..(Len(stream') - 1)
               PROVE  IF IsLast(stream'[k]) THEN stream'[k + 1][2] = 1
                      ELSE stream'[k + 1] = <<stream'[k][1], stream'[k][2] + 1>>
    BY DEF FrameOrder, IsLast
  <2>1. stream'[k] = stream[d + k] /\ stream'[k + 1] = stream[d + (k + 1)]
    BY <1>2, <1>3
  <2>2. QED BY <1>3, <1>4, <2>1 DEF FrameOrder
<1>5. NoReport => NoReport'
  BY <1>2 DEF NoReport
<1>6. ASSUME OneReport PROVE OneReport'
  <2> SUFFICES ASSUME NEW k \in 1..(Len(stream') - 1), stream'[k + 1][2] = 1
               PROVE  stream'[k][1] = "ip"
    BY DEF OneReport
  <2>1. stream'[k] = stream[d + k] /\ stream'[k + 1] = stream[d + (k + 1)]
    BY <1>2, <1>3
  <2>2. QED BY <1>3, <1>6, <2>1 DEF OneReport
<1>7. Reported("good")' => Reported("good")
  BY <1>2 DEF Reported
<1>8. ASSUME Whole, d + Len(stream') = Len(stream), stream' # <<>> PROVE Whole'
  <2>1. Len(stream') \in 1..Len(stream')
    BY <1>1, <1>8
  <2>2. stream'[Len(stream')] = stream[Len(stream)] /\ stream # <<>>
    BY <1>1, <1>2, <1>8, <2>1
  <2>3. QED BY <1>8, <2>2 DEF Whole, IsLast
<1>9. QED BY <1>4, <1>5, <1>6, <1>7, <1>8

(* What is put on the wire ends the stream. *)
LEMMA SentBytes ==
  ASSUME FrameTypeOK, NEW m \in Message, send(m), UNCHANGED <<buf, haveEnough>>
  PROVE  /\ wire' \in Seq(Byte)
         /\ Len(stream') = Len(stream) + Len(Frame(m))
         /\ \A k \in 1..Len(stream) : stream'[k] = stream[k]
         /\ \A k \in 1..Len(Frame(m)) : stream'[Len(stream) + k] = Frame(m)[k]
<1>1. Frame(m) \in Seq(Byte) /\ wire \in Seq(Byte) /\ buf \in Seq(Byte)
  BY FrameBytes DEF FrameTypeOK
<1>2. wire' = wire \o Frame(m) /\ stream' = buf \o (wire \o Frame(m))
  BY DEF send, stream
<1> HIDE DEF Frame
<1>3. QED BY <1>1, <1>2 DEF stream

\* A piece that arrives changes where the bytes are, not the stream.
LEMMA DataStep ==
  ASSUME FrameTypeOK, Data
  PROVE  FrameTypeOK' /\ stream' = stream /\ UNCHANGED haveEnough
<1>1. PICK n \in 1..Len(wire) : /\ buf' = buf \o SubSeq(wire, 1, n)
                               /\ wire' = SubSeq(wire, n + 1, Len(wire))
  BY DEF Data
<1> DEFINE piece == SubSeq(wire, 1, n)
           rest == SubSeq(wire, n + 1, Len(wire))
<1>2. /\ wire \in Seq(Byte) /\ buf \in Seq(Byte) /\ Len(wire) \in Nat
      /\ n \in 1..Len(wire) /\ n \in 0..Len(wire) /\ 1 \in 1..(Len(wire) + 1)
      /\ Len(wire) \in n..Len(wire)
  BY <1>1 DEF FrameTypeOK
<1>3. \A i \in 1..Len(wire) : wire[i] \in Byte
  BY <1>2
<1>4. piece \in Seq(Byte) /\ rest \in Seq(Byte)
  BY <1>2, <1>3
<1>5. piece \o rest = wire
  <2>1. 1 - 1 = 0
    OBVIOUS
  <2>2. piece \o rest = SubSeq(wire, 1, Len(wire))
    BY <1>2, <2>1, ConcatAdjacentSubSeq
  <2>3. QED BY <1>2, <2>2, SubSeqFull
<1> HIDE DEF piece, rest
<1>6. stream' = buf \o (piece \o rest)
  <2>1. stream' = (buf \o piece) \o rest
    BY <1>1 DEF stream, piece, rest
  <2>2. buf \in Seq(Byte)
    BY <1>2
  <2>3. (buf \o piece) \o rest = buf \o (piece \o rest)
    BY <1>4, <2>2, ConcatAssociative
  <2>4. QED BY <2>1, <2>3
<1>7. FrameTypeOK'
  <2>1. buf' \in Seq(Byte)
    BY <1>1, <1>2, <1>4, ConcatProperties DEF piece
  <2>2. QED BY <1>1, <1>4, <2>1 DEF FrameTypeOK, Data, rest
<1>8. QED BY <1>5, <1>6, <1>7 DEF stream, Data

(* Taking bytes off the buffer, whatever becomes of the wire. *)
Drop(b, n) == SubSeq(b, n + 1, Len(b))

\* Bytes dropped at the front of the buffer are dropped at that of the stream.
LEMMA DropFront ==
  ASSUME NEW b \in Seq(Byte), NEW w \in Seq(Byte), NEW n \in 0..Len(b)
  PROVE  /\ Drop(b, n) \in Seq(Byte) /\ Len(Drop(b, n)) = Len(b) - n
         /\ \A k \in 1..Len(Drop(b, n)) : Drop(b, n)[k] = b[n + k]
         /\ Part(Drop(b, n) \o w, b \o w, n)
         /\ n + Len(Drop(b, n) \o w) = Len(b \o w)
         /\ Part(Drop(b, n) \o <<>>, b \o w, n)
<1> DEFINE t == Drop(b, n)
<1>1. Len(b) \in Nat /\ Len(w) \in Nat /\ n \in Nat /\ n <= Len(b)
  OBVIOUS
<1>2. t \in Seq(Byte) /\ Len(t) \in Nat /\ Len(t) = Len(b) - n
  BY DEF Drop
<1>3. \A k \in 1..Len(t) : t[k] = b[n + k]
  BY DEF Drop
<1> HIDE DEF t
<1>4. /\ Len(t \o w) = Len(t) + Len(w) /\ Len(b \o w) = Len(b) + Len(w)
      /\ \A k \in 1..(Len(t) + Len(w)) :
           (t \o w)[k] = IF k <= Len(t) THEN t[k] ELSE w[k - Len(t)]
      /\ \A k \in 1..(Len(b) + Len(w)) :
           (b \o w)[k] = IF k <= Len(b) THEN b[k] ELSE w[k - Len(b)]
  BY <1>2, ConcatProperties
<1>5. t \o <<>> = t
  BY <1>2, ConcatEmptySeq
<1>6. \A k \in 1..(Len(t) + Len(w)) : (t \o w)[k] = (b \o w)[n + k]
  <2> SUFFICES ASSUME NEW k \in 1..(Len(t) + Len(w))
               PROVE  (t \o w)[k] = (b \o w)[n + k]
    OBVIOUS
  <2>1. n + k \in 1..(Len(b) + Len(w)) /\ k \in Nat
    BY <1>1, <1>2
  <2>2. CASE k <= Len(t)
    BY <1>1, <1>2, <1>3, <1>4, <2>1, <2>2
  <2>3. CASE ~(k <= Len(t))
    <3>1. \A i, j, x, y \in Nat :
            x = y - j /\ ~(i <= x) => ~(j + i <= y) /\ i - x = (j + i) - y
      OBVIOUS
    <3>2. ~(n + k <= Len(b)) /\ k - Len(t) = (n + k) - Len(b)
      BY <1>1, <1>2, <2>1, <2>3, <3>1
    <3>3. QED BY <1>4, <2>1, <2>3, <3>2
  <2>4. QED BY <2>2, <2>3
<1>7. Part(t \o w, b \o w, n) /\ n + Len(t \o w) = Len(b \o w)
  <2>1. n + Len(t \o w) = Len(b \o w) /\ Len(t \o w) \in Nat
    BY <1>1, <1>2, <1>4
  <2>2. QED BY <1>1, <1>4, <1>6, <2>1 DEF Part
<1>8. Part(t, b \o w, n)
  BY <1>1, <1>2, <1>3, <1>4 DEF Part
<1>9. QED BY <1>2, <1>3, <1>5, <1>7, <1>8 DEF t

(* What checkForData reads: the header, if it is there to be read, and the
   payload behind it. *)
HeaderRead == IF AtHeader THEN Header ELSE 0

\* What checkForData has not read is a part of the buffer.
LEMMA UnreadBytes ==
  ASSUME FrameTypeOK
  PROVE  /\ HeaderRead \in 0..Len(buf) /\ Needed \in 0..2
         /\ Unread = Drop(buf, HeaderRead)
         /\ Unread \in Seq(Byte) /\ Len(Unread) = Len(buf) - HeaderRead
         /\ \A k \in 1..Len(Unread) : Unread[k] = buf[HeaderRead + k]
<1>1. buf \in Seq(Byte) /\ wire \in Seq(Byte) /\ Len(buf) \in Nat
      /\ haveEnough \in 0..2
  BY DEF FrameTypeOK
<1>2. HeaderRead \in 0..Len(buf)
  BY <1>1 DEF HeaderRead, AtHeader, Header
<1>3. Unread = Drop(buf, HeaderRead)
  <2>1. SubSeq(buf, 0 + 1, Len(buf)) = buf
    BY <1>1, SubSeqFull
  <2>2. QED BY <2>1 DEF Unread, HeaderRead, Drop
<1>4. Needed \in 0..2
  <2>1. CASE AtHeader
    <3>1. buf[1] \in Byte
      BY <1>1, <2>1 DEF AtHeader, Header
    <3>2. QED BY <2>1, <3>1, Bytes, Sizes DEF Needed
  <2>2. QED BY <1>1, <2>1 DEF Needed
<1>5. QED BY <1>1, <1>2, <1>3, <1>4, DropFront

\* A header that is read is taken off the front of the stream.
LEMMA AwaitStep ==
  ASSUME FrameTypeOK, AwaitData
  PROVE  /\ FrameTypeOK' /\ Part(stream', stream, HeaderRead)
         /\ HeaderRead + Len(stream') = Len(stream) /\ haveEnough' = Needed
<1>1. /\ buf' = Unread /\ wire' = wire /\ haveEnough' = Needed /\ parsing' = FALSE
      /\ stream' = Unread \o wire
  BY DEF AwaitData, stream
<1>2. FrameTypeOK'
  BY <1>1, UnreadBytes DEF FrameTypeOK
<1>3. buf \in Seq(Byte) /\ wire \in Seq(Byte) /\ stream = buf \o wire
  BY DEF FrameTypeOK, stream
<1>4. /\ Part(Unread \o wire, buf \o wire, HeaderRead)
      /\ HeaderRead + Len(Unread \o wire) = Len(buf \o wire)
  <2>1. HeaderRead \in 0..Len(buf) /\ Unread = Drop(buf, HeaderRead)
    BY UnreadBytes
  <2>2. QED BY <1>3, <2>1, DropFront
<1>5. QED BY <1>1, <1>2, <1>3, <1>4

(* A message is taken, and what it makes recv do may end the connection. *)
LEMMA TakeStep ==
  ASSUME FrameTypeOK, TakePacket, wire' = wire \/ wire' = <<>>
  PROVE  /\ FrameTypeOK' /\ Part(stream', stream, HeaderRead + Needed)
         /\ wire' = wire => HeaderRead + Needed + Len(stream') = Len(stream)
         /\ haveEnough' = 0
<1> DEFINE n == HeaderRead + Needed
<1>1. /\ buf' = SubSeq(Unread, Needed + 1, Len(Unread)) /\ haveEnough' = 0
      /\ UNCHANGED parsing /\ Needed # 0 /\ Len(Unread) >= Needed
  BY DEF TakePacket, Complete
<1>2. /\ buf \in Seq(Byte) /\ wire \in Seq(Byte) /\ Len(buf) \in Nat
      /\ HeaderRead \in Nat /\ Needed \in Nat /\ Len(Unread) = Len(buf) - HeaderRead
  BY UnreadBytes DEF FrameTypeOK
<1>3. n \in 0..Len(buf)
  BY <1>1, <1>2
<1>4. buf' = Drop(buf, n)
  <2>1. Unread = SubSeq(buf, HeaderRead + 1, Len(buf))
    BY UnreadBytes DEF Drop
  <2>2. CASE Len(Unread) = Needed
    <3>1. buf' = <<>>
      BY <1>1, <1>2, <2>2, SubSeqEmpty
    <3>2. Drop(buf, n) = <<>>
      BY <1>2, <2>2, SubSeqEmpty DEF Drop
    <3>3. QED BY <3>1, <3>2
  <2>3. CASE Len(Unread) > Needed
    <3> DEFINE i == HeaderRead + 1  j == Len(buf)  m == Needed + 1  l == Len(Unread)
    <3>1. /\ i \in 1..Len(buf) /\ j \in 1..Len(buf)
          /\ m \in 1..(j - i + 1) /\ l \in 1..(j - i + 1)
          /\ i + m - 1 = n + 1 /\ i + l - 1 = Len(buf)
      BY <1>1, <1>2, <2>3
    <3> HIDE DEF i, j, m, l
    <3>2. SubSeq(SubSeq(buf, i, j), m, l) = SubSeq(buf, i + m - 1, i + l - 1)
      BY <1>2, <3>1, SubSeqOfSubSeq
    <3>3. QED BY <1>1, <2>1, <3>1, <3>2 DEF i, j, m, l, Drop
  <2>4. QED BY <1>1, <1>2, <2>2, <2>3
<1> HIDE DEF n
<1>5. buf' \in Seq(Byte)
  BY <1>2, <1>3, <1>4, DropFront
<1>6. FrameTypeOK'
  <2>1. <<>> \in Seq(Byte)
    OBVIOUS
  <2>2. wire' \in Seq(Byte)
    BY <1>2, <2>1
  <2>3. QED BY <1>1, <1>5, <2>2 DEF FrameTypeOK
<1>7. CASE wire' = wire
  <2>1. stream' = buf' \o wire /\ stream = buf \o wire
    BY <1>7 DEF stream
  <2>2. Part(stream', stream, n) /\ n + Len(stream') = Len(stream)
    BY <1>2, <1>3, <1>4, <2>1, DropFront
  <2>3. QED BY <1>1, <1>6, <2>2 DEF n
<1>8. CASE wire' = <<>> /\ wire' # wire
  <2>1. stream' = buf' \o <<>> /\ stream = buf \o wire
    BY <1>8 DEF stream
  <2>2. Part(stream', stream, n)
    BY <1>2, <1>3, <1>4, <2>1, DropFront
  <2>3. QED BY <1>1, <1>6, <1>8, <2>2 DEF n
<1>9. QED BY <1>7, <1>8

(* The wire is cut. *)
LEMMA CutStep ==
  ASSUME FrameTypeOK, wire' = <<>>, UNCHANGED <<buf, haveEnough, parsing>>
  PROVE  FrameTypeOK' /\ Part(stream', stream, 0)
<1>1. /\ buf \in Seq(Byte) /\ wire \in Seq(Byte) /\ stream' = buf \o <<>>
      /\ 0 \in 0..Len(buf) /\ Drop(buf, 0) = buf
  BY SubSeqFull DEF FrameTypeOK, stream, Drop
<1>2. Part(stream', stream, 0)
  BY <1>1, DropFront DEF stream
<1>3. <<>> \in Seq(Byte)
  OBVIOUS
<1>4. QED BY <1>2, <1>3 DEF FrameTypeOK

(* Where checkForData stands in the stream: at a frame's header that has not
   come whole, or before a payload whose length it knows. *)
LEMMA AtPayload ==
  ASSUME FInv
  PROVE  /\ Needed = 0 => HeaderRead = 0 /\ haveEnough = 0
         /\ Needed # 0 /\ HeaderRead < Len(stream) =>
              /\ stream[HeaderRead + 1][2] = Header + 1
              /\ Needed = Size[stream[HeaderRead + 1][1]]
         /\ HeaderRead # 0 =>
              /\ HeaderRead <= Len(stream) /\ HeaderRead \in 1..Len(stream)
              /\ ~IsLast(stream[HeaderRead])
<1>1. /\ stream \in Seq(Byte) /\ Len(stream) = Len(buf) + Len(wire)
      /\ Len(buf) \in Nat /\ Len(wire) \in Nat
      /\ \A k \in 1..Len(buf) : stream[k] = buf[k]
      /\ \A k \in 1..Len(stream) : stream[k] \in Byte
  BY StreamBytes DEF FInv, FrameTypeOK
<1>2. CASE AtHeader
  <2>1. /\ Len(buf) >= 2 /\ haveEnough = 0 /\ HeaderRead = 2
        /\ 1 \in 1..Len(buf) /\ 2 \in 1..Len(buf)
        /\ 1 \in 1..Len(stream) /\ 2 \in 1..Len(stream) /\ 1 \in 1..(Len(stream) - 1)
    BY <1>1, <1>2 DEF AtHeader, HeaderRead, Header
  <2> DEFINE m == stream[1][1]
  <2>2. stream[1] \in Byte /\ stream[1] = buf[1] /\ m \in Message /\ Size[m] \in 1..2
    BY <1>1, <2>1, Bytes, Sizes
  <2>3. Needed = Size[m] /\ Needed # 0
    BY <1>2, <2>2 DEF Needed
  <2>4. stream[1][2] = 1
    BY <2>1 DEF FInv, FramesIntact
  <2>5. ~IsLast(stream[1])
    BY <2>2, <2>4 DEF IsLast, Header
  <2>6. stream[2] = <<m, 2>>
    BY <2>1, <2>4, <2>5 DEF FInv, FrameOrder
  <2>7. ~IsLast(stream[2])
    BY <2>2, <2>6 DEF IsLast, Header
  <2>8. ASSUME 2 < Len(stream) PROVE stream[3] = <<m, 3>>
    <3>1. 2 \in 1..(Len(stream) - 1)
      BY <1>1, <2>8
    <3>2. QED BY <2>6, <2>7, <3>1 DEF FInv, FrameOrder
  <2>9. QED BY <2>1, <2>3, <2>7, <2>8 DEF Header
<1>3. CASE ~AtHeader
  <2>1. HeaderRead = 0 /\ Needed = haveEnough
    BY <1>3 DEF HeaderRead, Needed
  <2>2. QED BY <1>1, <2>1 DEF FInv, FramesIntact
<1>4. QED BY <1>2, <1>3

\* Reading a header keeps the row of frames, and remembers its payload.
LEMMA AwaitFrames ==
  ASSUME FInv, AwaitData
  PROVE  /\ FInv' /\ (Whole => Whole')
         /\ NoReport => NoReport'
         /\ OneReport => OneReport'
         /\ Reported("good")' => Reported("good")
<1>1. /\ FrameTypeOK /\ FrameTypeOK' /\ Part(stream', stream, HeaderRead)
      /\ HeaderRead + Len(stream') = Len(stream) /\ haveEnough' = Needed
  BY AwaitStep DEF FInv
<1>2. /\ stream' \in Seq(Byte) /\ stream \in Seq(Byte) /\ HeaderRead \in Nat
      /\ Len(stream') \in Nat
  BY <1>1, UnreadBytes DEF FrameTypeOK, stream
<1>3. stream' # <<>> => /\ stream'[1] = stream[HeaderRead + 1]
                        /\ HeaderRead < Len(stream) /\ stream # <<>>
  BY <1>1, <1>2 DEF Part
<1>4. FramesIntact'
  <2>1. CASE Needed = 0
    BY <1>1, <1>3, <2>1, AtPayload DEF FramesIntact, FInv
  <2>2. CASE Needed # 0
    BY <1>1, <1>3, <2>2, AtPayload DEF FramesIntact
  <2>3. QED BY <2>1, <2>2
<1>5. Whole /\ stream' = <<>> => Whole'
  <2> SUFFICES ASSUME Whole, stream' = <<>> PROVE Needed = 0
    BY <1>1 DEF Whole
  <2>1. Len(stream) = HeaderRead
    BY <1>1, <1>2
  <2>2. CASE HeaderRead = 0
    BY <1>2, <2>1, <2>2 DEF Whole, HeaderRead, Needed, Header
  <2>3. CASE HeaderRead # 0
    BY <1>2, <2>1, <2>3, AtPayload DEF Whole
  <2>4. QED BY <2>2, <2>3
<1>6. QED BY <1>1, <1>2, <1>4, <1>5, PartBytes DEF FInv

\* Taking a payload leaves a row that begins at a header.
LEMMA TakeFrames ==
  ASSUME FInv, TakePacket, wire' = wire \/ wire' = <<>>
  PROVE  /\ FInv' /\ (Whole /\ wire' = wire => Whole')
         /\ Packet \in Message
         /\ NoReport => Packet = "ip" /\ NoReport'
         /\ Packet = "good" => Reported("good")
         /\ OneReport => OneReport' /\ (Packet # "ip" => NoReport')
         /\ Reported("good")' => Reported("good")
<1> DEFINE n == HeaderRead + Needed
           m == stream[HeaderRead + 1][1]
<1>1. /\ FrameTypeOK /\ FrameTypeOK' /\ Part(stream', stream, n) /\ haveEnough' = 0
      /\ wire' = wire => n + Len(stream') = Len(stream)
  BY TakeStep DEF FInv
<1>2. /\ stream' \in Seq(Byte) /\ stream \in Seq(Byte) /\ HeaderRead \in Nat
      /\ Needed \in 1..2 /\ HeaderRead + Needed <= Len(buf)
      /\ Len(buf) <= Len(stream) /\ Len(stream) \in Nat /\ Len(stream') \in Nat
      /\ HeaderRead + 1 \in 1..Len(buf) /\ HeaderRead + 1 \in 1..Len(stream)
  <2>1. Needed # 0 /\ Len(Unread) >= Needed
    BY DEF TakePacket, Complete
  <2>2. /\ HeaderRead \in 0..Len(buf) /\ Needed \in 0..2
        /\ Len(Unread) = Len(buf) - HeaderRead
    BY <1>1, UnreadBytes
  <2>3. /\ stream \in Seq(Byte) /\ Len(stream) = Len(buf) + Len(wire)
        /\ Len(buf) \in Nat /\ Len(wire) \in Nat
    BY <1>1, StreamBytes DEF FrameTypeOK
  <2>4. stream' \in Seq(Byte) /\ Len(stream') \in Nat
    BY <1>1 DEF FrameTypeOK, stream
  <2>5. HeaderRead \in Nat /\ Needed \in 1..2 /\ HeaderRead + Needed <= Len(buf)
    BY <2>1, <2>2, <2>3
  <2>6. QED BY <2>3, <2>4, <2>5
<1>3. /\ Packet = m /\ m \in Message /\ Needed = Size[m]
      /\ stream[HeaderRead + 1] = <<m, Header + 1>>
  <2>1. 1 \in 1..Len(Unread)
    BY <1>1, <1>2, UnreadBytes
  <2>2. Unread[1] = buf[HeaderRead + 1]
    BY <1>1, <2>1, UnreadBytes
  <2>3. stream[HeaderRead + 1] = buf[HeaderRead + 1] /\ stream[HeaderRead + 1] \in Byte
    BY <1>1, <1>2, StreamBytes
  <2>4. stream[HeaderRead + 1][2] = Header + 1 /\ Needed = Size[m]
    BY <1>2, AtPayload
  <2>5. QED BY <2>2, <2>3, <2>4, Bytes DEF Packet
<1>4. n \in 1..Len(stream) /\ stream[n] = <<m, Header + Size[m]>>
  <2>1. CASE Needed = 1
    BY <1>2, <1>3, <2>1
  <2>2. CASE Needed = 2
    <3>1. ~IsLast(stream[HeaderRead + 1]) /\ HeaderRead + 1 \in 1..(Len(stream) - 1)
      BY <1>2, <1>3, <2>2 DEF IsLast, Header
    <3>2. stream[HeaderRead + 2] = <<m, Header + 2>>
      BY <1>2, <1>3, <3>1 DEF FInv, FrameOrder, Header
    <3>3. QED BY <1>2, <1>3, <2>2, <3>2
  <2>3. QED BY <1>2, <2>1, <2>2
<1> HIDE DEF n, m
<1>5. n \in 1..(Len(stream) - 1) => stream[n + 1][2] = 1
  BY <1>4 DEF FInv, FrameOrder, IsLast
<1>6. stream' # <<>> => /\ stream'[1] = stream[n + 1]
                        /\ n \in 1..(Len(stream) - 1)
  BY <1>1, <1>2, <1>4 DEF Part
<1>7. FramesIntact'
  BY <1>1, <1>5, <1>6 DEF FramesIntact
<1>8. stream' = <<>> => Whole'
  BY <1>1 DEF Whole
<1>9. NoReport => m = "ip"
  BY <1>4 DEF NoReport
<1>10. m = "good" => Reported("good")
  BY <1>4 DEF Reported
<1>11. ASSUME OneReport, m # "ip" PROVE NoReport'
  <2>1. stream' = <<>>
    BY <1>4, <1>5, <1>6, <1>11 DEF OneReport
  <2>2. QED BY <2>1 DEF NoReport
<1>12. QED
  BY <1>1, <1>2, <1>3, <1>7, <1>8, <1>9, <1>10, <1>11, PartBytes DEF FInv

(* A frame is sent behind whole ones. *)
LEMMA SentFrames ==
  ASSUME FInv, Whole, NEW m \in Message, send(m),
         UNCHANGED <<buf, haveEnough, parsing>>
  PROVE  /\ FInv' /\ Whole'
         /\ m = "ip" /\ NoReport => NoReport'
         /\ NoReport => OneReport'
         /\ Reported("good")' => Reported("good") \/ m = "good"
<1> DEFINE l == Len(stream)
           z == Header + Size[m]
<1>1. /\ stream \in Seq(Byte) /\ stream' \in Seq(Byte) /\ l \in Nat /\ z \in 3..4
      /\ Len(stream') = l + z /\ l + z \in Nat
      /\ \A k \in 1..l : stream'[k] = stream[k]
      /\ \A k \in 1..z : stream'[l + k] = <<m, k>>
  <2>1. FrameTypeOK /\ z \in 3..4
    BY Sizes DEF FInv, Header
  <2>2. FrameTypeOK'
    BY <2>1, SentBytes DEF FrameTypeOK
  <2>3. /\ Len(stream') = l + z
        /\ \A k \in 1..l : stream'[k] = stream[k]
        /\ \A k \in 1..z : stream'[l + k] = <<m, k>>
    BY <2>1, SentBytes, FrameBytes
  <2>4. stream \in Seq(Byte) /\ stream' \in Seq(Byte)
    BY <2>1, <2>2 DEF FrameTypeOK, stream
  <2>5. QED BY <2>1, <2>3, <2>4
<1>2. FrameTypeOK'
  BY SentBytes DEF FInv, FrameTypeOK
<1> HIDE DEF l
<1>3. \A k \in 1..((l + z) - 1) :
        \/ k \in 1..(l - 1) /\ k \in 1..l /\ k + 1 \in 1..l
        \/ k = l /\ l \in 1..l /\ 1 \in 1..z
        \/ /\ k - l \in 1..(z - 1) /\ k - l \in 1..z /\ (k - l) + 1 \in 1..z
           /\ k = l + (k - l) /\ k + 1 = l + ((k - l) + 1)
  BY <1>1
<1>4. l # 0 => stream # <<>> /\ stream' # <<>> /\ 1 \in 1..l /\ l \in 1..l
  BY <1>1 DEF l
<1>5. FramesIntact'
  <2>1. CASE l = 0
    <3>1. stream = <<>> /\ haveEnough = 0
      BY <1>1, <2>1 DEF l, Whole
    <3>2. 1 \in 1..z /\ stream'[0 + 1] = <<m, 1>>
      BY <1>1, <2>1
    <3>3. stream'[1][2] = 1
      BY <3>2
    <3>4. QED BY <3>1, <3>3 DEF FramesIntact
  <2>2. CASE l # 0
    <3>1. stream'[1] = stream[1] /\ stream # <<>>
      BY <1>1, <1>4, <2>2
    <3>2. QED BY <3>1 DEF FInv, FramesIntact
  <2>3. QED BY <2>1, <2>2
<1>6. ASSUME NEW k \in 1..((l + z) - 1)
      PROVE  IF IsLast(stream'[k]) THEN stream'[k + 1][2] = 1
             ELSE stream'[k + 1] = <<stream'[k][1], stream'[k][2] + 1>>
  <2>1. CASE k \in 1..(l - 1) /\ k \in 1..l /\ k + 1 \in 1..l
    <3>1. stream'[k] = stream[k] /\ stream'[k + 1] = stream[k + 1]
      BY <1>1, <2>1
    <3>2. QED BY <2>1, <3>1 DEF FInv, FrameOrder, l
  <2>2. CASE k = l /\ l \in 1..l /\ 1 \in 1..z
    <3>1. stream'[k] = stream[l] /\ stream'[k + 1] = <<m, 1>>
      BY <1>1, <2>2
    <3>2. IsLast(stream[l])
      BY <1>1, <1>4, <2>2 DEF Whole, l
    <3>3. QED BY <3>1, <3>2
  <2>3. CASE /\ k - l \in 1..(z - 1) /\ k - l \in 1..z /\ (k - l) + 1 \in 1..z
             /\ k = l + (k - l) /\ k + 1 = l + ((k - l) + 1)
    <3>1. stream'[k] = <<m, k - l>> /\ stream'[k + 1] = <<m, (k - l) + 1>>
      BY <1>1, <2>3
    <3>2. k - l # z
      BY <1>1, <2>3
    <3>3. ~IsLast(stream'[k])
      BY <3>1, <3>2 DEF IsLast, z
    <3>4. QED BY <3>1, <3>3
  <2>4. QED BY <1>3, <2>1, <2>2, <2>3
<1>7. FrameOrder'
  BY <1>1, <1>6 DEF FrameOrder, IsLast
<1>8. Whole'
  <2>1. z \in 1..z
    BY <1>1
  <2>2. stream'[l + z] = <<m, z>> /\ Len(stream') = l + z
    BY <1>1, <2>1
  <2>3. IsLast(stream'[Len(stream')])
    BY <2>2 DEF IsLast, z
  <2>4. stream' # <<>>
    BY <1>1, <2>2
  <2>5. QED BY <2>3, <2>4 DEF Whole, IsLast
<1>9. \A k \in 1..(l + z) : \/ k \in 1..l
                            \/ k - l \in 1..z /\ k = l + (k - l)
  BY <1>1
<1>10. \A k \in 1..(l + z) :
         stream'[k][1] = m \/ (k \in 1..l /\ stream'[k] = stream[k])
  BY <1>1, <1>9
<1>11. m = "ip" /\ NoReport => NoReport'
  BY <1>1, <1>10 DEF NoReport, l
<1>12. ASSUME Reported("good")', m # "good" PROVE Reported("good")
  BY <1>1, <1>10, <1>12 DEF Reported, l
<1>13. ASSUME NoReport PROVE OneReport'
  <2> SUFFICES ASSUME NEW k \in 1..((l + z) - 1), stream'[k + 1][2] = 1
               PROVE  stream'[k][1] = "ip"
    BY <1>1 DEF OneReport
  <2>1. CASE k \in 1..l
    BY <1>1, <1>13, <2>1 DEF NoReport, l
  <2>2. CASE /\ k - l \in 1..(z - 1) /\ (k - l) + 1 \in 1..z
             /\ k + 1 = l + ((k - l) + 1)
    <3>1. stream'[k + 1] = <<m, (k - l) + 1>>
      BY <1>1, <2>2
    <3>2. (k - l) + 1 # 1
      BY <1>1, <2>2
    <3>3. QED BY <3>1, <3>2
  <2>3. QED BY <1>3, <2>1, <2>2
<1>14. QED
  BY <1>2, <1>5, <1>7, <1>8, <1>11, <1>12, <1>13 DEF FInv

\* Bytes that arrive keep the frames.
LEMMA DataFrames ==
  ASSUME FInv, Data
  PROVE  /\ FInv' /\ (Whole => Whole') /\ (NoReport => NoReport')
         /\ OneReport => OneReport'
         /\ Reported("good")' => Reported("good")
BY DataStep
DEF FInv, FramesIntact, FrameOrder, Whole, NoReport, OneReport, Reported, IsLast

\* A wire that is cut leaves the row of frames before the cut.
LEMMA CutFrames ==
  ASSUME FInv, wire' = <<>>, UNCHANGED <<buf, haveEnough, parsing>>
  PROVE  FInv'
<1>1. FrameTypeOK /\ FrameTypeOK' /\ Part(stream', stream, 0)
  BY CutStep DEF FInv
<1>2. FrameOrder'
  BY <1>1, PartBytes DEF FInv
<1>3. stream' # <<>> => stream # <<>> /\ stream'[1] = stream[1]
  <2>1. stream' \in Seq(Byte) /\ stream \in Seq(Byte) /\ 0 + 1 = 1
    BY <1>1 DEF FrameTypeOK, stream
  <2>2. QED BY <1>1, <2>1 DEF Part
<1>4. FramesIntact'
  BY <1>3 DEF FInv, FramesIntact
<1>5. QED BY <1>1, <1>2, <1>4 DEF FInv
---------------------------------------------------------------------------
(* The constants: what is armed is neither off nor due, and the outgoing UDP
   test is the last. *)
LEMMA Delays ==
  /\ Off \in Nat /\ 0 \in 0..Off /\ Off \in 0..Off /\ Off # 0
  /\ \A n \in {ConnectDelay, TestDelay, SendDelay} : n \in 0..Off /\ n # Off
  /\ \A n \in 0..Off : n # 0 => Less(n, Off) \in 0..Off
  /\ \A n \in 0..Off : n # 0 /\ n # Off => Less(n, Off) # Off
BY PortAssumption DEF Off, Less

\* There is a last test, and each test has a kind.
LEMMA Tests ==
  /\ LastTest \in Nat /\ 1 \in 0..LastTest /\ 0 \in 0..LastTest /\ Kind(1) = "tcp"
  /\ \A i \in 0..LastTest :
       /\ Kind(i) \in {"tcp", "udp in", "udp out"}
       /\ Kind(i) = "udp out" => i = LastTest
       /\ i < LastTest => i + 1 \in 0..LastTest /\ i + 1 # 0
BY PortAssumption DEF LastTest, Kind

\* A test that starts arms a timer or an interval with its delay.
LEMMA StartTestTypes ==
  ASSUME ResultTypeOK, NEW i \in 0..LastTest, startTest(i)
  PROVE  /\ test' \in 0..LastTest /\ port' \in {"fine", "closed", "used"}
         /\ handler' \in {"none", "test", "inuse"} /\ timer' \in 0..Off
         /\ sending' \in BOOLEAN /\ owed' \in BOOLEAN
         /\ verdict' \in {"none", "good", "bad", "unknown", "inuse"}
         /\ flawed' \in BOOLEAN
BY Delays DEF ResultTypeOK, startTest

(* What watches a start has its types, the status apart. *)
WatchOnly ==
  /\ background \in BOOLEAN /\ stage \in Stage
  /\ child \in {"none", "up", "ended", "closed"}
  /\ pollTimer \in 0..NoPoll
  /\ waited \in 0..(RpcLimit + 1) /\ diff \in 0..(RpcLimit + 1)
  /\ outcome \in Outcome

LEMMA WatchTypes == WatchTypeOK <=> StatusTypeOK /\ WatchOnly
BY DEF WatchTypeOK, WatchOnly

\* A start that goes on in this process, or forks.
LEMMA StartTypes ==
  ASSUME WatchOnly, doStart
  PROVE  WatchOnly'
<1>1. 1 \in 0..NoPoll /\ 0 \in 0..(RpcLimit + 1)
  BY WatchAssumption DEF NoPoll
<1>2. QED BY <1>1 DEF WatchOnly, doStart, Stage

\* process.exit keeps the types.
LEMMA ExitTypes ==
  ASSUME WatchOnly, NEW why \in Outcome, exit(why),
         UNCHANGED <<background, pollTimer, waited, diff>>,
         child' \in {"none", "up", "ended", "closed"}
  PROVE  WatchOnly'
BY DEF WatchOnly, exit, Stage

\* What follows a test's result keeps the types.
LEMMA ConcludeTypes ==
  ASSUME WatchOnly, ClientTypeOK, ResultTypeOK, NEW r, conclude(r)
  PROVE  /\ WatchOnly' /\ ResultTypeOK'
         /\ conn' \in [Server -> {"untried", "pending", "open", "closed"}]
         /\ shutdownFinal' \in BOOLEAN
         /\ wire' = wire \/ wire' = <<>>
<1>1. CASE /\ r = "good" /\ test < LastTest /\ startTest(test + 1)
           /\ UNCHANGED <<watchVars, wire, conn, shutdownFinal, verified>>
  <2>1. test + 1 \in 0..LastTest
    BY <1>1, Tests DEF ResultTypeOK
  <2>2. ResultTypeOK'
    BY <1>1, <2>1, StartTestTypes DEF ResultTypeOK
  <2>3. QED BY <1>1, <2>2 DEF watchVars, WatchOnly, ClientTypeOK
<1>2. CASE /\ handler' = "none" /\ timer' = Off /\ sending' = FALSE
           /\ owed' = FALSE /\ verdict' = "none"
           /\ GoOn(TRUE) \/ GoOn(FALSE)
  <2>1. WatchOnly'
    BY <1>2, StartTypes DEF GoOn
  <2>2. QED
    BY <1>2, <2>1, Delays, Tests DEF GoOn, disconnect, ResultTypeOK, ClientTypeOK
<1>3. CASE /\ handler' = "none" /\ timer' = Off /\ sending' = FALSE
           /\ owed' = FALSE /\ verdict' = "none"
           /\ exit("not verified")
           /\ UNCHANGED <<background, child, pollTimer, waited, diff, wire, conn,
                          shutdownFinal, test, port, flawed, verified>>
  <2>1. WatchOnly'
    BY <1>3, ExitTypes DEF WatchOnly, Outcome
  <2>2. QED
    BY <1>3, <2>1, Delays DEF ResultTypeOK, ClientTypeOK
<1>4. QED BY <1>1, <1>2, <1>3 DEF conclude

\* A message is received by the handler of the moment.
LEMMA RecvTypes ==
  ASSUME WatchOnly, ClientTypeOK, ResultTypeOK, NEW m \in Message, recv(m)
  PROVE  /\ WatchOnly' /\ ResultTypeOK'
         /\ conn' \in [Server -> {"untried", "pending", "open", "closed"}]
         /\ shutdownFinal' \in BOOLEAN
         /\ wire' = wire \/ wire' = <<>>
<1>1. CASE \E r : conclude(r)
  BY <1>1, ConcludeTypes
<1>2. CASE /\ timer' \in {timer, Off} /\ sending' \in {sending, FALSE}
           /\ handler' \in {handler, "none"} /\ owed' = owed
           /\ verdict' = verdict \/ (m # "ip" /\ verdict' = m)
           /\ UNCHANGED <<watchVars, wire, conn, shutdownFinal, test, port, flawed, verified>>
  <2>1. verdict' \in {"none", "good", "bad", "unknown", "inuse"}
    BY <1>2, Sizes DEF ResultTypeOK
  <2>2. /\ timer' \in 0..Off /\ sending' \in BOOLEAN
        /\ handler' \in {"none", "test", "inuse"}
    BY <1>2, Delays DEF ResultTypeOK
  <2>3. ResultTypeOK'
    BY <1>2, <2>1, <2>2 DEF ResultTypeOK
  <2>4. QED BY <1>2, <2>3 DEF watchVars, WatchOnly, ClientTypeOK
<1>3. QED BY <1>1, <1>2 DEF recv, Settled

\* The steps of the status check.
LEMMA StatusTypes ==
  ASSUME StatusTypeOK,
         \/ UNCHANGED statusVars
         \/ Judge
         \/ \E running \in SUBSET Process, e \in BOOLEAN : getLauncherStatus(running, e)
         \/ StatusProbe
         \/ late' = (status = "asked") /\ UNCHANGED <<status, seen, rpc, storageRpc, socketWorks>>
  PROVE  StatusTypeOK'
<1> USE DEF StatusTypeOK, Probe
<1>1. CASE UNCHANGED statusVars
  BY <1>1 DEF statusVars
<1>2. CASE Judge
  BY <1>2 DEF Judge, forget
<1>3. ASSUME NEW running \in SUBSET Process, NEW e \in BOOLEAN,
             getLauncherStatus(running, e)
      PROVE  StatusTypeOK'
  BY <1>3 DEF getLauncherStatus, AskIf
<1>4. CASE StatusProbe
  BY <1>4 DEF StatusProbe, RpcAnswers, RpcTimesOut, StorageAnswers, StorageTimesOut,
              SocketAnswers, checkDone
<1>5. CASE late' = (status = "asked") /\ UNCHANGED <<status, seen, rpc, storageRpc, socketWorks>>
  BY <1>5
<1>6. QED BY <1>1, <1>2, <1>3, <1>4, <1>5

LEMMA JudgeTypes == WatchOnly /\ Judge => WatchOnly'
<1> SUFFICES ASSUME WatchOnly, Judge PROVE WatchOnly'
  OBVIOUS
<1>1. 1 \in 0..NoPoll /\ 0 \in 0..(RpcLimit + 1)
  BY WatchAssumption DEF NoPoll
<1>2. /\ stage' \in Stage /\ outcome' \in Outcome /\ pollTimer' \in 0..NoPoll
  BY <1>1 DEF Judge, judge, GiveUpAfter, exit, WatchOnly, Stage, Outcome
<1>3. QED BY <1>1, <1>2 DEF Judge, WatchOnly

LEMMA WatchStepTypes == WatchOnly /\ Watch => WatchOnly'
<1> SUFFICES ASSUME WatchOnly, Watch PROVE WatchOnly'
  OBVIOUS
<1>1. NoPoll \in 0..NoPoll
  BY DEF NoPoll
<1>2. QED
  BY <1>1 DEF Watch, ChildEnds, crashHandler, exit, areWeRunningYet, StatusProbe, watchVars,
              WatchOnly, Stage, Outcome

\* Time passes only where nothing is due, so that no timer goes below zero.
LEMMA TickTypes ==
  WatchOnly /\ ClientTypeOK /\ ResultTypeOK /\ Tick
    => WatchOnly' /\ ClientTypeOK' /\ ResultTypeOK'
<1> SUFFICES ASSUME WatchOnly, ClientTypeOK, ResultTypeOK, Tick
             PROVE  WatchOnly' /\ ClientTypeOK' /\ ResultTypeOK'
  OBVIOUS
<1>1. connectTimer # 0 /\ timer # 0 /\ pollTimer # 0
  BY DEF Tick, Urgent, WatchUrgent
<1>2. connectTimer' \in 0..Off /\ timer' \in 0..Off
  BY <1>1, Delays DEF Tick, ClientTypeOK, ResultTypeOK
<1>3. pollTimer' \in 0..NoPoll /\ waited' \in 0..(RpcLimit + 1)
  BY <1>1, WatchAssumption DEF Tick, WatchOnly, NoPoll, Less
<1>4. QED BY <1>2, <1>3 DEF Tick, WatchOnly, ClientTypeOK, ResultTypeOK

(* The actions, for the proofs that take them one by one. *)
LEMMA NextCases ==
  ASSUME Next
  PROVE  \/ Received \/ Verdict \/ Watch \/ Tick
         \/ Skip \/ Resolve \/ ResolveFails \/ Resolved \/ Connects \/ ConnectTimesOut
         \/ \E s \in Server : ConnectsLate(s) \/ Refused(s) \/ ServerDisconnects(s)
         \/ Arrives \/ ServerReports \/ ServerClosed \/ TestTimesOut \/ PacketArrives
BY DEF Next, Verification

\* What is taken off the stream is a message.
LEMMA PacketType ==
  ASSUME FInv, TakePacket
  PROVE  Packet \in Message
<1>1. Unread \in Seq(Byte) /\ Len(Unread) >= 1
  BY UnreadBytes DEF FInv, TakePacket, Complete
<1>2. Unread[1] \in Byte
  BY <1>1
<1>3. QED BY <1>2, Bytes DEF Packet

\* Every step keeps the row of frames.
LEMMA StreamStep == PInv /\ [Next]_vars => FInv'
<1> SUFFICES ASSUME PInv, [Next]_vars PROVE FInv'
  OBVIOUS
<1>1. FInv /\ ClientTypeOK /\ ResultTypeOK /\ WatchOnly
  BY WatchTypes DEF PInv, TypeOK
<1>2. ASSUME UNCHANGED frameVars PROVE FInv'
  BY <1>1, <1>2
  DEF FInv, FrameTypeOK, FramesIntact, FrameOrder, frameVars, stream, IsLast
<1>3. ASSUME UNCHANGED <<buf, haveEnough, parsing>>, wire' = wire \/ wire' = <<>>
      PROVE  FInv'
  BY <1>1, <1>2, <1>3, CutFrames DEF frameVars
<1>4. CASE Received
  <2>1. CASE TakePacket /\ recv(Packet)
    <3>1. Packet \in Message
      BY <1>1, <2>1, PacketType
    <3>2. wire' = wire \/ wire' = <<>>
      BY <1>1, <2>1, <3>1, RecvTypes
    <3>3. QED BY <1>1, <2>1, <3>2, TakeFrames
  <2>2. CASE AwaitData
    BY <1>1, <2>2, AwaitFrames
  <2>3. QED BY <1>4, <2>1, <2>2 DEF Received
<1>5. CASE Verdict \/ Watch \/ Tick \/ Skip \/ Resolve \/ ResolveFails \/ Resolved
           \/ ConnectTimesOut \/ PacketArrives
           \/ \E s \in Server : ConnectsLate(s) \/ Refused(s) \/ ServerDisconnects(s)
  BY <1>2, <1>5
  DEF Verdict, Watch, Tick, Skip, Resolve, ResolveFails, Resolved, ConnectTimesOut,
      PacketArrives, ConnectsLate, Refused, ServerDisconnects
<1>6. CASE Connects
  <2>1. Whole /\ "ip" \in Message
    BY <1>6, Sizes DEF PInv, OutsideTests, Connects, Whole
  <2>2. QED BY <1>1, <1>6, <2>1, SentFrames DEF Connects
<1>7. CASE Arrives
  BY <1>1, <1>7, DataFrames DEF Arrives
<1>8. CASE ServerReports
  <2>1. Whole
    BY <1>8 DEF PInv, ServerReports, ReportsOwed
  <2>2. PICK m \in {"good", "bad"} : send(m)
    BY <1>8 DEF ServerReports
  <2>3. m \in Message
    BY Sizes
  <2>4. QED BY <1>1, <1>8, <2>1, <2>2, <2>3, SentFrames DEF ServerReports
<1>9. CASE ServerClosed
  BY <1>1, <1>3, <1>9, ConcludeTypes DEF ServerClosed
<1>10. CASE TestTimesOut
  BY <1>1, <1>3, <1>10, ConcludeTypes DEF TestTimesOut
<1>11. CASE UNCHANGED vars
  BY <1>2, <1>11 DEF vars
<1>12. QED
  BY <1>4, <1>5, <1>6, <1>7, <1>8, <1>9, <1>10, <1>11, NextCases

\* An attempt to connect keeps the types.
LEMMA ConnectTypes ==
  ASSUME ClientTypeOK, NEW servers \in SUBSET Server, tryAndConnect(servers)
  PROVE  /\ addresses' \subseteq Server /\ current' \in Server \cup {NoServer}
         /\ conn' \in [Server -> {"untried", "pending", "open", "closed"}]
         /\ connectTimer' \in 0..Off /\ shutdownFinal' \in BOOLEAN
BY Delays DEF ClientTypeOK, tryAndConnect

\* Every step keeps the types.
LEMMA TypeStep == PInv /\ [Next]_vars => TypeOK'
<1> SUFFICES ASSUME PInv, [Next]_vars PROVE TypeOK'
  OBVIOUS
<1>1. FInv /\ ClientTypeOK /\ ResultTypeOK /\ WatchOnly /\ StatusTypeOK
  BY WatchTypes DEF PInv, TypeOK
<1>2. FrameTypeOK'
  BY StreamStep DEF FInv
<1>3. StatusTypeOK'
  <2>1. \/ UNCHANGED statusVars
        \/ Judge
        \/ \E running \in SUBSET Process, e \in BOOLEAN : getLauncherStatus(running, e)
        \/ StatusProbe
        \/ late' = (status = "asked") /\ UNCHANGED <<status, seen, rpc, storageRpc, socketWorks>>
    BY NextCases
    DEF vars, Received, Verdict, Watch, ChildEnds, crashHandler, areWeRunningYet, Tick,
        Skip, Resolve, ResolveFails, Resolved, Connects, ConnectTimesOut, ConnectsLate,
        Refused, ServerDisconnects, Arrives, ServerReports, ServerClosed, TestTimesOut,
        PacketArrives
  <2>2. QED BY <1>1, <2>1, StatusTypes
<1> DEFINE Rest == WatchOnly' /\ ClientTypeOK' /\ ResultTypeOK'
<1> SUFFICES Rest
  BY <1>2, <1>3 DEF TypeOK, WatchTypeOK, StatusTypeOK, WatchOnly
<1>4. UNCHANGED watchVars => WatchOnly'
  BY <1>1 DEF watchVars, WatchOnly
<1>5. UNCHANGED <<ignore, clientVars>> => ClientTypeOK'
  BY <1>1 DEF clientVars, ClientTypeOK
<1>6. UNCHANGED resultVars => ResultTypeOK'
  BY <1>1 DEF resultVars, ResultTypeOK
<1>7. /\ UNCHANGED <<ignore, addresses, current, connectTimer>>
      /\ conn' \in [Server -> {"untried", "pending", "open", "closed"}]
      /\ shutdownFinal' \in BOOLEAN
      => ClientTypeOK'
  BY <1>1 DEF ClientTypeOK
<1>8. CASE Received
  <2>1. CASE /\ TakePacket /\ recv(Packet)
             /\ UNCHANGED <<statusVars, ignore, addresses, current, connectTimer>>
    <3>1. Packet \in Message
      BY <1>1, <2>1, PacketType
    <3>2. /\ WatchOnly' /\ ResultTypeOK' /\ shutdownFinal' \in BOOLEAN
          /\ conn' \in [Server -> {"untried", "pending", "open", "closed"}]
      BY <1>1, <2>1, <3>1, RecvTypes
    <3>3. QED BY <1>7, <2>1, <3>2
  <2>2. CASE AwaitData /\ UNCHANGED <<watchVars, statusVars, ignore, clientVars, resultVars>>
    BY <1>4, <1>5, <1>6, <2>2
  <2>3. QED BY <1>8, <2>1, <2>2 DEF Received
<1>9. CASE Verdict
  BY <1>1, <1>5, <1>6, <1>9, JudgeTypes DEF Verdict
<1>10. CASE Watch
  BY <1>1, <1>5, <1>6, <1>10, WatchStepTypes DEF Watch
<1>11. CASE Tick
  BY <1>1, <1>11, TickTypes
<1>12. CASE Skip
  BY <1>1, <1>5, <1>6, <1>12, StartTypes DEF Skip
<1>13. CASE Resolve \/ ResolveFails
  <2>1. WatchOnly'
    BY <1>1, <1>13 DEF Resolve, ResolveFails, WatchOnly, Stage
  <2>2. QED BY <1>5, <1>6, <1>13, <2>1 DEF Resolve, ResolveFails
<1>14. CASE Resolved
  <2>1. WatchOnly'
    BY <1>1, <1>14 DEF Resolved, WatchOnly, Stage
  <2>2. ClientTypeOK'
    BY <1>1, <1>14, ConnectTypes DEF Resolved, ClientTypeOK
  <2>3. QED BY <1>6, <1>14, <2>1, <2>2 DEF Resolved
<1>15. CASE Connects
  <2>1. WatchOnly'
    BY <1>1, <1>15 DEF Connects, WatchOnly, Stage
  <2>2. ClientTypeOK'
    BY <1>1, <1>15, Delays DEF Connects, ClientTypeOK
  <2>3. ResultTypeOK'
    BY <1>1, <1>15, Tests, StartTestTypes DEF Connects, ResultTypeOK
  <2>4. QED BY <2>1, <2>2, <2>3
<1>16. CASE ConnectTimesOut
  <2>1. CASE addresses = {}
    <3>1. WatchOnly'
      BY <1>1, <1>16, <2>1, StartTypes DEF ConnectTimesOut
    <3>2. ClientTypeOK'
      BY <1>1, <1>16, <2>1, Delays DEF ConnectTimesOut, ClientTypeOK
    <3>3. QED BY <1>6, <1>16, <3>1, <3>2 DEF ConnectTimesOut
  <2>2. CASE addresses # {}
    <3>1. tryAndConnect(addresses) /\ addresses \in SUBSET Server
      BY <1>1, <1>16, <2>2 DEF ConnectTimesOut, ClientTypeOK
    <3>2. ClientTypeOK'
      BY <1>1, <1>16, <3>1, ConnectTypes DEF ConnectTimesOut, ClientTypeOK
    <3>3. QED BY <1>4, <1>6, <1>16, <2>2, <3>2 DEF ConnectTimesOut
  <2>3. QED BY <2>1, <2>2
<1>17. ASSUME NEW s \in Server, ConnectsLate(s) \/ Refused(s)
       PROVE  Rest
  <2>1. ClientTypeOK'
    BY <1>1, <1>17 DEF ConnectsLate, Refused, ClientTypeOK
  <2>2. QED BY <1>4, <1>6, <1>17, <2>1 DEF ConnectsLate, Refused
<1>18. ASSUME NEW s \in Server, ServerDisconnects(s)
       PROVE  Rest
  <2>1. ClientTypeOK' /\ ResultTypeOK'
    BY <1>1, <1>18, Delays DEF ServerDisconnects, ClientTypeOK, ResultTypeOK
  <2>2. WatchOnly'
    <3>1. CASE shutdownFinal
      BY <1>4, <1>18, <3>1 DEF ServerDisconnects
    <3>2. CASE ~shutdownFinal
      BY <1>1, <1>18, <3>2, ExitTypes DEF ServerDisconnects, WatchOnly, Outcome
    <3>3. QED BY <3>1, <3>2
  <2>3. QED BY <2>1, <2>2
<1>19. CASE Arrives
  BY <1>4, <1>5, <1>6, <1>19 DEF Arrives
<1>20. CASE ServerReports
  BY <1>1, <1>4, <1>5, <1>20 DEF ServerReports, ResultTypeOK
<1>21. CASE ServerClosed
  BY <1>1, <1>7, <1>21, ConcludeTypes DEF ServerClosed
<1>22. CASE TestTimesOut
  <2>1. CASE conclude("unknown")
    BY <1>1, <1>7, <1>22, <2>1, ConcludeTypes DEF TestTimesOut
  <2>2. CASE ~(handler = "test" /\ Kind(test) = "udp out")
    <3>1. ResultTypeOK'
      BY <1>1, <1>22, <2>2, Delays DEF TestTimesOut, ResultTypeOK
    <3>2. UNCHANGED <<watchVars, conn, shutdownFinal>>
      BY <1>22, <2>2 DEF TestTimesOut
    <3>3. QED BY <1>1, <1>4, <1>7, <1>22, <3>1, <3>2 DEF TestTimesOut, ClientTypeOK
  <2>3. QED BY <1>22, <2>1, <2>2 DEF TestTimesOut
<1>23. CASE PacketArrives
  <2>1. ResultTypeOK'
    BY <1>1, <1>23, Delays DEF PacketArrives, Settled, ResultTypeOK
  <2>2. QED BY <1>4, <1>5, <1>23, <2>1 DEF PacketArrives
<1>24. CASE UNCHANGED vars
  BY <1>4, <1>5, <1>6, <1>24 DEF vars
<1>25. QED
  BY <1>8, <1>9, <1>10, <1>11, <1>12, <1>13, <1>14, <1>15, <1>16, <1>17, <1>18, <1>19,
     <1>20, <1>21, <1>22, <1>23, <1>24, NextCases
---------------------------------------------------------------------------
(* SuccessTruthful.  A step outside of the status check ends the process with
   another outcome than success, or not at all. *)
Going == stage # "exited" /\ outcome = "none" /\ child # "closed"
NoSuccess == Going' \/ (stage' = "exited" /\ outcome' # "success")

LEMMA ConcludeWatch == \A r : Going /\ conclude(r) => NoSuccess
BY DEF Going, NoSuccess, conclude, watchVars, GoOn, doStart, exit

LEMMA OtherStep ==
  ASSUME WatchInv, NoSuccess, UNCHANGED <<status, seen, rpc, storageRpc, socketWorks>>
  PROVE  WatchInv'
BY DEF WatchInv, SuccessTruthful, NoSuccess, Going

(* A status check that is under way knows what it waits for. *)
LEMMA ProbeStep ==
  ASSUME StatusTypeOK, WatchInv, Going, StatusProbe
  PROVE  WatchInv'
<1> USE DEF WatchInv, SuccessTruthful, Going, StatusTypeOK, Probe
<1>1. UNCHANGED watchVars /\ UNCHANGED seen /\ status = "asked"
  BY DEF StatusProbe, RpcAnswers, RpcTimesOut, StorageAnswers, StorageTimesOut,
         SocketAnswers
<1>2. CASE RpcAnswers \/ StorageAnswers \/ StorageTimesOut \/ SocketAnswers
  BY <1>1, <1>2 DEF watchVars, RpcAnswers, StorageAnswers, StorageTimesOut, SocketAnswers,
                    checkDone
<1>3. CASE RpcTimesOut
  BY <1>1, <1>3 DEF watchVars, RpcTimesOut
<1>4. QED BY <1>2, <1>3 DEF StatusProbe

(* The verdict of success needs every answer, and each question was asked. *)
LEMMA JudgeStep ==
  ASSUME StatusTypeOK, WatchInv, Going, Judge
  PROVE  WatchInv'
<1>1. PICK saved, syncing, network \in BOOLEAN : judge(saved, syncing, network)
  BY DEF Judge
<1>2. /\ status = "told" /\ status' = "idle" /\ UNCHANGED child
      /\ "asked" \notin {rpc, storageRpc, socketWorks} /\ rpc # "lost"
  BY DEF Judge, WatchInv
<1>3. CASE stage' = "exited" /\ outcome' = "success"
  <2>1. /\ {"launcher", "lokid"} \subseteq seen /\ rpc # "down"
        /\ StorageEnabled => "storage" \in seen
        /\ storageRpc # "down"
    BY <1>1, <1>3 DEF judge, exit, GiveUpAfter, Going
  <2>2. rpc = "up" /\ (StorageEnabled => storageRpc = "up")
    BY <1>2, <2>1 DEF WatchInv, StatusTypeOK, Probe
  <2>3. UNCHANGED <<seen, rpc, storageRpc, socketWorks>>
    BY <1>3 DEF Judge
  <2>4. QED BY <1>2, <1>3, <2>1, <2>2, <2>3 DEF WatchInv, SuccessTruthful, Going
<1>4. CASE stage' = "exited" /\ outcome' # "success"
  BY <1>2, <1>4 DEF Judge, WatchInv, SuccessTruthful
<1>5. CASE stage' # "exited"
  <2>1. outcome' = "none"
    BY <1>1, <1>5 DEF judge, exit, GiveUpAfter, Going
  <2>2. QED
    BY <1>2, <1>5, <2>1 DEF Judge, forget, WatchInv, SuccessTruthful, Going
<1>6. QED BY <1>3, <1>4, <1>5

\* Every step keeps what the status check knows.
LEMMA WatchStep == PInv /\ [Next]_vars => WatchInv'
<1> SUFFICES ASSUME PInv, [Next]_vars PROVE WatchInv'
  OBVIOUS
<1>1. WatchInv /\ StatusTypeOK
  BY DEF PInv, TypeOK, WatchTypeOK
<1>2. CASE UNCHANGED vars
  BY <1>1, <1>2 DEF vars, watchVars, statusVars, WatchInv, SuccessTruthful
<1>3. CASE Next
  <2>1. Going
    BY <1>1, <1>3 DEF Next, WatchInv, Going
  <2>2. CASE Verdict
    BY <1>1, <2>1, <2>2, JudgeStep DEF Verdict
  <2>3. CASE Watch
    <3>1. CASE StatusProbe
      BY <1>1, <2>1, <3>1, ProbeStep
    <3>2. CASE ChildEnds \/ crashHandler
      <4>1. NoSuccess /\ UNCHANGED statusVars
        BY <2>1, <3>2 DEF ChildEnds, crashHandler, exit, NoSuccess, Going
      <4>2. QED BY <1>1, <4>1, OtherStep DEF statusVars
    <3>3. CASE areWeRunningYet
      BY <1>1, <2>1, <3>3
      DEF areWeRunningYet, getLauncherStatus, AskIf, WatchInv, SuccessTruthful, Going
    <3>4. QED BY <2>3, <3>1, <3>2, <3>3 DEF Watch
  <2>4. CASE UNCHANGED watchVars /\ UNCHANGED <<status, seen, rpc, storageRpc, socketWorks>>
    BY <1>1, <2>1, <2>4, OtherStep DEF watchVars, NoSuccess, Going
  <2>5. CASE Tick
    BY <1>1, <2>1, <2>5, OtherStep DEF Tick, NoSuccess, Going
  <2>6. CASE Received
    <3>1. UNCHANGED statusVars
      BY <2>6 DEF Received
    <3>2. NoSuccess
      BY <2>1, <2>6, ConcludeWatch DEF Received, recv, watchVars, NoSuccess, Going
    <3>3. QED BY <1>1, <3>1, <3>2, OtherStep DEF statusVars
  <2>7. CASE Skip \/ Resolve \/ ResolveFails \/ Resolved \/ Connects \/ ConnectTimesOut
             \/ \E s \in Server : ServerDisconnects(s)
    <3>1. NoSuccess /\ UNCHANGED statusVars
      BY <2>1, <2>7
      DEF Skip, Resolve, ResolveFails, Resolved, Connects, ConnectTimesOut,
          ServerDisconnects, doStart, exit, watchVars, NoSuccess, Going
    <3>2. QED BY <1>1, <3>1, OtherStep DEF statusVars
  <2>8. CASE ServerClosed \/ TestTimesOut
    <3>1. NoSuccess /\ UNCHANGED statusVars
      BY <2>1, <2>8, ConcludeWatch
      DEF ServerClosed, TestTimesOut, watchVars, NoSuccess, Going
    <3>2. QED BY <1>1, <3>1, OtherStep DEF statusVars
  <2>9. CASE \/ \E s \in Server : ConnectsLate(s) \/ Refused(s)
             \/ Arrives \/ ServerReports \/ PacketArrives
    BY <2>4, <2>9
    DEF ConnectsLate, Refused, Arrives, ServerReports, PacketArrives, statusVars
  <2>10. QED
    BY <1>3, <2>2, <2>3, <2>5, <2>6, <2>7, <2>8, <2>9, NextCases
<1>4. QED BY <1>2, <1>3
---------------------------------------------------------------------------
(* The tests. *)
TestsOK ==
  OutsideTests /\ NoStaleTimer /\ StartVerified /\ (stage = "testing" => ReportsOwed)

\* Nothing comes into the stream.
Shrinks ==
  /\ Whole => Whole'
  /\ NoReport => NoReport'
  /\ OneReport => OneReport'
  /\ Reported("good")' => Reported("good")
  /\ stream = <<>> /\ haveEnough = 0 => stream' = <<>> /\ haveEnough' = 0

\* A stream that is left alone has no more reports than before.
LEMMA SameStream == UNCHANGED <<stream, haveEnough>> => Shrinks
BY DEF Shrinks, Whole, NoReport, OneReport, Reported, IsLast

LEMMA SameFrames == UNCHANGED frameVars => Shrinks
BY SameStream DEF frameVars, stream

LEMMA NoneIsNotGood ==
  /\ NoReport => ~Reported("good")
  /\ NoReport' => ~Reported("good")'
BY DEF NoReport, Reported

\* A step that touches no test.
LEMMA KeepStep ==
  ASSUME TestsOK, Shrinks, UNCHANGED <<stage, connectTimer, resultVars>>
  PROVE  TestsOK'
BY DEF TestsOK, OutsideTests, NoStaleTimer, StartVerified, ReportsOwed, Shrinks,
       resultVars, Kind

\* After an exit nothing is claimed of the tests.
LEMMA ExitStep ==
  ASSUME TestsOK, stage' = "exited", UNCHANGED <<verified, flawed, test>>
  PROVE  TestsOK'
BY DEF TestsOK, OutsideTests, NoStaleTimer, StartVerified

\* A test that starts finds nothing of the last one.
LEMMA StartTestStep ==
  ASSUME NEW i \in 0..LastTest, i # 0, startTest(i), ~flawed, NoReport', Whole',
         stage' = "testing", ~verified', connectTimer' = Off
  PROVE  TestsOK'
<1>1. Kind(i) \in {"tcp", "udp in", "udp out"} /\ test' = i /\ Kind(test)' = Kind(i)
  BY Tests DEF startTest, Kind
<1>2. TestDelay # Off /\ SendDelay # Off
  BY Delays
<1>3. OutsideTests' /\ StartVerified'
  BY DEF OutsideTests, StartVerified
<1>4. NoStaleTimer'
  BY <1>1, <1>2 DEF startTest, NoStaleTimer
<1>5. ReportsOwed'
  BY <1>1, NoneIsNotGood DEF startTest, ReportsOwed
<1>6. QED BY <1>3, <1>4, <1>5 DEF TestsOK

(* A test whose result is told is over: the next one starts, if it was good,
   with a stream that holds no report of an earlier one. *)
LEMMA ConcludeStep ==
  ASSUME TestsOK, ResultTypeOK, stage = "testing", NEW r, conclude(r),
         UNCHANGED connectTimer,
         r = "good" => ~flawed,
         r = "good" /\ test < LastTest /\ wire' = wire => NoReport' /\ Whole'
  PROVE  TestsOK'
<1>1. ~verified /\ connectTimer = Off
  BY DEF TestsOK, OutsideTests
<1>2. CASE /\ r = "good" /\ test < LastTest /\ startTest(test + 1)
           /\ UNCHANGED <<watchVars, wire, conn, shutdownFinal, verified>>
  <2>1. test + 1 \in 0..LastTest /\ test + 1 # 0
    BY <1>2, Tests DEF ResultTypeOK
  <2>2. NoReport' /\ Whole' /\ stage' = "testing" /\ ~verified' /\ connectTimer' = Off
    BY <1>1, <1>2 DEF watchVars
  <2>3. QED BY <1>2, <2>1, <2>2, StartTestStep
<1>3. CASE /\ handler' = "none" /\ timer' = Off /\ sending' = FALSE
           /\ owed' = FALSE /\ verdict' = "none"
           /\ (r = "good" /\ test = LastTest /\ GoOn(TRUE)) \/ GoOn(FALSE)
  <2>1. stage' \in {"watching", "launched"}
    BY <1>3 DEF GoOn, doStart
  <2>2. verified' => ~flawed' /\ test' = LastTest
    <3>1. LastTest' = LastTest
      BY DEF LastTest
    <3>2. QED BY <1>3, <3>1 DEF GoOn
  <2>3. QED
    BY <1>1, <1>3, <2>1, <2>2
    DEF TestsOK, OutsideTests, NoStaleTimer, StartVerified
<1>4. CASE exit("not verified") /\ UNCHANGED <<verified, flawed, test>>
  BY <1>4, ExitStep DEF exit
<1>5. QED BY <1>2, <1>3, <1>4 DEF conclude

\* A report that is received is about the test under way.
LEMMA RecvStep ==
  ASSUME TestsOK, FInv, ResultTypeOK, stage # "exited", TakePacket, recv(Packet),
         UNCHANGED connectTimer
  PROVE  TestsOK'
<1> DEFINE m == Packet
<1>1. m \in Message /\ m \in {"ip", "good", "bad"}
  BY PacketType, Sizes
<1>2. ASSUME wire' = wire \/ wire' = <<>>
      PROVE  /\ NoReport => m = "ip" /\ NoReport'
             /\ m = "good" => Reported("good")
             /\ OneReport /\ m # "ip" => NoReport'
             /\ wire' = wire => Shrinks
  <2>1. stream = <<>> /\ haveEnough = 0 => FALSE
    <3>1. buf \in Seq(Byte) /\ wire \in Seq(Byte)
      BY DEF FInv, FrameTypeOK
    <3>2. stream = <<>> => Len(buf) = 0
      BY <3>1 DEF stream
    <3>3. QED
      BY <3>2 DEF TakePacket, Complete, Needed, AtHeader, Header
  <2>2. QED BY <1>2, <2>1, TakeFrames DEF Shrinks
<1>3. CASE m = "ip"
  <2>1. /\ wire' = wire
        /\ UNCHANGED <<stage, resultVars>>
    BY <1>3 DEF recv, watchVars, resultVars
  <2>2. QED BY <1>2, <2>1, KeepStep
<1>4. CASE m # "ip" /\ handler = "none"
  <2>1. /\ wire' = wire /\ timer' = Off /\ sending' = FALSE
        /\ UNCHANGED <<stage, test, port, handler, owed, verdict, flawed, verified>>
    BY <1>4 DEF recv, watchVars
  <2>2. Shrinks
    BY <1>2, <2>1
  <2>3. QED
    BY <1>4, <2>1, <2>2
    DEF TestsOK, OutsideTests, NoStaleTimer, StartVerified, ReportsOwed, Shrinks, Kind
<1>5. CASE m # "ip" /\ handler = "test" /\ Kind(test) # "udp out"
  <2>1. /\ wire' = wire /\ Settled /\ verdict' = m
        /\ UNCHANGED <<stage, test, port, flawed, verified>>
    BY <1>5 DEF recv, watchVars
  <2>2. Shrinks /\ stage = "testing" /\ ReportsOwed /\ Kind(test) = "tcp"
    <3>1. stage = "testing" /\ ReportsOwed
      BY <1>5 DEF TestsOK, OutsideTests
    <3>2. Kind(test) # "udp in"
      BY <1>2, <1>5, <2>1, <3>1 DEF ReportsOwed
    <3>3. QED BY <1>2, <1>5, <2>1, <3>1, <3>2, Tests DEF ResultTypeOK
  <2>3. ~owed /\ NoReport' /\ (m = "good" => port = "fine")
    BY <1>2, <1>5, <2>1, <2>2 DEF ReportsOwed, ResultTypeOK
  <2>4. Kind(test)' = "tcp" /\ ReportsOwed'
    BY <1>5, <2>1, <2>2, <2>3 DEF ReportsOwed, Shrinks, Settled, Kind
  <2>5. OutsideTests' /\ NoStaleTimer' /\ StartVerified'
    BY <2>1, <2>2 DEF TestsOK, OutsideTests, NoStaleTimer, StartVerified, Settled
  <2>6. QED BY <2>4, <2>5 DEF TestsOK
<1>6. CASE m # "ip" /\ handler = "test" /\ Kind(test) = "udp out"
  <2>1. conclude(m)
    BY <1>6 DEF recv
  <2>2. stage = "testing" /\ ReportsOwed /\ test = LastTest
    BY <1>6, Tests DEF TestsOK, OutsideTests, ResultTypeOK
  <2>3. m = "good" => ~flawed
    <3>1. wire' = wire \/ wire' = <<>>
      BY <2>1 DEF conclude, GoOn, disconnect
    <3>2. QED BY <1>2, <1>6, <2>2, <3>1 DEF ReportsOwed, ResultTypeOK
  <2>4. ~(test < LastTest)
    <3>1. LastTest \in Nat
      BY Tests
    <3>2. QED BY <2>2, <3>1
  <2>5. QED BY <2>1, <2>2, <2>3, <2>4, ConcludeStep
<1>7. CASE m # "ip" /\ handler = "inuse"
  <2>1. conclude("inuse") /\ stage = "testing"
    BY <1>7 DEF recv, TestsOK, OutsideTests
  <2>2. QED BY <2>1, ConcludeStep
<1>8. QED BY <1>3, <1>4, <1>5, <1>6, <1>7 DEF ResultTypeOK

(* A server that reports was asked to, or got a packet of the last test. *)
LEMMA ReportStep ==
  ASSUME TestsOK, FInv, ResultTypeOK, ServerReports
  PROVE  TestsOK'
<1>1. /\ stage = "testing" /\ ReportsOwed /\ Whole /\ NoStaleTimer
      /\ UNCHANGED <<stage, connectTimer, test, port, handler, timer, sending, verdict,
                     flawed, verified, buf, haveEnough, parsing>>
  BY DEF ServerReports, watchVars, clientVars, TestsOK, ReportsOwed
<1>2. PICK m \in {"good", "bad"} : (m = "good" => port # "closed") /\ send(m)
  BY DEF ServerReports
<1>3. /\ Whole' /\ (NoReport => OneReport')
      /\ Reported("good")' => Reported("good") \/ m = "good"
  BY <1>1, <1>2, Sizes, SentFrames
<1>4. Kind(test)' = Kind(test) /\ Kind(test) \in {"tcp", "udp in", "udp out"}
  BY <1>1, Tests DEF Kind, ResultTypeOK
<1>5. ReportsOwed'
  <2>1. CASE owed /\ owed' = FALSE
    BY <1>1, <1>2, <1>3, <1>4, <2>1 DEF ReportsOwed
  <2>2. CASE sending /\ Kind(test) = "udp out" /\ UNCHANGED owed
    BY <1>1, <1>2, <1>3, <1>4, <2>2 DEF ReportsOwed, NoStaleTimer
  <2>3. QED BY <2>1, <2>2 DEF ServerReports
<1>6. OutsideTests' /\ NoStaleTimer' /\ StartVerified'
  BY <1>1, <1>4
  DEF TestsOK, OutsideTests, NoStaleTimer, StartVerified, LastTest
<1>7. QED BY <1>5, <1>6 DEF TestsOK

\* Every step keeps what is known of the tests.
LEMMA TestsStep == PInv /\ [Next]_vars => TestsOK'
<1> SUFFICES ASSUME PInv, [Next]_vars PROVE TestsOK'
  OBVIOUS
<1>1. TestsOK /\ FInv /\ ResultTypeOK /\ ClientTypeOK
  BY DEF PInv, TypeOK, TestsOK
<1>2. CASE UNCHANGED vars
  BY <1>1, <1>2, SameFrames, KeepStep DEF vars, watchVars, clientVars
<1>3. CASE Next
  <2>1. stage # "exited"
    BY <1>3 DEF Next
  <2>2. CASE Received
    <3>1. CASE TakePacket /\ recv(Packet) /\ UNCHANGED connectTimer
      BY <1>1, <2>1, <3>1, RecvStep
    <3>2. CASE AwaitData /\ UNCHANGED <<watchVars, clientVars, resultVars>>
      <4>1. stream = <<>> /\ haveEnough = 0 => stream' = <<>> /\ haveEnough' = 0
        <5> SUFFICES ASSUME stream = <<>>, haveEnough = 0
                     PROVE  stream' = <<>> /\ haveEnough' = 0
          OBVIOUS
        <5>1. buf \in Seq(Byte) /\ wire \in Seq(Byte)
          BY <1>1 DEF FInv, FrameTypeOK
        <5>2. Len(buf) = 0
          BY <5>1 DEF stream
        <5>3. ~AtHeader
          BY <5>2 DEF AtHeader, Header
        <5>4. QED BY <3>2, <5>3 DEF AwaitData, Needed, Unread, stream
      <4>2. Shrinks
        BY <1>1, <3>2, <4>1, AwaitFrames DEF Shrinks
      <4>3. QED BY <1>1, <3>2, <4>2, KeepStep DEF watchVars, clientVars
    <3>3. QED BY <2>2, <3>1, <3>2 DEF Received
  <2>3. CASE Verdict \/ Watch
    <3>1. UNCHANGED <<frameVars, ignore, clientVars, resultVars>>
      BY <2>3 DEF Verdict, Watch
    <3>2. stage' = stage \/ stage' = "exited"
      BY <2>3
      DEF Verdict, Watch, Judge, judge, GiveUpAfter, exit, ChildEnds, crashHandler,
          areWeRunningYet, StatusProbe, watchVars
    <3>3. QED
      BY <1>1, <3>1, <3>2, SameFrames, KeepStep, ExitStep DEF clientVars, resultVars
  <2>4. CASE Tick
    <3>1. connectTimer # 0 /\ timer # 0
      BY <2>4 DEF Tick, Urgent
    <3>2. /\ connectTimer = Off => connectTimer' = Off
          /\ timer = Off <=> timer' = Off
      BY <1>1, <2>4, <3>1, Delays DEF Tick, Less, ClientTypeOK, ResultTypeOK
    <3>3. Shrinks
      BY <2>4, SameFrames DEF Tick
    <3>4. QED
      BY <1>1, <2>4, <3>2, <3>3
      DEF Tick, TestsOK, OutsideTests, NoStaleTimer, StartVerified, ReportsOwed, Shrinks,
          Kind, LastTest
  <2>5. CASE Skip \/ Resolve \/ ResolveFails \/ Resolved
    <3>1. Shrinks
      BY <2>5, SameFrames DEF Skip, Resolve, ResolveFails, Resolved
    <3>2. /\ stage \in {"begin", "resolving"}
          /\ \/ stage' \in {"watching", "launched", "resolving", "stuck"}
                  /\ UNCHANGED connectTimer
             \/ stage' = "connecting"
          /\ UNCHANGED resultVars
      BY <2>5 DEF Skip, Resolve, ResolveFails, Resolved, doStart, clientVars
    <3>3. QED
      BY <1>1, <3>1, <3>2
      DEF TestsOK, OutsideTests, NoStaleTimer, StartVerified, Shrinks, resultVars
  <2>6. CASE Connects
    <3>1. stream = <<>> /\ haveEnough = 0 /\ ~flawed /\ ~verified
      BY <1>1, <2>6 DEF Connects, TestsOK, OutsideTests
    <3>2. Whole /\ NoReport
      BY <3>1 DEF Whole, NoReport
    <3>3. Whole' /\ NoReport'
      BY <1>1, <2>6, <3>2, Sizes, SentFrames DEF Connects
    <3>4. 1 \in 0..LastTest
      BY Tests, Zenon
    <3>5. 1 # 0
      OBVIOUS
    <3>6. QED BY <2>6, <3>1, <3>3, <3>4, <3>5, StartTestStep DEF Connects
  <2>7. CASE ConnectTimesOut
    <3>1. stage = "connecting"
      BY <1>1, <2>1, <2>7, Delays DEF ConnectTimesOut, TestsOK, OutsideTests
    <3>2. /\ UNCHANGED <<frameVars, resultVars>>
          /\ \/ stage' = "connecting"
             \/ stage' \in {"watching", "launched"} /\ connectTimer' = Off
      BY <2>7, <3>1 DEF ConnectTimesOut, doStart, watchVars
    <3>3. Shrinks
      BY <3>2, SameFrames
    <3>4. QED
      BY <1>1, <3>1, <3>2, <3>3
      DEF TestsOK, OutsideTests, NoStaleTimer, StartVerified, Shrinks, resultVars
  <2>8. ASSUME NEW s \in Server, ConnectsLate(s) \/ Refused(s) PROVE TestsOK'
    BY <1>1, <2>8, SameFrames, KeepStep DEF ConnectsLate, Refused, watchVars
  <2>9. ASSUME NEW s \in Server, ServerDisconnects(s) PROVE TestsOK'
    <3>1. CASE shutdownFinal
      BY <1>1, <2>9, <3>1, SameFrames, KeepStep DEF ServerDisconnects, watchVars, resultVars
    <3>2. CASE ~shutdownFinal
      BY <1>1, <2>9, <3>2, ExitStep DEF ServerDisconnects, exit
    <3>3. QED BY <3>1, <3>2
  <2>10. CASE Arrives
    <3>1. stream' = stream /\ haveEnough' = haveEnough
      BY <1>1, <2>10, DataStep DEF Arrives, FInv
    <3>2. QED BY <1>1, <2>10, <3>1, SameStream, KeepStep DEF Arrives, watchVars, clientVars
  <2>11. CASE ServerReports
    BY <1>1, <2>11, ReportStep
  <2>12. CASE ServerClosed
    <3>1. stage = "testing" /\ ReportsOwed
      BY <1>1, <2>1, <2>12 DEF ServerClosed, TestsOK, OutsideTests
    <3>2. verdict = "good" => ~flawed /\ NoReport /\ Whole
      BY <3>1 DEF ReportsOwed
    <3>3. wire' = wire => Shrinks
      <4>1. wire' = wire => UNCHANGED <<stream, haveEnough>>
        BY <2>12 DEF ServerClosed, stream
      <4>2. QED BY <4>1, SameStream
    <3>4. conclude(verdict) /\ UNCHANGED connectTimer
      BY <2>12 DEF ServerClosed
    <3>5. QED BY <1>1, <3>1, <3>2, <3>3, <3>4, ConcludeStep DEF Shrinks
  <2>13. CASE TestTimesOut
    <3>1. stage = "testing" /\ ReportsOwed
      BY <1>1, <2>1, <2>13, Delays DEF TestTimesOut, TestsOK, OutsideTests
    <3>2. CASE conclude("unknown")
      BY <1>1, <2>13, <3>1, <3>2, ConcludeStep DEF TestTimesOut
    <3>3. CASE ~(handler = "test" /\ Kind(test) = "udp out")
      <4>1. /\ timer' = Off /\ handler' = "none"
            /\ sending' = (sending /\ Kind(test) = "tcp")
            /\ verdict' = IF handler = "test" THEN "unknown" ELSE verdict
            /\ UNCHANGED <<stage, wire, buf, haveEnough, connectTimer, test, port, owed,
                           flawed, verified>>
        BY <2>13, <3>3 DEF TestTimesOut, watchVars
      <4>2. Shrinks
        BY <4>1, SameStream DEF stream
      <4>3. ~sending'
        BY <3>1, <4>1 DEF ReportsOwed
      <4>4. ReportsOwed'
        BY <3>1, <3>3, <4>1, <4>2, <4>3 DEF ReportsOwed, Shrinks, Kind
      <4>5. OutsideTests' /\ NoStaleTimer' /\ StartVerified'
        BY <1>1, <3>1, <4>1, <4>3
        DEF TestsOK, OutsideTests, NoStaleTimer, StartVerified, LastTest
      <4>6. QED BY <4>4, <4>5 DEF TestsOK
    <3>4. QED BY <2>13, <3>2, <3>3 DEF TestTimesOut
  <2>14. CASE PacketArrives
    <3>1. stage = "testing" /\ ReportsOwed /\ Shrinks
      BY <1>1, <2>14, SameFrames DEF PacketArrives, TestsOK
    <3>2. ReportsOwed'
      BY <2>14, <3>1
      DEF PacketArrives, Settled, ReportsOwed, Shrinks, Kind
    <3>3. OutsideTests' /\ NoStaleTimer' /\ StartVerified'
      BY <1>1, <2>14, <3>1
      DEF PacketArrives, Settled, TestsOK, OutsideTests, NoStaleTimer, StartVerified,
          LastTest, watchVars, clientVars
    <3>4. QED BY <3>2, <3>3 DEF TestsOK
  <2>15. QED
    BY <1>3, <2>2, <2>3, <2>4, <2>5, <2>6, <2>7, <2>8, <2>9, <2>10, <2>11, <2>12, <2>13,
       <2>14, NextCases
<1>4. QED BY <1>2, <1>3
---------------------------------------------------------------------------
\* The initial state, and so every state, satisfies the invariant.
LEMMA InitPInv == Init => PInv
<1> SUFFICES ASSUME Init PROVE PInv
  OBVIOUS
<1>1. /\ stage = "begin" /\ outcome = "none" /\ child = "none" /\ status = "idle"
      /\ rpc = "unneeded" /\ storageRpc = "unneeded" /\ socketWorks = "unneeded"
      /\ wire = <<>> /\ buf = <<>> /\ haveEnough = 0
  BY DEF Init, WatchInit, StatusInit, FrameInit
<1>2. stream = <<>> /\ Len(stream) = 0 /\ <<>> \in Seq(Byte)
  BY <1>1 DEF stream
<1>3. TypeOK
  <2>1. FrameTypeOK
    <3>1. wire \in Seq(Byte) /\ buf \in Seq(Byte)
      BY <1>1, <1>2
    <3>2. haveEnough = 0 /\ parsing = FALSE
      BY DEF Init, FrameInit
    <3>3. parsing \in BOOLEAN
      BY <3>2
    <3>4. haveEnough \in 0..2
      BY <3>2
    <3>5. QED BY <3>1, <3>3, <3>4 DEF FrameTypeOK
  <2>2. StatusTypeOK
    BY DEF Init, WatchInit, StatusInit, StatusTypeOK, Probe
  <2>3. WatchOnly
    BY WatchAssumption DEF Init, WatchInit, WatchOnly, NoPoll, Stage, Outcome
  <2>4. ClientTypeOK /\ ResultTypeOK
    BY Delays, Tests DEF Init, ClientTypeOK, ResultTypeOK
  <2>5. QED BY <2>1, <2>2, <2>3, <2>4, WatchTypes DEF TypeOK
<1>4. WatchInv
  BY <1>1 DEF WatchInv, SuccessTruthful
<1>5. FInv
  BY <1>1, <1>2, <1>3 DEF FInv, FramesIntact, FrameOrder, TypeOK
<1>6. OutsideTests /\ NoStaleTimer /\ StartVerified
  BY <1>1, <1>2 DEF Init, OutsideTests, NoStaleTimer, StartVerified
<1>7. QED BY <1>1, <1>3, <1>4, <1>5, <1>6 DEF PInv

LEMMA PortTestInvariance == Spec => []PInv
<1>1. PInv /\ [Next]_vars => PInv'
  BY TypeStep, WatchStep, StreamStep, TestsStep DEF PInv, TestsOK
<1>2. QED BY InitPInv, <1>1, PTL DEF Spec
---------------------------------------------------------------------------
\* Every variable keeps its type: no server is "undefined", no timer goes
\* below zero and no test number beyond the last.
THEOREM PortTypeCorrect == Spec => []TypeOK
BY PortTestInvariance, PTL DEF PInv

\* However the stream is cut, and whatever the messages are, it is taken apart
\* where it was put together.
THEOREM Intact == Spec => []FramesIntact
BY PortTestInvariance, PTL DEF PInv, FInv

\* A start that says its ports are verified has tested every one and found none
\* that is closed or used.
THEOREM Verified == Spec => []StartVerified
BY PortTestInvariance, PTL DEF PInv

\* No timeout or interval outlives its test, and no test waits without one.
THEOREM TimersEnd == Spec => []NoStaleTimer
BY PortTestInvariance, PTL DEF PInv

\* "Start up successful!" is said only when every part has answered.
THEOREM Truthful == Spec => []SuccessTruthful
BY PortTestInvariance, PTL DEF PInv, WatchInv
===========================================================================
