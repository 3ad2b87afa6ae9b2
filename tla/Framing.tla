------------------------------ MODULE Framing ------------------------------
(***************************************************************************)
(* Messages over a TCP connection (lets_tcp.js): each is sent as two bytes *)
(* that give its length and then its payload; the stream arrives in pieces *)
(* cut anywhere, and checkForData cuts it into messages again.  A byte is  *)
(* the message it belongs to and its place in it, so that the check can    *)
(* tell whether the pieces were put together again.                        *)
(*                                                                         *)
(* PortTest uses it for what a testing server sends.                       *)
(***************************************************************************)
EXTENDS Naturals, Sequences

CONSTANT MaxWire    \* bytes of the stream that exist at a time

ASSUME FrameAssumption == MaxWire \in Nat

VARIABLES
  wire,           \* the bytes under way
  buf,            \* client.buf
  haveEnough,     \* client.haveEnough: the payload's length once it is known
  parsing         \* checkForData is at work

frameVars == <<wire, buf, haveEnough, parsing>>

\* The payload of each message that the testing server sends.
Size == [ip |-> 1, good |-> 2, bad |-> 1]
Message == DOMAIN Size
Header == 2
Byte == {b \in Message \X (1..4) : b[2] <= Header + Size[b[1]]}

FrameTypeOK ==
  /\ wire \in Seq(Byte) /\ buf \in Seq(Byte)
  /\ haveEnough \in 0..2 /\ parsing \in BOOLEAN

FrameInit == wire = <<>> /\ buf = <<>> /\ haveEnough = 0 /\ parsing = FALSE
---------------------------------------------------------------------------
Frame(m) == [k \in 1..(Header + Size[m]) |-> <<m, k>>]

send(m) == wire' = wire \o Frame(m)

\* A piece of the stream, of any length, is added to the buffer.
Data ==
  /\ ~parsing /\ parsing' = TRUE
  /\ \E n \in 1..Len(wire) :
       /\ buf' = buf \o SubSeq(wire, 1, n)
       /\ wire' = SubSeq(wire, n + 1, Len(wire))
  /\ UNCHANGED haveEnough

\* The header is read, and removed, once.
AtHeader == haveEnough = 0 /\ Len(buf) >= Header
Needed == IF AtHeader THEN Size[buf[1][1]] ELSE haveEnough
Unread == IF AtHeader THEN SubSeq(buf, Header + 1, Len(buf)) ELSE buf
Complete == Needed # 0 /\ Len(Unread) >= Needed

AwaitData_Forgets ==
  /\ parsing /\ ~Complete /\ parsing' = FALSE
  /\ buf' = Unread
  /\ UNCHANGED <<wire, haveEnough>>

\* checkForData without a whole payload.
AwaitData ==
  /\ parsing /\ ~Complete /\ parsing' = FALSE
  /\ buf' = Unread /\ haveEnough' = Needed
  /\ UNCHANGED wire

\* checkForData with one; then it looks for another.  What is received may make
\* the connection end.
Packet == Unread[1][1]
TakePacket ==
  /\ parsing /\ Complete
  /\ buf' = SubSeq(Unread, Needed + 1, Len(Unread))
  /\ haveEnough' = 0
  /\ UNCHANGED parsing
---------------------------------------------------------------------------
(* Properties.                                                             *)

stream == buf \o wire

\* However the stream was cut, what is left of it begins where a message does,
\* or, once a header was read, with the payload it announced: so each message
\* is received whole, once and in its order (lets_tcp.js:201-227).
FramesIntact ==
  IF haveEnough = 0
  THEN stream # <<>> => stream[1][2] = 1
  ELSE stream # <<>> => /\ stream[1][2] = Header + 1
                        /\ haveEnough = Size[stream[1][1]]
---------------------------------------------------------------------------
(* The inductive invariant behind it: the stream is a row of frames, of which *)
(* the first may have lost its header, and the last, once nothing is sent any *)
(* more, its end.                                                             *)

IsLast(b) == b[2] = Header + Size[b[1]]

FrameOrder ==
  \A k \in 1..(Len(stream) - 1) :
    IF IsLast(stream[k]) THEN stream[k + 1][2] = 1
    ELSE stream[k + 1] = <<stream[k][1], stream[k][2] + 1>>

FInv == FrameTypeOK /\ FramesIntact /\ FrameOrder

\* What is sent now begins a frame of its own.
Whole == IF stream = <<>> THEN haveEnough = 0 ELSE IsLast(stream[Len(stream)])
===========================================================================
