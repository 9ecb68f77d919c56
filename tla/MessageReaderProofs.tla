------------------------ MODULE MessageReaderProofs ------------------------
(***************************************************************************)
(* Next returns what was sent, for every byte size, every set of bodies    *)
(* whose length fits its field and every way the websocket cuts and joins  *)
(* the bytes.  The bytes that were written and not consumed are a row of   *)
(* frames; that it is one is said with the positions where they begin, so  *)
(* that nothing has to be defined by recursion over the messages.          *)
(***************************************************************************)
EXTENDS MessageReader, SequenceTheorems, TLAPS

(* The bytes that were written and not consumed.                           *)
Stream == messageBin \o wire

(* They are the frames of the messages not yet returned, the kth between   *)
(* at[k - 1] and at[k].                                                    *)
FramesAt(at) ==
    /\ at[Len(returned)] = 0 /\ at[Len(sent)] = Len(Stream)
    /\ \A j, k \in Len(returned)..Len(sent) : j <= k => at[j] <= at[k]
    /\ \A k \in (Len(returned) + 1)..Len(sent) :
          /\ at[k] = at[k - 1] + Len(SerializeMessage(sent[k]))
          /\ \A i \in 1..Len(SerializeMessage(sent[k])) :
                Stream[at[k - 1] + i] = SerializeMessage(sent[k])[i]

Framed == Reading => \E at \in [Len(returned)..Len(sent) -> Nat] : FramesAt(at)

(* The size that was read is still at the front.                           *)
SizeRead == pc = "body" => Len(messageBin) >= 2 /\ messageSize = GetUint16(messageBin)

(* The inductive invariant.                                                *)
IInv == TypeOK /\ Len(returned) <= Len(sent) /\ SizeRead /\ Framed

(* Every body's length can be written in its field.                        *)
LengthsFit == \A body \in Encodings \cup Garbage : Len(body) < Base * Base

USE ConstantsAssumption

(* A uint16 is one, ...                                                    *)
LEMMA Uint16Range == ASSUME NEW n \in Nat PROVE Uint16(n) \in 0..(Base * Base - 1)
<1>1. Base * Base \in Nat /\ Base * Base > 0
  OBVIOUS
<1> QED BY <1>1 DEF Uint16

(* ... is the number it was, if that is small enough, ...                  *)
LEMMA Uint16Small == ASSUME NEW n \in Nat, n < Base * Base PROVE Uint16(n) = n
<1> DEFINE m == Base * Base
<1>1. m \in Nat /\ m > 0
  OBVIOUS
<1>2. n < m
  OBVIOUS
<1> HIDE DEF m
<1>3. n % m = n
  BY <1>1, <1>2
<1> QED BY <1>3 DEF Uint16, m

(* ... and is less than two, if that is too large by less than two.        *)
LEMMA Uint16Over == ASSUME NEW n \in Nat, Base * Base <= n, n < Base * Base + 2 PROVE Uint16(n) < 2
<1> DEFINE m == Base * Base
<1>1. m \in Nat /\ m > 2
  OBVIOUS
<1>2. m <= n /\ n < m + 2
  OBVIOUS
<1> HIDE DEF m
<1>3. n % m < 2
  BY <1>1, <1>2
<1> QED BY <1>3 DEF Uint16, m

(* A uint16 has two bytes, the high and the low one, ...                   *)
LEMMA Digits ==
    ASSUME NEW n \in Nat, n < Base * Base
    PROVE  n \div Base \in Byte /\ n % Base \in Byte /\ (n \div Base) * Base + (n % Base) = n
<1>1. n % Base \in 0..(Base - 1)
  OBVIOUS
<1>2. n \div Base \in Nat
  OBVIOUS
<1>3. (n \div Base) * Base + (n % Base) = n
  OBVIOUS
<1>4. n \div Base < Base
  <2> DEFINE q == n \div Base
  <2> HIDE DEF q
  <2>1. ASSUME q >= Base PROVE q * Base >= Base * Base
    BY <1>2, <2>1 DEF q
  <2>2. q * Base <= n
    BY <1>1, <1>2, <1>3 DEF q
  <2>3. q * Base \in Nat /\ Base * Base \in Nat /\ q \in Nat
    BY <1>2 DEF q
  <2>4. q < Base
    BY <2>1, <2>2, <2>3
  <2> QED BY <2>4 DEF q
<1> QED BY <1>1, <1>2, <1>3, <1>4 DEF Byte

(* ... and two bytes make a uint16.                                        *)
LEMMA GetRange ==
    ASSUME NEW x \in Byte, NEW y \in Byte
    PROVE  x * Base + y \in 0..(Base * Base - 1)
<1>1. x \in Nat /\ y \in Nat /\ x <= Base - 1 /\ y <= Base - 1
  BY DEF Byte
<1>2. x * Base <= (Base - 1) * Base
  BY <1>1
<1>3. (Base - 1) * Base = Base * Base - Base
  OBVIOUS
<1> QED BY <1>1, <1>2, <1>3
(* Bytes joined and cut.                                                   *)
LEMMA Joined ==
    ASSUME NEW a \in Seq(Byte), NEW b \in Seq(Byte), NEW c \in Seq(Byte)
    PROVE  (a \o b) \o c = a \o (b \o c)
<1> DEFINE x == (a \o b) \o c
           y == a \o (b \o c)
<1>1. /\ x \in Seq(Byte) /\ y \in Seq(Byte)
      /\ Len(x) = Len(a) + Len(b) + Len(c) /\ Len(y) = Len(a) + Len(b) + Len(c)
  OBVIOUS
<1>2. ASSUME NEW i \in 1..(Len(a) + Len(b) + Len(c)) PROVE x[i] = y[i]
  <2>1. CASE i <= Len(a)
    BY <2>1
  <2>2. CASE Len(a) < i /\ i <= Len(a) + Len(b)
    BY <2>2
  <2>3. CASE Len(a) + Len(b) < i
    BY <2>3
  <2> QED BY <2>1, <2>2, <2>3
<1> HIDE DEF x, y
<1>3. x = y
  BY <1>1, <1>2, SeqEqual
<1> QED BY <1>3 DEF x, y

LEMMA Cut ==
    ASSUME NEW a \in Seq(Byte), NEW n \in 0..Len(a)
    PROVE  SubSeq(a, 1, n) \o SubSeq(a, n + 1, Len(a)) = a
<1>1. SubSeq(a, 1, n) \in Seq(Byte) /\ SubSeq(a, n + 1, Len(a)) \in Seq(Byte)
  OBVIOUS
<1>2. /\ Len(SubSeq(a, 1, n)) = n /\ Len(SubSeq(a, n + 1, Len(a))) = Len(a) - n
      /\ \A i \in 1..n : SubSeq(a, 1, n)[i] = a[i]
      /\ \A i \in 1..(Len(a) - n) : SubSeq(a, n + 1, Len(a))[i] = a[n + i]
  OBVIOUS
<1> DEFINE b == SubSeq(a, 1, n)
           c == SubSeq(a, n + 1, Len(a))
<1> HIDE DEF b, c
<1>3. b \in Seq(Byte) /\ c \in Seq(Byte) /\ Len(b) = n /\ Len(c) = Len(a) - n
      /\ (\A i \in 1..n : b[i] = a[i]) /\ (\A i \in 1..(Len(a) - n) : c[i] = a[n + i])
  BY <1>1, <1>2 DEF b, c
<1>4. b \o c \in Seq(Byte) /\ Len(b \o c) = Len(a) /\ \A i \in 1..Len(a) : (b \o c)[i] = a[i]
  BY <1>3
<1>5. b \o c = a
  BY <1>4, SeqEqual
<1> QED BY <1>5 DEF b, c

(* The length of a frame and what its first two bytes say.                 *)
LEMMA FrameFacts ==
    ASSUME NEW body \in Encodings \cup Garbage
    PROVE  /\ SerializeMessage(body) \in Seq(Byte)
           /\ Len(body) \in Nat /\ Len(SerializeMessage(body)) = Len(body) + 2
           /\ \A i \in 1..Len(body) : SerializeMessage(body)[i + 2] = body[i]
           /\ Len(body) < Base * Base => GetUint16(SerializeMessage(body)) = Len(body)
<1>1. body \in Seq(Byte) /\ Len(body) \in Nat
  OBVIOUS
<1>2. PICK n \in Nat : n = Uint16(Len(body)) /\ n < Base * Base
  BY <1>1, Uint16Range
<1>3. n \div Base \in Byte /\ n % Base \in Byte /\ (n \div Base) * Base + (n % Base) = n
  BY <1>2, Digits
<1>4. PICK x \in Byte, y \in Byte : x = n \div Base /\ y = n % Base
  BY <1>3
<1>5. PutUint16(n) = <<x, y>> /\ <<x, y>> \in Seq(Byte) /\ x * Base + y = n
  BY <1>3, <1>4 DEF PutUint16
<1>6. SerializeMessage(body) = <<x, y>> \o body
  BY <1>2, <1>5 DEF SerializeMessage
<1>7. /\ SerializeMessage(body) \in Seq(Byte) /\ Len(SerializeMessage(body)) = Len(body) + 2
      /\ \A i \in 1..Len(body) : SerializeMessage(body)[i + 2] = body[i]
      /\ SerializeMessage(body)[1] = x /\ SerializeMessage(body)[2] = y
  BY <1>1, <1>5, <1>6
<1>8. Len(body) < Base * Base => GetUint16(SerializeMessage(body)) = Len(body)
  BY <1>1, <1>2, <1>5, <1>7, Uint16Small DEF GetUint16
<1> QED BY <1>1, <1>7, <1>8

(* Some byte of the stream is one of messageBin.                           *)
LEMMA StreamFacts ==
    ASSUME TypeOK
    PROVE  /\ Stream \in Seq(Byte) /\ Len(Stream) = Len(messageBin) + Len(wire)
           /\ Len(messageBin) \in Nat /\ Len(wire) \in Nat
           /\ \A i \in 1..Len(messageBin) : Stream[i] = messageBin[i]
<1>1. messageBin \in Seq(Byte) /\ wire \in Seq(Byte)
  BY DEF TypeOK
<1> QED BY <1>1 DEF Stream

(* The initial state satisfies the inductive invariant.                    *)
LEMMA InitIInv == Init => IInv
<1> SUFFICES ASSUME Init PROVE IInv
  OBVIOUS
<1>1. TypeOK
  <2>1. 0 \in 0..(Base * Base - 1)
    BY Uint16Small, Uint16Range
  <2> QED BY <2>1 DEF Init, TypeOK
<1>2. Len(sent) = 0 /\ Len(returned) = 0 /\ Stream = <<>> /\ Len(Stream) = 0
  BY DEF Init, Stream
<1>3. [k \in 0..0 |-> 0] \in [0..0 -> Nat] /\ FramesAt([k \in 0..0 |-> 0])
  BY <1>2 DEF FramesAt
<1>4. Framed
  BY <1>2, <1>3 DEF Framed
<1> QED BY <1>1, <1>2, <1>4 DEF IInv, SizeRead, Init

(* Every step keeps the types, whatever the bodies' lengths.               *)
LEMMA TypeInductive == TypeOK /\ [Next]_vars => TypeOK'
<1> SUFFICES ASSUME TypeOK, [Next]_vars PROVE TypeOK'
  OBVIOUS
<1>0. /\ sent \in Seq(Encodings \cup Garbage) /\ wire \in Seq(Byte) /\ messageBin \in Seq(Byte)
      /\ returned \in Seq(Encodings)
  BY DEF TypeOK
<1>1. CASE UNCHANGED vars
  BY <1>1 DEF vars, TypeOK
<1>2. ASSUME NEW body \in Encodings \cup Garbage, Send(body) PROVE TypeOK'
  <2>1. PICK frame \in Seq(Byte) : frame = SerializeMessage(body)
    BY FrameFacts
  <2>2. sent' \in Seq(Encodings \cup Garbage) /\ Len(sent') <= MaxMessages /\ wire' \in Seq(Byte)
    BY <1>0, <1>2, <2>1 DEF Send
  <2> QED BY <1>2, <2>2 DEF Send, TypeOK
<1>3. ASSUME NEW n \in 0..Len(wire), ReadFrame(n) PROVE TypeOK'
  <2>1. wire' \in Seq(Byte) /\ messageBin' \in Seq(Byte)
    <3>1. SubSeq(wire, 1, n) \in Seq(Byte) /\ SubSeq(wire, n + 1, Len(wire)) \in Seq(Byte)
      BY <1>0, <1>3
    <3> QED BY <1>0, <1>3, <3>1 DEF ReadFrame
  <2> QED BY <1>3, <2>1 DEF ReadFrame, TypeOK
<1>4. CASE ReadFails \/ Panic
  BY <1>4 DEF ReadFails, Panic, TypeOK
<1>5. CASE TakeSize
  <2>1. messageBin[1] \in Byte /\ messageBin[2] \in Byte
    BY <1>0, <1>5 DEF TakeSize, SizeOfMessageSize
  <2>2. messageSize' \in 0..(Base * Base - 1)
    BY <1>5, <2>1, GetRange DEF TakeSize, GetUint16
  <2> QED BY <1>5, <2>2 DEF TakeSize, TypeOK
<1>6. CASE TakeBody
  <2>1. EndOfMessage \in Nat
    <3>1. messageSize \in Nat
      BY DEF TypeOK
    <3> QED BY <3>1, Uint16Range DEF EndOfMessage, SizeOfMessageSize
  <2>2. messageBin' \in Seq(Byte)
    BY <1>0, <1>6, <2>1 DEF TakeBody, Rest, SizeOfMessageSize
  <2>3. 0 \in 0..(Base * Base - 1)
    BY Uint16Small, Uint16Range
  <2>4. returned' \in Seq(Encodings) /\ pc' \in {"size", "failed"}
    <3>1. ASSUME NEW body \in Encodings, returned' = Append(returned, body)
          PROVE  returned' \in Seq(Encodings)
      BY <1>0, <3>1
    <3> QED BY <1>0, <1>6, <3>1 DEF TakeBody
  <2> QED BY <1>6, <2>2, <2>3, <2>4 DEF TakeBody, TypeOK
<1> QED BY <1>1, <1>2, <1>3, <1>4, <1>5, <1>6 DEF Next

(* Another frame behind the others.                                        *)
LEMMA SendKeeps ==
    ASSUME IInv, TypeOK', NEW body \in Encodings \cup Garbage, Send(body)
    PROVE  IInv'
<1> USE DEF IInv
<1>1. /\ sent' = Append(sent, body) /\ Len(sent) < MaxMessages
      /\ wire' = wire \o SerializeMessage(body)
      /\ UNCHANGED <<messageBin, messageSize, pc, returned>>
      /\ sent \in Seq(Encodings \cup Garbage) /\ wire \in Seq(Byte) /\ messageBin \in Seq(Byte)
      /\ returned \in Seq(Encodings)
  BY DEF Send, TypeOK
<1>2. PICK frame \in Seq(Byte) : frame = SerializeMessage(body)
  BY FrameFacts
<1>4. PICK n \in Nat, r \in Nat : n = Len(sent) /\ r = Len(returned) /\ r <= n
  BY <1>1
<1>5. /\ Len(sent') = n + 1 /\ sent'[n + 1] = body /\ \A k \in 1..n : sent'[k] = sent[k]
      /\ Len(returned') = r
  BY <1>1, <1>4
<1>6. Stream' = Stream \o frame
  BY <1>1, <1>2, Joined DEF Stream
<1>7. /\ Len(Stream) \in Nat /\ Len(Stream') = Len(Stream) + Len(frame) /\ Len(frame) \in Nat
      /\ \A i \in 1..Len(Stream) : Stream'[i] = Stream[i]
      /\ \A i \in 1..Len(frame) : Stream'[Len(Stream) + i] = frame[i]
  <2>1. Stream \in Seq(Byte)
    BY StreamFacts
  <2> HIDE DEF IInv
  <2> QED BY <1>2, <1>6, <2>1
<1>8. ASSUME Reading PROVE \E at \in [r..(n + 1) -> Nat] : FramesAt(at)'
  <2>1. PICK at \in [r..n -> Nat] : FramesAt(at)
    BY <1>4, <1>8 DEF Framed
  <2> DEFINE new == [k \in r..(n + 1) |-> IF k = n + 1 THEN Len(Stream') ELSE at[k]]
  <2>2. PICK to \in [r..(n + 1) -> Nat] :
           to[n + 1] = Len(Stream') /\ \A k \in r..n : to[k] = at[k]
    <3>1. new \in [r..(n + 1) -> Nat]
      BY <1>4, <1>7, <2>1
    <3>2. new[n + 1] = Len(Stream') /\ \A k \in r..n : new[k] = at[k]
      BY <1>4
    <3> QED BY <3>1, <3>2
  <2>3. to[r] = 0 /\ at[n] = Len(Stream) /\ \A k \in r..n : at[k] \in Nat /\ at[k] <= Len(Stream)
    BY <1>4, <2>1, <2>2 DEF FramesAt
  <2>4. ASSUME NEW j \in r..(n + 1), NEW k \in r..(n + 1), j <= k PROVE to[j] <= to[k]
    <3>1. CASE k = n + 1
      <4>1. to[j] <= Len(Stream) \/ j = n + 1
        <5>1. j \in r..n \/ j = n + 1
          BY <1>4, <2>4
        <5>2. \A i \in r..n : to[i] <= Len(Stream)
          BY <2>2, <2>3
        <5> QED BY ONLY <5>1, <5>2
      <4> QED BY <1>7, <2>2, <3>1, <4>1
    <3>2. CASE k \in r..n
      <4>1. j \in r..n
        BY <1>4, <2>4, <3>2
      <4> QED BY <1>4, <2>1, <2>2, <2>4, <3>2, <4>1 DEF FramesAt
    <3> QED BY <1>4, <3>1, <3>2
  <2>5. ASSUME NEW k \in (r + 1)..(n + 1)
        PROVE  /\ to[k] = to[k - 1] + Len(SerializeMessage(sent'[k]))
               /\ \A i \in 1..Len(SerializeMessage(sent'[k])) :
                     Stream'[to[k - 1] + i] = SerializeMessage(sent'[k])[i]
    <3>1. CASE k = n + 1
      <4>1. sent'[k] = body /\ k - 1 = n /\ to[k - 1] = Len(Stream)
        BY <1>4, <1>5, <2>2, <2>3, <3>1
      <4> QED BY <1>2, <1>7, <2>2, <3>1, <4>1
    <3>2. CASE k \in (r + 1)..n
      <4>0. k \in r..n /\ k - 1 \in r..n /\ k \in 1..n
        BY <1>4, <3>2
      <4>1. k \in r..n /\ k - 1 \in r..n /\ k \in 1..n /\ to[k] = at[k] /\ to[k - 1] = at[k - 1]
        BY <2>2, <4>0
      <4>2. sent'[k] = sent[k] /\ sent[k] \in Encodings \cup Garbage
        BY <1>1, <1>4, <1>5, <4>1
      <4>3. PICK len \in Nat : len = Len(SerializeMessage(sent[k]))
        BY <4>2, FrameFacts
      <4>4. /\ at[k] = at[k - 1] + len
            /\ \A i \in 1..len : Stream[at[k - 1] + i] = SerializeMessage(sent[k])[i]
        BY <1>4, <2>1, <3>2, <4>3 DEF FramesAt
      <4>5. \A i \in 1..len : at[k - 1] + i \in 1..Len(Stream)
        <5>1. at[k - 1] \in Nat /\ at[k] <= Len(Stream) /\ Len(Stream) \in Nat
          BY <1>7, <2>3, <4>1
        <5> SUFFICES ASSUME NEW i \in 1..len PROVE at[k - 1] + i \in 1..Len(Stream)
          OBVIOUS
        <5>2. PICK x \in Nat, y \in Nat : x = at[k - 1] /\ y = Len(Stream)
          BY <5>1
        <5>3. x + len <= y
          BY <4>4, <5>1, <5>2
        <5> QED BY ONLY <4>3, <5>2, <5>3, i \in 1..len
      <4> QED BY <1>7, <4>1, <4>2, <4>3, <4>4, <4>5
    <3>3. k = n + 1 \/ k \in (r + 1)..n
      BY <1>4
    <3> QED BY <3>1, <3>2, <3>3
  <2>6. FramesAt(to)'
    BY <1>4, <1>5, <2>2, <2>3, <2>4, <2>5 DEF FramesAt
  <2> QED BY <2>6
<1>9. Framed'
  BY <1>1, <1>5, <1>8 DEF Framed, Reading
<1> QED BY <1>1, <1>4, <1>5, <1>9 DEF SizeRead

(* A websocket message moves bytes within the stream.                      *)
LEMMA ReadFrameKeeps ==
    ASSUME IInv, TypeOK', NEW n \in 0..Len(wire), ReadFrame(n)
    PROVE  IInv'
<1> USE DEF IInv
<1>1. /\ messageBin' = messageBin \o SubSeq(wire, 1, n) /\ wire' = SubSeq(wire, n + 1, Len(wire))
      /\ UNCHANGED <<sent, messageSize, pc, returned>>
      /\ wire \in Seq(Byte) /\ messageBin \in Seq(Byte) /\ n \in Nat /\ n <= Len(wire)
  BY DEF ReadFrame, TypeOK
<1>2. SubSeq(wire, 1, n) \in Seq(Byte) /\ SubSeq(wire, n + 1, Len(wire)) \in Seq(Byte)
  BY <1>1
<1>3. SubSeq(wire, 1, n) \o SubSeq(wire, n + 1, Len(wire)) = wire
  BY <1>1, Cut
<1>4. Stream' = Stream
  <2>1. PICK a \in Seq(Byte), b \in Seq(Byte) :
           a = SubSeq(wire, 1, n) /\ b = SubSeq(wire, n + 1, Len(wire))
    BY <1>2
  <2>2. (messageBin \o a) \o b = messageBin \o (a \o b) /\ a \o b = wire
    <3>1. messageBin \in Seq(Byte)
      BY <1>1
    <3>2. (messageBin \o a) \o b = messageBin \o (a \o b)
      BY ONLY <3>1, Joined
    <3> QED BY ONLY <1>3, <2>1, <3>2
  <2> QED BY <1>1, <2>1, <2>2 DEF Stream
<1>5. /\ messageBin' \in Seq(Byte) /\ Len(messageBin') >= Len(messageBin)
      /\ \A i \in 1..Len(messageBin) : messageBin'[i] = messageBin[i]
  BY <1>1, <1>2
<1>7. SizeRead'
  <2>1. CASE pc = "body"
    <3>1. Len(messageBin) \in Nat /\ Len(messageBin) >= 2 /\ Len(messageBin') \in Nat
      BY <1>1, <1>5, <2>1 DEF SizeRead
    <3> QED BY <1>1, <1>5, <3>1 DEF SizeRead, GetUint16
  <2> QED BY <1>1, <2>1 DEF SizeRead
<1>8. Framed'
  <2>1. SUFFICES ASSUME Reading PROVE \E at \in [Len(returned)..Len(sent) -> Nat] : FramesAt(at)'
    BY <1>1 DEF Framed, Reading
  <2>2. PICK at \in [Len(returned)..Len(sent) -> Nat] : FramesAt(at)
    BY <2>1 DEF Framed
  <2>3. FramesAt(at)'
    BY <1>1, <1>4, <2>2 DEF FramesAt
  <2> QED BY <2>3
<1> QED BY <1>1, <1>7, <1>8

(* The size that was read is that of the first frame's body, ...           *)
LEMMA FirstFrame ==
    ASSUME LengthsFit, IInv, pc = "body",
           NEW at \in [Len(returned)..Len(sent) -> Nat], FramesAt(at)
    PROVE  /\ Len(returned) + 1 \in 1..Len(sent) /\ Len(returned) \in Nat
           /\ sent[Len(returned) + 1] \in Encodings \cup Garbage
           /\ messageSize = Len(sent[Len(returned) + 1])
           /\ at[Len(returned) + 1] = messageSize + 2
           /\ \A i \in 1..messageSize : Stream[i + 2] = sent[Len(returned) + 1][i]
<1> USE DEF IInv
<1>1. /\ sent \in Seq(Encodings \cup Garbage) /\ returned \in Seq(Encodings)
      /\ messageBin \in Seq(Byte) /\ wire \in Seq(Byte)
  BY DEF TypeOK
<1>2. PICK n \in Nat, r \in Nat : n = Len(sent) /\ r = Len(returned) /\ r <= n
  BY <1>1
<1>3. Len(Stream) > 0 /\ Len(messageBin) >= 2 /\ messageSize = GetUint16(messageBin)
      /\ \A i \in 1..Len(messageBin) : Stream[i] = messageBin[i]
  BY StreamFacts DEF SizeRead
<1>4. r + 1 \in 1..n /\ r \in r..n /\ r + 1 \in (r + 1)..n
  <2>1. r # n
    BY <1>2, <1>3 DEF FramesAt
  <2> QED BY <1>2, <2>1
<1>5. PICK body \in Encodings \cup Garbage : body = sent[r + 1]
  BY <1>1, <1>2, <1>4
<1>6. body \in Seq(Byte) /\ Len(body) \in Nat /\ Len(body) < Base * Base
  BY DEF LengthsFit
<1>7. PICK frame \in Seq(Byte) :
         /\ frame = SerializeMessage(body) /\ Len(frame) = Len(body) + 2
         /\ \A i \in 1..Len(body) : frame[i + 2] = body[i]
         /\ GetUint16(frame) = Len(body)
  BY <1>6, FrameFacts
<1>8. at[r] = 0 /\ at[r + 1] = at[r] + Len(frame)
      /\ \A i \in 1..Len(frame) : Stream[at[r] + i] = frame[i]
  <2>1. (r + 1) - 1 = r
    BY <1>2
  <2>2. /\ at[Len(returned)] = 0
        /\ \A k \in (Len(returned) + 1)..Len(sent) :
              /\ at[k] = at[k - 1] + Len(SerializeMessage(sent[k]))
              /\ \A i \in 1..Len(SerializeMessage(sent[k])) :
                    Stream[at[k - 1] + i] = SerializeMessage(sent[k])[i]
    BY DEF FramesAt
  <2> HIDE DEF IInv
  <2>3. r = Len(returned) /\ n = Len(sent) /\ sent[r + 1] = body /\ SerializeMessage(body) = frame
    BY <1>2, <1>5, <1>7
  <2>4. \A k \in (r + 1)..n :
           /\ at[k] = at[k - 1] + Len(SerializeMessage(sent[k]))
           /\ \A i \in 1..Len(SerializeMessage(sent[k])) :
                 Stream[at[k - 1] + i] = SerializeMessage(sent[k])[i]
    BY ONLY <2>2, <2>3
  <2>5. /\ at[r + 1] = at[(r + 1) - 1] + Len(frame)
        /\ \A i \in 1..Len(frame) : Stream[at[(r + 1) - 1] + i] = frame[i]
    BY ONLY <1>4, <2>3, <2>4
  <2> QED BY ONLY <2>1, <2>2, <2>3, <2>5
<1>9. at[r + 1] = Len(body) + 2 /\ \A i \in 1..(Len(body) + 2) : Stream[i] = frame[i]
  BY <1>6, <1>7, <1>8
<1>10. messageSize = Len(body)
  <2>1. messageBin[1] = frame[1] /\ messageBin[2] = frame[2]
    <3>1. 1 \in 1..Len(messageBin) /\ 2 \in 1..Len(messageBin)
      BY <1>1, <1>3
    <3>2. 1 \in 1..(Len(body) + 2) /\ 2 \in 1..(Len(body) + 2)
      BY <1>6
    <3> QED BY <1>3, <1>9, <3>1, <3>2
  <2> QED BY <1>3, <1>7, <2>1 DEF GetUint16
<1>11. ASSUME NEW i \in 1..Len(body) PROVE Stream[i + 2] = body[i]
  <2>1. i + 2 \in 1..(Len(body) + 2)
    BY <1>6
  <2> QED BY <1>7, <1>9, <2>1
<1> QED BY <1>2, <1>4, <1>5, <1>9, <1>10, <1>11

(* ... which is complete when that many bytes have come, unless the sum of *)
(* the sizes overflows.                                                    *)
LEMMA WholeFrame ==
    ASSUME LengthsFit, IInv, pc = "body", EndOfMessage >= SizeOfMessageSize,
           Len(messageBin) >= EndOfMessage,
           NEW at \in [Len(returned)..Len(sent) -> Nat], FramesAt(at)
    PROVE  /\ Len(returned) + 1 \in 1..Len(sent) /\ Len(returned) \in Nat
           /\ at[Len(returned) + 1] = EndOfMessage /\ EndOfMessage \in Nat
           /\ SubSeq(messageBin, SizeOfMessageSize + 1, EndOfMessage) = sent[Len(returned) + 1]
<1>1. messageBin \in Seq(Byte)
  BY DEF IInv, TypeOK
<1>2. PICK body \in Encodings \cup Garbage :
         /\ body = sent[Len(returned) + 1] /\ messageSize = Len(body)
         /\ \A i \in 1..Len(body) : Stream[i + 2] = body[i]
         /\ at[Len(returned) + 1] = Len(body) + 2
  BY FirstFrame
<1>3. body \in Seq(Byte) /\ Len(body) \in Nat /\ Len(body) < Base * Base
  BY DEF LengthsFit
<1>4. EndOfMessage = Len(body) + 2
  <2>1. Base * Base \in Nat /\ EndOfMessage = Uint16(Len(body) + 2)
    BY <1>2, <1>3 DEF EndOfMessage, SizeOfMessageSize
  <2>2. CASE Len(body) + 2 < Base * Base
    BY <1>3, <2>1, <2>2, Uint16Small
  <2>3. CASE Len(body) + 2 >= Base * Base
    <3>1. EndOfMessage < 2 /\ EndOfMessage \in Nat
      BY <1>3, <2>1, <2>3, Uint16Over, Uint16Range
    <3> QED BY <3>1 DEF SizeOfMessageSize
  <2> QED BY <1>3, <2>1, <2>2, <2>3
<1>5. SubSeq(messageBin, 3, Len(body) + 2) = body
  <2>1. Len(messageBin) >= Len(body) + 2
    BY <1>4
  <2>2. ASSUME NEW i \in 1..Len(body) PROVE messageBin[i + 2] = body[i]
    <3>1. i + 2 \in 1..Len(messageBin)
      BY <1>1, <1>3, <2>1
    <3> QED BY <1>2, <3>1, StreamFacts DEF IInv
  <2>3. /\ SubSeq(messageBin, 3, Len(body) + 2) \in Seq(Byte)
        /\ Len(SubSeq(messageBin, 3, Len(body) + 2)) = Len(body)
        /\ \A i \in 1..Len(body) : SubSeq(messageBin, 3, Len(body) + 2)[i] = messageBin[i + 2]
    BY <1>1, <1>3, <2>1
  <2> QED BY <1>3, <2>2, <2>3, SeqEqual
<1> QED BY <1>2, <1>3, <1>4, <1>5, FirstFrame DEF SizeOfMessageSize

(* A complete body is the next message, ...                                *)
LEMMA NextMessage ==
    ASSUME LengthsFit, IInv, TakeBody
    PROVE  /\ Reading /\ Len(returned) < Len(sent)
           /\ \/ /\ sent[Len(returned) + 1] \in Encodings /\ Reading'
                 /\ returned' = Append(returned, sent[Len(returned) + 1])
              \/ /\ sent[Len(returned) + 1] \in Garbage /\ ~Reading' /\ pc' = "failed"
                 /\ UNCHANGED returned
<1>1. pc = "body" /\ EndOfMessage >= SizeOfMessageSize /\ Len(messageBin) >= EndOfMessage
  BY DEF TakeBody
<1>2. PICK at \in [Len(returned)..Len(sent) -> Nat] : FramesAt(at)
  BY <1>1 DEF IInv, Framed, Reading
<1>3. /\ Len(returned) + 1 \in 1..Len(sent) /\ Len(returned) \in Nat
      /\ SubSeq(messageBin, SizeOfMessageSize + 1, EndOfMessage) = sent[Len(returned) + 1]
  BY <1>1, <1>2, WholeFrame
<1>4. sent[Len(returned) + 1] \in Encodings \cup Garbage /\ Len(returned) < Len(sent)
  BY <1>3 DEF IInv, TypeOK
<1> QED BY <1>1, <1>3, <1>4 DEF TakeBody, Reading

(* What lies behind the first of two joined sequences.                     *)
LEMMA SecondPart ==
    ASSUME NEW a \in Seq(Byte), NEW b \in Seq(Byte), NEW i \in 1..(Len(a) + Len(b)), i > Len(a)
    PROVE  (a \o b)[i] = b[i - Len(a)]
OBVIOUS

(* A position inside a frame, counted from the end of the first one.       *)
LEMMA Shifted ==
    ASSUME NEW e \in Nat, NEW x \in Nat, NEW l \in Nat, NEW len \in Nat, NEW i \in 1..len,
           e <= x, x + len <= l
    PROVE  (x - e) + i \in 1..(l - e) /\ e + ((x - e) + i) = x + i
OBVIOUS

(* ... and without it the others' frames are left.                         *)
LEMMA TakeBodyKeeps ==
    ASSUME LengthsFit, IInv, TypeOK', TakeBody
    PROVE  IInv'
<1>1. /\ pc = "body" /\ EndOfMessage >= SizeOfMessageSize /\ Len(messageBin) >= EndOfMessage
      /\ messageBin' = SubSeq(messageBin, EndOfMessage + 1, Len(messageBin)) /\ pc' # "body"
      /\ UNCHANGED <<sent, wire>>
  BY DEF TakeBody, Rest
<1>2. PICK at \in [Len(returned)..Len(sent) -> Nat] : FramesAt(at)
  BY <1>1 DEF IInv, Framed, Reading
<1>3. /\ Len(returned) + 1 \in 1..Len(sent) /\ Len(returned) \in Nat
      /\ at[Len(returned) + 1] = EndOfMessage /\ EndOfMessage \in Nat
  BY <1>1, <1>2, WholeFrame
<1>4. PICK n \in Nat, r \in Nat, e \in Nat :
         n = Len(sent) /\ r = Len(returned) /\ r + 1 <= n /\ e = EndOfMessage /\ at[r + 1] = e
  BY <1>3
<1>5. \/ pc' = "failed" /\ returned' = returned
      \/ Reading' /\ Len(returned') = r + 1
  <2>1. returned \in Seq(Encodings) /\ sent \in Seq(Encodings \cup Garbage)
    BY DEF IInv, TypeOK
  <2> QED BY <1>4, <2>1, NextMessage
<1>6. /\ Stream \in Seq(Byte) /\ Len(Stream) \in Nat /\ Len(Stream') = Len(Stream) - e
      /\ \A i \in 1..(Len(Stream) - e) : Stream'[i] = Stream[e + i]
  <2>1. messageBin \in Seq(Byte) /\ wire \in Seq(Byte) /\ e <= Len(messageBin)
    BY <1>1, <1>4 DEF IInv, TypeOK
  <2>2. /\ messageBin' \in Seq(Byte) /\ Len(messageBin') = Len(messageBin) - e
        /\ \A i \in 1..(Len(messageBin) - e) : messageBin'[i] = messageBin[e + i]
    BY <1>1, <1>4, <2>1
  <2>3. Stream = messageBin \o wire /\ Stream' = messageBin' \o wire
    BY <1>1 DEF Stream
  <2>4. /\ Len(Stream) = Len(messageBin) + Len(wire) /\ Stream \in Seq(Byte)
        /\ Len(Stream') = Len(messageBin') + Len(wire)
    <3>1. PICK m \in Seq(Byte), b \in Seq(Byte), w \in Seq(Byte) :
             m = messageBin /\ b = messageBin' /\ w = wire
      BY <2>1, <2>2
    <3>2. Len(m \o w) = Len(m) + Len(w) /\ m \o w \in Seq(Byte) /\ Len(b \o w) = Len(b) + Len(w)
      OBVIOUS
    <3> QED BY <2>3, <3>1, <3>2
  <2>5. ASSUME NEW i \in 1..(Len(Stream) - e) PROVE Stream'[i] = Stream[e + i]
    <3>1. PICK m \in Seq(Byte), b \in Seq(Byte), w \in Seq(Byte) :
             m = messageBin /\ b = messageBin' /\ w = wire
      BY <2>1, <2>2
    <3>2. /\ Len(b) \in Nat /\ Len(b) = Len(m) - e /\ i \in 1..(Len(b) + Len(w))
          /\ Len(m) \in Nat /\ Len(w) \in Nat
      BY <1>4, <2>1, <2>2, <2>4, <3>1
    <3>3. CASE i <= Len(b)
      <4>1. (b \o w)[i] = b[i] /\ (m \o w)[e + i] = m[e + i] /\ b[i] = m[e + i]
        BY <2>2, <3>1, <3>2, <3>3
      <4> QED BY <2>3, <3>1, <4>1
    <3>4. CASE i > Len(b)
      <4>1. (e + i) - Len(m) = i - Len(b) /\ e + i > Len(m) /\ e + i <= Len(m) + Len(w)
        BY <3>2, <3>4
      <4>2. (b \o w)[i] = w[i - Len(b)] /\ (m \o w)[e + i] = w[(e + i) - Len(m)]
        <5>1. PICK p \in Nat : p = e + i /\ p \in 1..(Len(m) + Len(w)) /\ p > Len(m)
          BY <3>2, <4>1
        <5> QED BY ONLY <3>2, <3>4, <5>1, SecondPart
      <4> QED BY <2>3, <3>1, <4>1, <4>2
    <3> QED BY <3>2, <3>3, <3>4
  <2> QED BY <2>1, <2>2, <2>4, <2>5
<1>7. ASSUME Reading' PROVE \E to \in [(r + 1)..n -> Nat] : FramesAt(to)'
  <2>1. Len(returned') = r + 1 /\ Len(sent') = n
    BY <1>1, <1>4, <1>5, <1>7 DEF Reading
  <2>2. /\ at[n] = Len(Stream)
        /\ \A j, k \in r..n : j <= k => at[j] <= at[k]
        /\ \A k \in (r + 1)..n :
              /\ at[k] = at[k - 1] + Len(SerializeMessage(sent[k]))
              /\ \A i \in 1..Len(SerializeMessage(sent[k])) :
                    Stream[at[k - 1] + i] = SerializeMessage(sent[k])[i]
        /\ \A k \in r..n : at[k] \in Nat
    BY <1>2, <1>4 DEF FramesAt
  <2>3. \A k \in (r + 1)..n : at[k] \in Nat /\ e <= at[k] /\ at[k] <= Len(Stream)
    <3> SUFFICES ASSUME NEW k \in (r + 1)..n
                 PROVE  at[k] \in Nat /\ e <= at[k] /\ at[k] <= Len(Stream)
      OBVIOUS
    <3>1. k \in r..n /\ r + 1 \in r..n /\ n \in r..n /\ r + 1 <= k /\ k <= n
      BY <1>4
    <3> QED BY <1>4, <2>2, <3>1
  <2>4. PICK to \in [(r + 1)..n -> Nat] : \A k \in (r + 1)..n : to[k] = at[k] - e
    <3>1. \A k \in (r + 1)..n : at[k] - e \in Nat
      BY <1>4, <2>3
    <3>2. [k \in (r + 1)..n |-> at[k] - e] \in [(r + 1)..n -> Nat]
      BY <3>1
    <3> QED BY <3>2
  <2>5. to[r + 1] = 0 /\ to[n] = Len(Stream')
    BY <1>4, <1>6, <2>2, <2>4
  <2>6. ASSUME NEW j \in (r + 1)..n, NEW k \in (r + 1)..n, j <= k PROVE to[j] <= to[k]
    <3>1. at[j] <= at[k] /\ at[j] \in Nat /\ at[k] \in Nat
      <4>1. j \in r..n /\ k \in r..n
        BY <1>4
      <4> QED BY <2>2, <2>6, <4>1
    <3> QED BY <2>4, <3>1
  <2>7. ASSUME NEW k \in (r + 2)..n
        PROVE  /\ to[k] = to[k - 1] + Len(SerializeMessage(sent[k]))
               /\ \A i \in 1..Len(SerializeMessage(sent[k])) :
                     Stream'[to[k - 1] + i] = SerializeMessage(sent[k])[i]
    <3>1. k \in (r + 1)..n /\ k - 1 \in (r + 1)..n /\ k \in 1..n
      BY <1>4
    <3>2. PICK body \in Encodings \cup Garbage : body = sent[k]
      BY <1>4, <3>1 DEF IInv, TypeOK
    <3>3. PICK len \in Nat : len = Len(SerializeMessage(body))
      BY FrameFacts
    <3>4. PICK x \in Nat, y \in Nat, l \in Nat :
             /\ x = at[k - 1] /\ y = at[k] /\ l = Len(Stream)
             /\ e <= x /\ y <= l /\ to[k - 1] = x - e /\ to[k] = y - e
      BY <1>6, <2>3, <2>4, <3>1
    <3>5. y = x + len /\ \A i \in 1..len : Stream[x + i] = SerializeMessage(body)[i]
      BY <2>2, <3>1, <3>2, <3>3, <3>4
    <3>6. ASSUME NEW i \in 1..len PROVE Stream'[to[k - 1] + i] = SerializeMessage(body)[i]
      <4>1. (x - e) + i \in 1..(l - e) /\ e + ((x - e) + i) = x + i
        <5>1. e <= x /\ x + len <= l
          BY <3>4, <3>5
        <5> QED BY <5>1, Shifted
      <4> QED BY <1>6, <3>4, <3>5, <4>1
    <3>7. to[k] = to[k - 1] + len
      <4>1. (x + len) - e = (x - e) + len
        OBVIOUS
      <4> QED BY ONLY <3>4, <3>5, <4>1
    <3> QED BY <3>2, <3>3, <3>6, <3>7
  <2>8. FramesAt(to)'
    <3>1. (r + 1) + 1 = r + 2
      BY <1>4
    <3> QED BY <1>1, <2>1, <2>5, <2>6, <2>7, <3>1 DEF FramesAt
  <2> QED BY <2>8
<1>8. Framed'
  <2>1. Reading' => Len(returned') = r + 1
    BY <1>5 DEF Reading
  <2> QED BY <1>1, <1>4, <1>7, <2>1 DEF Framed
<1>9. SizeRead' /\ Len(returned') <= Len(sent')
  BY <1>1, <1>4, <1>5 DEF SizeRead
<1> QED BY <1>8, <1>9 DEF IInv

(* Every step keeps the inductive invariant.                               *)
LEMMA Inductive == LengthsFit /\ IInv /\ [Next]_vars => IInv'
<1> SUFFICES ASSUME LengthsFit, IInv, [Next]_vars PROVE IInv'
  OBVIOUS
<1>0. TypeOK'
  BY TypeInductive DEF IInv
<1>1. CASE UNCHANGED vars
  <2>1. Stream' = Stream
    BY <1>1 DEF vars, Stream
  <2>2. ASSUME Reading PROVE \E at \in [Len(returned)..Len(sent) -> Nat] : FramesAt(at)'
    BY <1>1, <2>1, <2>2 DEF vars, IInv, Framed, FramesAt
  <2>3. Framed'
    BY <1>1, <2>2 DEF vars, Framed, Reading
  <2> QED BY <1>0, <1>1, <2>3 DEF vars, IInv, SizeRead
<1>2. ASSUME NEW body \in Encodings \cup Garbage, Send(body) PROVE IInv'
  BY <1>0, <1>2, SendKeeps
<1>3. ASSUME NEW n \in 0..Len(wire), ReadFrame(n) PROVE IInv'
  BY <1>0, <1>3, ReadFrameKeeps
<1>4. CASE ReadFails \/ Panic
  <2>1. UNCHANGED <<sent, returned, messageBin, messageSize>> /\ pc' \in {"failed", "panicked"}
    BY <1>4 DEF ReadFails, Panic
  <2> QED BY <1>0, <2>1 DEF IInv, SizeRead, Framed, Reading
<1>5. CASE TakeSize
  <2>1. /\ UNCHANGED <<sent, wire, messageBin, returned>> /\ messageSize' = GetUint16(messageBin)
        /\ Len(messageBin) >= 2 /\ pc = "size" /\ pc' = "body"
    BY <1>5 DEF TakeSize, SizeOfMessageSize
  <2>2. Stream' = Stream
    BY <2>1 DEF Stream
  <2>3. PICK at \in [Len(returned)..Len(sent) -> Nat] : FramesAt(at)
    BY <2>1 DEF IInv, Framed, Reading
  <2>4. FramesAt(at)'
    BY <2>1, <2>2, <2>3 DEF FramesAt
  <2>5. Framed'
    BY <2>1, <2>4 DEF Framed
  <2> QED BY <1>0, <2>1, <2>5 DEF IInv, SizeRead, GetUint16
<1>6. CASE TakeBody
  BY <1>0, <1>6, TakeBodyKeeps
<1> QED BY <1>1, <1>2, <1>3, <1>4, <1>5, <1>6 DEF Next

LEMMA IInvHolds == LengthsFit /\ Spec => []IInv
<1> SUFFICES ASSUME LengthsFit PROVE Spec => []IInv
  OBVIOUS
<1>1. IInv /\ [Next]_vars => IInv'
  BY Inductive
<1> QED BY <1>1, InitIInv, PTL DEF Spec

(* The reader's variables keep their types, and the size it read is one of *)
(* two bytes, whatever the bodies' lengths.                                *)
THEOREM TypeCorrect == Spec => []TypeOK
<1>1. Init => TypeOK
  BY InitIInv DEF IInv
<1> QED BY <1>1, TypeInductive, PTL DEF Spec

(* messagerw.go:124-127: the message that Next reports as malformed is the *)
(* one the peer sent malformed.                                            *)
THEOREM FailsRightly == LengthsFit /\ Spec => FailsOnGarbageOnly
<1> SUFFICES ASSUME LengthsFit PROVE Spec => FailsOnGarbageOnly
  OBVIOUS
<1>1. IInv /\ [Next]_vars => [TakeBody /\ pc' = "failed" => sent[Len(returned) + 1] \in Garbage]_vars
  BY NextMessage DEF Reading
<1> QED BY <1>1, IInvHolds, PTL DEF Spec, FailsOnGarbageOnly

(* messagerw.go:87-93: without its fairness MessageReader implements the   *)
(* channel: every step returns the next message that was sent, fails, is   *)
(* the peer's or is not seen.                                              *)
THEOREM ReadsChannel ==
    LengthsFit /\ Spec => Channel!Init /\ [][Channel!Next]_Channel!vars
<1> SUFFICES ASSUME LengthsFit PROVE Spec => Channel!Init /\ [][Channel!Next]_Channel!vars
  OBVIOUS
<1>1. Init => Channel!Init
  BY DEF Init, Channel!Init, Reading
<1>2. ASSUME IInv, [Next]_vars PROVE [Channel!Next]_Channel!vars
  <2>1. CASE UNCHANGED vars
    BY <2>1 DEF vars, Channel!vars, Reading
  <2>2. ASSUME NEW body \in Encodings \cup Garbage, Send(body) PROVE Channel!Next
    BY <2>2 DEF Send, Channel!Next, Channel!Send, Reading
  <2>3. ASSUME NEW n \in 0..Len(wire), ReadFrame(n) PROVE UNCHANGED Channel!vars
    BY <2>3 DEF ReadFrame, Channel!vars, Reading
  <2>4. CASE ReadFails \/ Panic
    BY <2>4 DEF ReadFails, Panic, Channel!Next, Channel!Fail, Reading
  <2>5. CASE TakeSize
    BY <2>5 DEF TakeSize, Channel!vars, Reading
  <2>6. CASE TakeBody
    <3>1. UNCHANGED sent
      BY <2>6 DEF TakeBody
    <3> QED BY <1>2, <2>6, <3>1, NextMessage DEF Channel!Next, Channel!Return, Channel!Fail
  <2> QED BY <1>2, <2>1, <2>2, <2>3, <2>4, <2>5, <2>6 DEF Next
<1> QED BY <1>1, <1>2, IInvHolds, PTL DEF Spec

(* messagerw.go:95-110: the sum of the two sizes overflows only for bodies *)
(* whose own size leaves no room for two more.                             *)
THEOREM NeverPanics ==
    (\A body \in Encodings \cup Garbage : Len(body) + 2 < Base * Base) /\ Spec
        => []EveryLengthReadable
<1> SUFFICES ASSUME \A body \in Encodings \cup Garbage : Len(body) + 2 < Base * Base
             PROVE  Spec => []EveryLengthReadable
  OBVIOUS
<1>0. LengthsFit
  BY DEF LengthsFit
<1>1. ASSUME IInv, Panic PROVE FALSE
  <2>1. pc = "body" /\ EndOfMessage < 2
    BY <1>1 DEF Panic, SizeOfMessageSize
  <2>2. PICK at \in [Len(returned)..Len(sent) -> Nat] : FramesAt(at)
    BY <1>1, <2>1 DEF IInv, Framed, Reading
  <2>3. PICK body \in Encodings \cup Garbage : messageSize = Len(body)
    BY <1>0, <1>1, <2>1, <2>2, FirstFrame
  <2>4. Len(body) \in Nat /\ Len(body) + 2 < Base * Base
    BY FrameFacts
  <2>5. EndOfMessage = Len(body) + 2
    BY <2>3, <2>4, Uint16Small DEF EndOfMessage, SizeOfMessageSize
  <2> QED BY <2>1, <2>4, <2>5
<1>2. IInv /\ EveryLengthReadable /\ [Next]_vars => EveryLengthReadable'
  BY <1>1 DEF EveryLengthReadable, Next, vars, Send, ReadFrame, ReadFails, TakeSize, TakeBody
<1>3. Init => EveryLengthReadable
  BY DEF Init, EveryLengthReadable
<1> QED BY <1>0, <1>2, <1>3, IInvHolds, PTL DEF Spec
=============================================================================
