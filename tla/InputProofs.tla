------------------------------ MODULE InputProofs ------------------------------
(***************************************************************************)
(* Proofs about Input, for any descriptors, keys and devices.              *)
(***************************************************************************)
EXTENDS Input, FiniteSetTheorems, SequenceTheorems, TLAPS

\* How far the mouse is set up: replies to come while its packets do not, and
\* a decoder that waits for a header where the mouse is between packets.
MouseInv ==
  /\ mp \in 0..3 /\ initphase \in {-1, 0} /\ acks \in 0..2 /\ pos \in 0..2
  /\ slip \in {"no", "skips", "yes"}
  /\ acks > 0 => /\ pos = 0 /\ slip = "no"
                 /\ \/ mp = 0 /\ initphase = 0 /\ acks = 1
                    \/ mp = 0 /\ initphase = -1 /\ acks = 2
                    \/ mp = 1 /\ acks = 1
  /\ slip = "skips" => mp = 1 /\ pos > 0
  /\ mp > 0 /\ slip = "no" => mp = pos + 1
  /\ device = NoDevice /\ acks = 0 => mp > 0

\* The initial state satisfies MouseInv.
LEMMA InitMouse == Init => MouseInv
BY InputAssumption DEF Init, MouseInv

\* Every step keeps it.
LEMMA StepMouse == MouseInv /\ [Next]_vars => MouseInv'
<1> SUFFICES ASSUME MouseInv, [Next]_vars PROVE MouseInv'
  OBVIOUS
<1>1. ASSUME UNCHANGED mouse, UNCHANGED device PROVE MouseInv'
  BY <1>1 DEF MouseInv, mouse
<1>2. CASE MouseAck
  BY <1>2 DEF MouseAck, MouseMoves, usb, hid, MouseByte, MouseInv
<1>3. CASE MousePacket
  <2>1. PICK header \in BOOLEAN :
          /\ MouseByte("data", header)
          /\ slip' = IF slip = "yes" \/ (slip = "skips" /\ header /\ pos > 0) THEN "yes"
                     ELSE IF pos = 0 /\ ~header THEN "skips"
                     ELSE IF pos = 2 THEN "no" ELSE slip
    BY <1>3 DEF MousePacket
  <2>2. acks = 0 /\ mp > 0 /\ acks' = 0 /\ pos' = (IF pos = 2 THEN 0 ELSE pos + 1) /\ pos \in 0..2
        /\ device' = device
    BY <1>3 DEF MousePacket, MouseMoves, usb, hid, MouseInv
  <2>3. /\ mp \in 0..3 /\ initphase \in {-1, 0} /\ slip \in {"no", "skips", "yes"}
        /\ slip = "skips" => mp = 1 /\ pos > 0
        /\ mp > 0 /\ slip = "no" => mp = pos + 1
    BY DEF MouseInv
  <2>4. /\ initphase' = initphase
        /\ mp' = IF mp = 1 THEN IF header THEN 2 ELSE 1
                 ELSE IF mp = 2 THEN 3 ELSE 1
    BY <2>1, <2>2, <2>3 DEF MouseByte
  <2> QED BY <2>1, <2>2, <2>3, <2>4 DEF MouseInv
<1>4. CASE MouseLoses
  BY <1>4 DEF MouseLoses, MouseMoves, usb, hid, MouseInv
<1>5. CASE KeyHandle \/ RtcHandle \/ Refresh
  BY <1>5, <1>1 DEF KeyHandle, RtcHandle, Refresh, usb, hid
<1>6. CASE ControlEnds \/ ReportEnds \/ TransferFails \/ \E k \in Keys : KeyMoves(k)
  BY <1>6, <1>1 DEF ControlEnds, ReportEnds, TransferFails, KeyMoves, Ends, hid
<1>7. ASSUME NEW t \in Task,
             HidInit(t) \/ HidFails(t) \/ HidReport(t) \/ MassReady(t) \/ Write(t) \/ CompEnd(t)
      PROVE  MouseInv'
  BY <1>7, <1>1 DEF HidInit, HidFails, HidReport, MassReady, Write, CompEnd, usb, hid
<1>8. CASE \/ KernelMessage \/ KernelPost \/ PostEnd \/ KernelKey
           \/ KernelKeys \/ KernelUsage \/ KernelCodes
  BY <1>8, <1>1 DEF KernelMessage, KernelPost, PostEnd, KernelKey, KernelKeys, KernelUsage,
                    KernelCodes, Taken, usb, hid
<1>9. CASE UNCHANGED vars
  BY <1>9, <1>1 DEF vars, usb, hid
<1> QED BY <1>2, <1>3, <1>4, <1>5, <1>6, <1>7, <1>8, <1>9 DEF Next

\* The mouse decoder stands where the packet stands, unless a byte was lost or
\* a later byte of a packet without a header looks like one (mousehandle()).
THEOREM MouseAligned == Spec => []Aligned
<1>1. MouseInv => Aligned
  BY DEF MouseInv, Aligned
<1> QED BY <1>1, InitMouse, StepMouse, PTL DEF Spec

-------------------------------------------------------------------------------
(* Messages and their frames *)

Kinds == {0, 1, 2, 5, 6, 7, 9}
Codes == Keys \cup {None, RollOver}

\* The words that are written: the content is in the second word of a key, and
\* behind the first one of the keys of a report.
Words == {w \in [m : Kinds, i : Nat, v : Int] :
            /\ w.i = 0 \/ w.m \notin {2, 5} => w.v = 0
            /\ w.m = 5 /\ w.i = 1 => w.v \in Nat
            /\ w.m = 5 /\ w.i > 1 => w.v \in Codes}

\* How many words the message has that begins at k.
Size(s, k) == IF s[k].m = 2 THEN 2
              ELSE IF s[k].m = 5 THEN 2 + s[k + 1].v ELSE Length[s[k].m]

\* The message that begins at k is there as a whole.
Frame(s, k) == /\ s[k].m = 5 => k < Len(s) /\ s[k + 1].m = 5 /\ s[k + 1].i = 1
               /\ k + Size(s, k) - 1 <= Len(s)
               /\ \A n \in k..(k + Size(s, k) - 1) : s[n].m = s[k].m /\ s[n].i = n - k

\* The words s are whole messages, behind l keys that are left of a report.
Framed(s, l) ==
  /\ l <= Len(s)
  /\ \A k \in 1..l : s[k].m = 5 /\ s[k].i > 1
  /\ \A k \in (l + 1)..Len(s) :
       /\ s[k].i = 0 => Frame(s, k)
       /\ s[k].i > 0 => /\ k - s[k].i > l
                        /\ s[k - s[k].i].i = 0
                        /\ s[k].i < Size(s, k - s[k].i)

\* The fields of a word.
LEMMA WordAt ==
  ASSUME NEW s \in Seq(Words), NEW k \in 1..Len(s)
  PROVE  /\ s[k] \in Words
         /\ s[k].m \in Kinds /\ s[k].i \in Nat /\ s[k].v \in Int
         /\ s[k] = Word(s[k].m, s[k].i, s[k].v)
         /\ s[k].i = 0 \/ s[k].m \notin {2, 5} => s[k].v = 0
         /\ s[k].m = 5 /\ s[k].i = 1 => s[k].v \in Nat
         /\ s[k].m = 5 /\ s[k].i > 1 => s[k].v \in Codes
<1>1. s[k] \in Words
  OBVIOUS
<1>2. s[k] \in [m : Kinds, i : Nat, v : Int]
  BY <1>1 DEF Words
<1>3. s[k] = Word(s[k].m, s[k].i, s[k].v)
  BY <1>2 DEF Word
<1> QED BY <1>1, <1>2, <1>3 DEF Words

\* The size of a message that is there as a whole.
LEMMA SizeType ==
  ASSUME NEW s \in Seq(Words), NEW k \in 1..Len(s), s[k].m = 5 => k < Len(s) /\ s[k + 1].m = 5 /\ s[k + 1].i = 1
  PROVE  /\ Size(s, k) \in Nat /\ Size(s, k) >= 1
         /\ s[k].m \in {2, 5} => Size(s, k) >= 2
         /\ s[k].m \notin {2, 5} => Size(s, k) = Length[s[k].m] /\ s[k].m \in {0, 1, 6, 7, 9}
<1>1. s[k].m \in Kinds
  BY WordAt
<1>2. CASE s[k].m = 5
  <2>1. k + 1 \in 1..Len(s) /\ s[k + 1].m = 5 /\ s[k + 1].i = 1
    BY <1>2
  <2>2. s[k + 1].v \in Nat
    BY <2>1, WordAt
  <2> QED BY <2>2, <1>2 DEF Size
<1>3. CASE s[k].m = 2
  BY <1>3 DEF Size
<1>4. CASE s[k].m \notin {2, 5}
  BY <1>1, <1>4 DEF Size, Kinds, Length
<1> QED BY <1>2, <1>3, <1>4

\* A message that is there is not empty.
LEMMA FrameSize ==
  ASSUME NEW s \in Seq(Words), NEW k \in 1..Len(s), s[k].i = 0, Frame(s, k)
  PROVE  /\ Size(s, k) \in Nat /\ Size(s, k) >= 1
         /\ s[k].m \in {2, 5} => Size(s, k) >= 2
         /\ s[k].m = 5 => k < Len(s) /\ s[k + 1].m = 5 /\ s[k + 1].i = 1
<1>1. s[k].m = 5 => k < Len(s) /\ s[k + 1].m = 5 /\ s[k + 1].i = 1
  BY DEF Frame
<1> QED BY <1>1, SizeType

\* Frames look at their own words only: u has those of s behind d others.
LEMMA FrameMoved ==
  ASSUME NEW s \in Seq(Words), NEW u \in Seq(Words), NEW d \in Int, NEW k \in 1..Len(s),
         k + d \in 1..Len(u), s[k].i = 0, Frame(s, k),
         \A n \in k..Len(s) : n < k + Size(s, k) => n + d \in 1..Len(u) /\ u[n + d] = s[n]
  PROVE  u[k + d] = s[k] /\ Size(u, k + d) = Size(s, k) /\ Frame(u, k + d)
<1>1. /\ Size(s, k) \in Nat /\ Size(s, k) >= 1
      /\ s[k].m \in {2, 5} => Size(s, k) >= 2
      /\ s[k].m = 5 => k < Len(s) /\ s[k + 1].m = 5 /\ s[k + 1].i = 1
  BY FrameSize
<1>2. k + Size(s, k) - 1 <= Len(s)
  BY DEF Frame
<1>3. \A n \in k..(k + Size(s, k) - 1) : s[n].m = s[k].m /\ s[n].i = n - k
  BY DEF Frame
<1> DEFINE z == Size(s, k)
<1>4. \A n \in k..(k + z - 1) : n + d \in 1..Len(u) /\ u[n + d] = s[n]
  BY <1>1, <1>2
<1>5. u[k + d] = s[k]
  BY <1>4, <1>1
<1>6. s[k].m = 5 => k + d < Len(u) /\ u[k + d + 1] = s[k + 1]
  <2> SUFFICES ASSUME s[k].m = 5 PROVE k + d < Len(u) /\ u[k + d + 1] = s[k + 1]
    OBVIOUS
  <2>1. k + 1 \in k..(k + z - 1)
    BY <1>1
  <2>2. (k + 1) + d \in 1..Len(u) /\ u[(k + 1) + d] = s[k + 1]
    BY <1>4, <2>1
  <2>3. (k + 1) + d = k + d + 1
    OBVIOUS
  <2> QED BY <2>2, <2>3
<1>7. Size(u, k + d) = z
  BY <1>5, <1>6 DEF Size
<1>8. (k + d) + z - 1 <= Len(u)
  <2>1. k + z - 1 \in k..(k + z - 1)
    BY <1>1
  <2> QED BY <2>1, <1>4, <1>1
<1>9. ASSUME NEW n \in (k + d)..(k + d + z - 1)
      PROVE  u[n].m = u[k + d].m /\ u[n].i = n - (k + d)
  <2>1. n - d \in k..(k + z - 1) /\ (n - d) + d = n
    BY <1>1
  <2> HIDE DEF z
  <2>2. u[n] = s[n - d]
    BY <1>4, <2>1
  <2>3. s[n - d].m = s[k].m /\ s[n - d].i = (n - d) - k
    BY <1>3, <2>1 DEF z
  <2> QED BY <2>2, <2>3, <1>5, <2>1
<1> HIDE DEF z
<1>10. Frame(u, k + d)
  <2>1. u[k + d].m = 5 => k + d < Len(u) /\ u[k + d + 1].m = 5 /\ u[k + d + 1].i = 1
    BY <1>5, <1>6, <1>1
  <2> QED BY <2>1, <1>7, <1>8, <1>9 DEF Frame
<1> QED BY <1>5, <1>7, <1>10 DEF z

\* The same where they are at the same place.
LEMMA FrameStays ==
  ASSUME NEW s \in Seq(Words), NEW u \in Seq(Words), NEW k \in 1..Len(s),
         k \in 1..Len(u), s[k].i = 0, Frame(s, k),
         \A n \in k..Len(s) : n < k + Size(s, k) => n \in 1..Len(u) /\ u[n] = s[n]
  PROVE  u[k] = s[k] /\ Size(u, k) = Size(s, k) /\ Frame(u, k)
<1>1. \A n \in k..Len(s) : n + 0 = n
  OBVIOUS
<1>2. k + 0 = k
  OBVIOUS
<1>3. \A n \in k..Len(s) : n < k + Size(s, k) => n + 0 \in 1..Len(u) /\ u[n + 0] = s[n]
  BY <1>1, Zenon
<1>4. k + 0 \in 1..Len(u)
  BY <1>2
<1>5. u[k + 0] = s[k] /\ Size(u, k + 0) = Size(s, k) /\ Frame(u, k + 0)
  <2>1. 0 \in Int
    OBVIOUS
  <2> QED BY <1>3, <1>4, <2>1, FrameMoved, Zenon
<1> QED BY <1>2, <1>5, Zenon

\* No words are no message.
LEMMA FramedEmpty == Framed(<<>>, 0)
BY DEF Framed

\* Whole messages begin with a first word.
LEMMA FramedHead ==
  ASSUME NEW s \in Seq(Words), Framed(s, 0), s # <<>>
  PROVE  1 \in 1..Len(s) /\ s[1].i = 0 /\ Frame(s, 1)
<1>1. 1 \in 1..Len(s)
  OBVIOUS
<1>2. s[1].i \in Nat
  BY <1>1, WordAt
<1> QED BY <1>1, <1>2 DEF Framed

\* Words behind words.
LEMMA Joined ==
  ASSUME NEW s \in Seq(Words), NEW t \in Seq(Words)
  PROVE  /\ s \o t \in Seq(Words) /\ Len(s \o t) = Len(s) + Len(t)
         /\ Len(s) \in Nat /\ Len(t) \in Nat
         /\ \A n \in 1..Len(s) : (s \o t)[n] = s[n]
         /\ \A n \in 1..Len(t) : (s \o t)[n + Len(s)] = t[n]
OBVIOUS

\* Messages behind messages.
LEMMA FramedConcat ==
  ASSUME NEW s \in Seq(Words), NEW t \in Seq(Words), NEW l \in Nat, Framed(s, l), Framed(t, 0)
  PROVE  Framed(s \o t, l)
<1> DEFINE u == s \o t
<1>1. /\ u \in Seq(Words) /\ Len(u) = Len(s) + Len(t) /\ Len(s) \in Nat /\ Len(t) \in Nat
      /\ \A n \in 1..Len(s) : u[n] = s[n]
      /\ \A n \in 1..Len(t) : u[n + Len(s)] = t[n]
  OBVIOUS
<1> HIDE DEF u
<1>2. l <= Len(s) /\ \A k \in 1..l : s[k].m = 5 /\ s[k].i > 1
  BY DEF Framed
<1>3. ASSUME NEW k \in (l + 1)..Len(s)
      PROVE  /\ u[k].i = 0 => Frame(u, k)
             /\ u[k].i > 0 => /\ k - u[k].i > l
                              /\ u[k - u[k].i].i = 0
                              /\ u[k].i < Size(u, k - u[k].i)
  <2>1. k \in 1..Len(s) /\ u[k] = s[k] /\ s[k].i \in Nat
    BY <1>1, WordAt
  <2>2. ASSUME NEW n \in (l + 1)..Len(s), s[n].i = 0
        PROVE  Frame(u, n) /\ Size(u, n) = Size(s, n) /\ u[n] = s[n]
    <3>1. Frame(s, n)
      BY <2>2 DEF Framed
    <3>2. \A j \in n..Len(s) : j < n + Size(s, n) => j \in 1..Len(u) /\ u[j] = s[j]
      BY <1>1
    <3>3. n \in 1..Len(s) /\ n \in 1..Len(u)
      BY <1>1
    <3>4. u \in Seq(Words)
      BY <1>1
    <3> QED BY <3>1, <3>2, <3>3, <3>4, <2>2, FrameStays, Zenon
  <2>3. CASE s[k].i = 0
    BY <2>1, <2>2, <2>3
  <2>4. CASE s[k].i > 0
    <3>1. /\ k - s[k].i > l /\ s[k - s[k].i].i = 0
          /\ s[k].i < Size(s, k - s[k].i)
      BY <2>4, <2>1 DEF Framed
    <3>2. k - s[k].i \in (l + 1)..Len(s)
      BY <3>1, <2>1
    <3> QED BY <3>1, <3>2, <2>1, <2>2
  <2> QED BY <2>1, <2>3, <2>4
<1>4. ASSUME NEW k \in (Len(s) + 1)..Len(u)
      PROVE  /\ u[k].i = 0 => Frame(u, k)
             /\ u[k].i > 0 => /\ k - u[k].i > l
                              /\ u[k - u[k].i].i = 0
                              /\ u[k].i < Size(u, k - u[k].i)
  <2> DEFINE j == k - Len(s)
  <2>1. j \in 1..Len(t) /\ j + Len(s) = k /\ j \in Int
    BY <1>1
  <2> HIDE DEF j
  <2>2. u[k] = t[j] /\ t[j].i \in Nat
    BY <1>1, <2>1, WordAt
  <2>3. ASSUME NEW n \in 1..Len(t), t[n].i = 0
        PROVE  /\ Frame(u, n + Len(s)) /\ Size(u, n + Len(s)) = Size(t, n)
               /\ u[n + Len(s)] = t[n]
    <3>1. Frame(t, n)
      BY <2>3 DEF Framed
    <3>2. \A i_ \in n..Len(t) : i_ < n + Size(t, n) =>
            i_ + Len(s) \in 1..Len(u) /\ u[i_ + Len(s)] = t[i_]
      BY <1>1
    <3>3. n + Len(s) \in 1..Len(u) /\ Len(s) \in Int
      BY <1>1
    <3>4. u \in Seq(Words)
      BY <1>1
    <3> QED BY <3>1, <3>2, <3>3, <3>4, <2>3, FrameMoved, ZenonT(30)
  <2>4. CASE t[j].i = 0
    BY <2>1, <2>2, <2>3, <2>4
  <2>5. CASE t[j].i > 0
    <3> DEFINE i_ == t[j].i
               n == j - i_
    <3>1. /\ n > 0 /\ t[n].i = 0
          /\ i_ < Size(t, n)
      BY <2>5, <2>1 DEF Framed
    <3>2. i_ \in Nat /\ i_ > 0 /\ u[k].i = i_
      BY <2>2, <2>5
    <3> HIDE DEF i_
    <3>3. j \in Int /\ j <= Len(t) /\ Len(s) \in Nat /\ Len(t) \in Nat /\ l <= Len(s) /\ k = j + Len(s)
      BY <2>1, <1>1, <1>2
    <3>4. n \in 1..Len(t) /\ n + Len(s) = k - i_ /\ k - i_ > l
      BY <3>1, <3>2, <3>3
    <3> HIDE DEF n
    <3>5. /\ Frame(u, n + Len(s)) /\ Size(u, n + Len(s)) = Size(t, n)
          /\ u[n + Len(s)] = t[n]
      BY <3>1, <3>4, <2>3, Zenon
    <3>6. k - i_ > l /\ u[k - i_].i = 0 /\ i_ < Size(u, k - i_)
      BY <3>1, <3>4, <3>5
    <3> QED BY <3>2, <3>6
  <2> QED BY <2>2, <2>4, <2>5
<1>5. \A k \in (l + 1)..Len(u) : k \in (l + 1)..Len(s) \/ k \in (Len(s) + 1)..Len(u)
  BY <1>1
<1>6. l <= Len(u) /\ \A k \in 1..l : u[k].m = 5 /\ u[k].i > 1
  BY <1>1, <1>2
<1>7. Framed(u, l)
  BY <1>3, <1>4, <1>5, <1>6 DEF Framed
<1> QED BY <1>7 DEF u

\* What is in front of a first word are whole messages.
LEMMA FramedFront ==
  ASSUME NEW s \in Seq(Words), NEW t \in Seq(Words), NEW l \in Nat, l <= Len(s),
         Framed(s \o t, l), t # <<>> => t[1].i = 0
  PROVE  Framed(s, l)
<1> DEFINE u == s \o t
<1>1. /\ u \in Seq(Words) /\ Len(u) = Len(s) + Len(t) /\ Len(s) \in Nat /\ Len(t) \in Nat
      /\ \A n \in 1..Len(s) : u[n] = s[n]
      /\ \A n \in 1..Len(t) : u[n + Len(s)] = t[n]
  OBVIOUS
<1>2. Framed(u, l)
  OBVIOUS
<1> HIDE DEF u
<1>3. \A k \in 1..l : s[k].m = 5 /\ s[k].i > 1
  BY <1>1, <1>2 DEF Framed
<1>4. ASSUME NEW n \in (l + 1)..Len(s), s[n].i = 0
      PROVE  Frame(s, n) /\ Size(s, n) = Size(u, n)
  <2>1. n \in (l + 1)..Len(u) /\ n \in 1..Len(u) /\ n \in 1..Len(s) /\ u[n].i = 0
    BY <1>1, <1>4
  <2>2. Frame(u, n)
    BY <2>1, <1>2 DEF Framed
  <2>3. /\ Size(u, n) \in Nat /\ Size(u, n) >= 1 /\ n + Size(u, n) - 1 <= Len(u)
        /\ \A k \in n..(n + Size(u, n) - 1) : u[k].i = k - n
    BY <2>1, <2>2, <1>1, FrameSize DEF Frame
  <2>4. ASSUME n + Size(u, n) - 1 > Len(s) PROVE FALSE
    <3>1. Len(s) + 1 \in n..(n + Size(u, n) - 1) /\ t # <<>> /\ 1 \in 1..Len(t)
      BY <2>1, <2>3, <2>4, <1>1
    <3>2. u[Len(s) + 1].i = (Len(s) + 1) - n
      BY <3>1, <2>3
    <3>3. u[1 + Len(s)] = t[1] /\ 1 + Len(s) = Len(s) + 1
      BY <3>1, <1>1
    <3> QED BY <3>1, <3>2, <3>3, <2>1
  <2>5. n + Size(u, n) - 1 <= Len(s)
    BY <2>4, <2>3, <1>1
  <2>6. \A k \in n..Len(u) : k < n + Size(u, n) => k \in 1..Len(s) /\ s[k] = u[k]
    BY <2>5, <2>3, <2>1, <1>1
  <2>7. u \in Seq(Words)
    BY <1>1
  <2> QED BY <2>1, <2>2, <2>6, <2>7, FrameStays, Zenon
<1>5. ASSUME NEW k \in (l + 1)..Len(s)
      PROVE  /\ s[k].i = 0 => Frame(s, k)
             /\ s[k].i > 0 => /\ k - s[k].i > l
                              /\ s[k - s[k].i].i = 0
                              /\ s[k].i < Size(s, k - s[k].i)
  <2>1. k \in 1..Len(s) /\ k \in (l + 1)..Len(u) /\ u[k] = s[k] /\ s[k].i \in Nat
    BY <1>1, WordAt
  <2>2. CASE s[k].i > 0
    <3>1. k - s[k].i > l /\ u[k - s[k].i].i = 0 /\ s[k].i < Size(u, k - s[k].i)
      BY <2>1, <2>2, <1>2 DEF Framed
    <3>2. k - s[k].i \in (l + 1)..Len(s) /\ k - s[k].i \in 1..Len(s)
      <4> DEFINE i_ == s[k].i
                 e == Len(s)
      <4>1. k \in Int /\ e \in Nat /\ k <= e /\ i_ \in Nat /\ k - i_ > l
        BY <3>1, <2>1, <1>1
      <4> HIDE DEF i_, e
      <4>2. k - i_ \in (l + 1)..e /\ k - i_ \in 1..e
        BY <4>1
      <4> QED BY <4>2 DEF i_, e
    <3>3. u[k - s[k].i] = s[k - s[k].i]
      BY <3>2, <1>1, Zenon
    <3>4. s[k - s[k].i].i = 0
      BY <3>1, <3>3
    <3>5. Size(u, k - s[k].i) = Size(s, k - s[k].i)
      BY <3>2, <3>4, <1>4, Zenon
    <3>6. s[k].i # 0
      BY <2>2
    <3> QED BY <3>1, <3>4, <3>5, <3>6, Zenon
  <2> QED BY <2>2, <1>4, <2>1
<1> QED BY <1>3, <1>5 DEF Framed

\* What is behind messages, or within one of them, and begins with a first word
\* are whole messages.
LEMMA FramedBack ==
  ASSUME NEW s \in Seq(Words), NEW t \in Seq(Words), NEW l \in Nat, l <= Len(s),
         Framed(s \o t, l), t # <<>> => t[1].i = 0
  PROVE  Framed(t, 0)
<1> DEFINE u == s \o t
<1>1. /\ u \in Seq(Words) /\ Len(u) = Len(s) + Len(t) /\ Len(s) \in Nat /\ Len(t) \in Nat
      /\ \A n \in 1..Len(s) : u[n] = s[n]
      /\ \A n \in 1..Len(t) : u[n + Len(s)] = t[n]
  OBVIOUS
<1>2. Framed(u, l)
  OBVIOUS
<1> HIDE DEF u
<1>3. ASSUME NEW n \in 1..Len(t), t[n].i = 0
      PROVE  Frame(t, n) /\ Size(t, n) = Size(u, n + Len(s))
  <2> DEFINE p == n + Len(s)
  <2>1. p \in (l + 1)..Len(u) /\ p \in 1..Len(u) /\ u[p].i = 0 /\ p + (-Len(s)) = n
    BY <1>1, <1>3
  <2> HIDE DEF p
  <2>2. Frame(u, p)
    BY <2>1, <1>2 DEF Framed
  <2>3. \A k \in p..Len(u) : k < p + Size(u, p) =>
          k + (-Len(s)) \in 1..Len(t) /\ t[k + (-Len(s))] = u[k]
    <3> SUFFICES ASSUME NEW k \in p..Len(u)
                 PROVE  k + (-Len(s)) \in 1..Len(t) /\ t[k + (-Len(s))] = u[k]
      OBVIOUS
    <3>1. k + (-Len(s)) \in 1..Len(t) /\ (k + (-Len(s))) + Len(s) = k
      BY <2>1, <1>1
    <3> QED BY <3>1, <1>1
  <2>4. -Len(s) \in Int /\ u \in Seq(Words) /\ p + (-Len(s)) \in 1..Len(t)
    BY <1>1, <2>1
  <2>5. Size(t, n) = Size(u, p) /\ Frame(t, n)
    BY <2>1, <2>2, <2>3, <2>4, FrameMoved, ZenonT(30)
  <2> QED BY <2>5 DEF p
<1>4. ASSUME NEW j \in 1..Len(t)
      PROVE  /\ t[j].i = 0 => Frame(t, j)
             /\ t[j].i > 0 => /\ j - t[j].i > 0
                              /\ t[j - t[j].i].i = 0
                              /\ t[j].i < Size(t, j - t[j].i)
  <2>1. /\ t[j].i \in Nat /\ u[j + Len(s)] = t[j] /\ j + Len(s) \in (l + 1)..Len(u)
        /\ t # <<>> /\ 1 \in 1..Len(t)
    BY <1>1, WordAt
  <2>2. ASSUME t[j].i > 0
        PROVE  /\ j - t[j].i > 0 /\ t[j - t[j].i].i = 0
               /\ t[j].i < Size(t, j - t[j].i)
    <3> DEFINE p == (j + Len(s)) - t[j].i
    <3>1. p > l /\ u[p].i = 0 /\ t[j].i < Size(u, p)
      BY <2>1, <2>2, <1>2 DEF Framed
    <3>2. p \in Int /\ p <= Len(u) /\ j + Len(s) = p + t[j].i
      <4> DEFINE i_ == t[j].i
                 q == j + Len(s)
                 e == Len(u)
      <4>1. i_ \in Nat /\ q \in Int /\ q <= e /\ e \in Nat
        BY <2>1, <1>1
      <4> HIDE DEF i_, q, e
      <4>2. q - i_ \in Int /\ q - i_ <= e /\ q = (q - i_) + i_
        BY <4>1
      <4> QED BY <4>2, Zenon DEF i_, q, e
    <3>3. j + Len(s) = p + t[j].i /\ p \in (l + 1)..Len(u) /\ p \in 1..Len(u)
      <4> DEFINE e == Len(u)
      <4>1. e \in Nat /\ p <= e /\ p \in Int /\ p > l
        BY <3>1, <3>2, <1>1
      <4> HIDE DEF p, e
      <4>2. p \in (l + 1)..e /\ p \in 1..e
        BY <4>1
      <4> QED BY <3>2, <4>2, Zenon DEF p, e
    <3> HIDE DEF p
    <3>4. /\ Frame(u, p) /\ Size(u, p) \in Nat
          /\ \A k \in p..(p + Size(u, p) - 1) : u[k].i = k - p
      <4>1. Frame(u, p)
        BY <3>1, <3>3, <1>2 DEF Framed
      <4>2. Size(u, p) \in Nat
        BY <4>1, <3>1, <3>3, <1>1, FrameSize
      <4> QED BY <4>1, <4>2 DEF Frame
    <3>5. ASSUME p <= Len(s) PROVE FALSE
      <4>1. 1 + Len(s) \in p..(p + Size(u, p) - 1)
        <5> DEFINE i_ == t[j].i
                   z == Size(u, p)
                   e == Len(s)
        <5>1. i_ \in Nat /\ z \in Nat /\ e \in Nat /\ p \in Int /\ j \in Int /\ j >= 1
          BY <3>2, <3>4, <2>1, <1>1
        <5>2. j + e = p + i_ /\ i_ < z /\ p <= e
          BY <3>1, <3>3, <3>5
        <5> HIDE DEF i_, z, e
        <5>3. 1 + e \in p..(p + z - 1)
          BY <5>1, <5>2
        <5> QED BY <5>3 DEF z, e
      <4>2. u[1 + Len(s)].i = (1 + Len(s)) - p /\ u[1 + Len(s)] = t[1]
        BY <4>1, <3>4, <2>1, <1>1
      <4> QED BY <4>2, <3>5, <3>2, <2>1, <1>1
    <3>6. p > Len(s)
      BY <3>5, <3>2, <1>1
    <3>7. j - t[j].i \in 1..Len(t) /\ (j - t[j].i) + Len(s) = p
      <4> DEFINE i_ == t[j].i
      <4>1. i_ \in Nat /\ i_ > 0 /\ j \in Int /\ j <= Len(t) /\ Len(s) \in Nat /\ Len(t) \in Nat
        BY <2>1, <2>2, <1>1
      <4>2. j + Len(s) = p + i_ /\ p > Len(s) /\ p \in Int
        BY <3>2, <3>3, <3>6
      <4> HIDE DEF i_
      <4>3. j - i_ \in 1..Len(t) /\ (j - i_) + Len(s) = p
        BY <4>1, <4>2
      <4> QED BY <4>3 DEF i_
    <3>8. t[j - t[j].i].i = 0
      BY <3>7, <3>1, <1>1
    <3> QED BY <3>1, <3>7, <3>8, <1>3
  <2> QED BY <2>1, <2>2, <1>3
<1> QED BY <1>1, <1>4 DEF Framed

\* The words behind the first n.
LEMMA Dropped ==
  ASSUME NEW s \in Seq(Words), NEW n \in Nat, n <= Len(s)
  PROVE  /\ SubSeq(s, n + 1, Len(s)) \in Seq(Words)
         /\ Len(SubSeq(s, n + 1, Len(s))) = Len(s) - n
         /\ \A k \in 1..(Len(s) - n) : SubSeq(s, n + 1, Len(s))[k] = s[k + n]
OBVIOUS

\* What is left when a message was read, or the first two words of the keys of
\* a report.
LEMMA FramedRead ==
  ASSUME NEW s \in Seq(Words), Framed(s, 0), s # <<>>, NEW n \in 1..Size(s, 1),
         n < Size(s, 1) => s[1].m = 5 /\ n = 2
  PROVE  /\ n <= Len(s) /\ Size(s, 1) - n \in Nat /\ Size(s, 1) - n <= Len(s) - n
         /\ Framed(SubSeq(s, n + 1, Len(s)), Size(s, 1) - n)
<1> DEFINE u == SubSeq(s, n + 1, Len(s))
           l == Size(s, 1) - n
<1>1. /\ 1 \in 1..Len(s) /\ s[1].i = 0 /\ Frame(s, 1)
  BY FramedHead
<1>2. /\ Size(s, 1) \in Nat /\ n \in Nat /\ n >= 1 /\ n <= Size(s, 1) /\ Size(s, 1) <= Len(s)
      /\ \A k \in 1..Size(s, 1) : s[k].m = s[1].m /\ s[k].i = k - 1
  BY <1>1, FrameSize DEF Frame
<1>3. /\ n <= Len(s) /\ l \in Nat /\ l <= Len(s) - n
  BY <1>2
<1>4. /\ u \in Seq(Words) /\ Len(u) = Len(s) - n
      /\ \A k \in 1..Len(u) : u[k] = s[k + n]
  BY <1>2
<1> HIDE DEF u
<1>5. \A k \in 1..l : u[k].m = 5 /\ u[k].i > 1
  <2> SUFFICES ASSUME NEW k \in 1..l PROVE u[k].m = 5 /\ u[k].i > 1
    OBVIOUS
  <2>1. s[1].m = 5 /\ n = 2 /\ k + n \in 1..Size(s, 1) /\ k \in 1..Len(u)
    <3> DEFINE z == Size(s, 1)
               e == Len(u)
    <3>1. /\ z \in Nat /\ n \in Nat /\ n >= 1 /\ k \in 1..(z - n) /\ e \in Nat /\ z - n <= e
          /\ n < z => s[1].m = 5 /\ n = 2
      BY <1>2, <1>3, <1>4
    <3> HIDE DEF z, e
    <3>2. n < z /\ k + n \in 1..z /\ k \in 1..e
      BY <3>1
    <3> QED BY <3>1, <3>2 DEF z, e
  <2>2. u[k] = s[k + n] /\ s[k + n].m = s[1].m /\ s[k + n].i = (k + n) - 1
    BY <2>1, <1>2, <1>4
  <2> QED BY <2>1, <2>2
<1>6. ASSUME NEW k \in (l + 1)..Len(u), u[k].i = 0
      PROVE  Frame(u, k) /\ Size(u, k) = Size(s, k + n)
  <2>1. k + n \in 1..Len(s) /\ k \in 1..Len(u) /\ s[k + n].i = 0 /\ (k + n) + (-n) = k
    BY <1>2, <1>3, <1>4, <1>6
  <2>2. Frame(s, k + n)
    BY <2>1 DEF Framed
  <2>3. \A j \in (k + n)..Len(s) : j < (k + n) + Size(s, k + n) =>
          j + (-n) \in 1..Len(u) /\ u[j + (-n)] = s[j]
    <3> SUFFICES ASSUME NEW j \in (k + n)..Len(s)
                 PROVE  j + (-n) \in 1..Len(u) /\ u[j + (-n)] = s[j]
      OBVIOUS
    <3>1. j + (-n) \in 1..Len(u) /\ (j + (-n)) + n = j
      BY <2>1, <1>2, <1>4
    <3> QED BY <3>1, <1>4
  <2>4. -n \in Int /\ u \in Seq(Words) /\ (k + n) + (-n) \in 1..Len(u)
    BY <1>2, <1>4, <2>1
  <2>5. Size(u, (k + n) + (-n)) = Size(s, k + n) /\ Frame(u, (k + n) + (-n))
    BY <2>1, <2>2, <2>3, <2>4, FrameMoved, ZenonT(30)
  <2> QED BY <2>5, <2>1
<1>7. ASSUME NEW k \in (l + 1)..Len(u), u[k].i > 0
      PROVE  /\ k - u[k].i > l /\ u[k - u[k].i].i = 0
             /\ u[k].i < Size(u, k - u[k].i)
  <2> DEFINE p == (k + n) - u[k].i
  <2>1. k \in 1..Len(u) /\ u[k] = s[k + n] /\ k + n \in 1..Len(s) /\ u[k].i \in Nat
    <3>1. k \in 1..Len(u) /\ k + n \in 1..Len(s) /\ u \in Seq(Words)
      BY <1>2, <1>3, <1>4
    <3>2. u[k] = s[k + n]
      BY <3>1, <1>4, Zenon
    <3> QED BY <3>1, <3>2, WordAt
  <2>2. p > 0 /\ s[p].i = 0 /\ u[k].i < Size(s, p)
    BY <2>1, <1>7 DEF Framed
  <2>3. p \in Int /\ k + n = p + u[k].i /\ p \in 1..Len(s)
    <3> DEFINE i_ == u[k].i
               q == k + n
               e == Len(s)
    <3>1. i_ \in Nat /\ q \in Int /\ q <= e /\ e \in Nat /\ q - i_ > 0
      BY <2>1, <2>2
    <3> HIDE DEF i_, q, e
    <3>2. q - i_ \in Int /\ q = (q - i_) + i_ /\ q - i_ \in 1..e
      BY <3>1
    <3> QED BY <3>2, Zenon DEF i_, q, e
  <2> HIDE DEF p
  <2>4. p > Size(s, 1)
    <3>1. ASSUME p \in 1..Size(s, 1) PROVE FALSE
      <4>1. p = 1
        BY <3>1, <2>2, <1>2
      <4>2. k + n < 1 + Size(s, 1)
        BY <4>1, <2>2, <2>3, <2>1, <1>2
      <4> QED BY <4>2, <1>2, <1>3
    <3> QED BY <3>1, <2>3, <1>2
  <2>5. k - u[k].i \in (l + 1)..Len(u) /\ (k - u[k].i) + n = p
    <3> DEFINE i_ == u[k].i
    <3>1. /\ i_ \in Nat /\ i_ > 0 /\ k \in Int /\ k <= Len(s) - n /\ k + n = p + i_
          /\ Len(s) \in Nat
      BY <2>1, <2>3, <1>4, <1>7
    <3>2. p > Size(s, 1) /\ p \in Int /\ l = Size(s, 1) - n /\ n \in Nat /\ Size(s, 1) \in Nat
      BY <2>3, <2>4, <1>2
    <3>3. k - i_ \in Int /\ (k - i_) + n = p /\ k - i_ = p - n
      <4> HIDE DEF i_, l
      <4>1. k \in Int /\ n \in Int /\ i_ \in Int /\ p \in Int /\ p = (k + n) - i_
        BY <3>1, <3>2
      <4> QED BY <4>1
    <3>4. Len(u) = Len(s) - n
      BY <1>4
    <3> DEFINE e == Len(u)
               z == Size(s, 1)
               b == k - i_
    <3>5. /\ e \in Int /\ z \in Nat /\ b \in Int /\ b = p - n /\ b <= e /\ p > z /\ l = z - n
          /\ n \in Nat
      BY <3>1, <3>2, <3>3, <3>4
    <3> HIDE DEF i_, l, e, z, b
    <3>6. b \in (l + 1)..e
      BY <3>2, <3>5
    <3> QED BY <3>3, <3>6 DEF e, b, i_
  <2>6. u[k - u[k].i] = s[p]
    <3>1. k - u[k].i \in 1..Len(u)
      BY <2>5, <1>3
    <3> QED BY <2>5, <3>1, <1>4, Zenon
  <2>7. k - u[k].i > l
    BY <2>5, <1>3
  <2>8. u[k - u[k].i].i = 0
    BY <2>2, <2>6, Zenon
  <2>9. Size(u, k - u[k].i) = Size(s, p)
    BY <2>5, <2>8, <1>6, Zenon
  <2> QED BY <2>2, <2>7, <2>8, <2>9, Zenon
<1>8. \A k \in (l + 1)..Len(u) : u[k].i \in Nat
  BY <1>3, <1>4, WordAt
<1>9. Framed(u, l)
  BY <1>3, <1>4, <1>5, <1>6, <1>7, <1>8 DEF Framed
<1> QED BY <1>3, <1>9 DEF u

\* And when one of these keys was read.
LEMMA FramedNext ==
  ASSUME NEW s \in Seq(Words), NEW l \in Nat, l > 0, Framed(s, l)
  PROVE  /\ s # <<>> /\ l - 1 \in Nat /\ l - 1 <= Len(s) - 1
         /\ Framed(SubSeq(s, 2, Len(s)), l - 1)
<1> DEFINE u == SubSeq(s, 2, Len(s))
<1>1. l <= Len(s) /\ Len(s) \in Nat /\ s # <<>>
  BY DEF Framed
<1>2. /\ u \in Seq(Words) /\ Len(u) = Len(s) - 1
      /\ \A k \in 1..Len(u) : u[k] = s[k + 1]
  <2>1. 1 \in Nat /\ 1 <= Len(s) /\ 1 + 1 = 2
    BY <1>1
  <2>2. /\ SubSeq(s, 1 + 1, Len(s)) \in Seq(Words)
        /\ Len(SubSeq(s, 1 + 1, Len(s))) = Len(s) - 1
        /\ \A k \in 1..(Len(s) - 1) : SubSeq(s, 1 + 1, Len(s))[k] = s[k + 1]
    BY <2>1, Dropped, Zenon
  <2> QED BY <2>1, <2>2, Zenon
<1> HIDE DEF u
<1>3. \A k \in 1..(l - 1) : u[k].m = 5 /\ u[k].i > 1
  <2> SUFFICES ASSUME NEW k \in 1..(l - 1) PROVE u[k].m = 5 /\ u[k].i > 1
    OBVIOUS
  <2>1. k + 1 \in 1..l /\ k \in 1..Len(u)
    BY <1>1, <1>2
  <2> QED BY <2>1, <1>2 DEF Framed
<1>4. ASSUME NEW k \in l..Len(u), u[k].i = 0
      PROVE  Frame(u, k) /\ Size(u, k) = Size(s, k + 1)
  <2>1. /\ k + 1 \in 1..Len(s) /\ k + 1 \in (l + 1)..Len(s) /\ k \in 1..Len(u)
        /\ s[k + 1].i = 0 /\ (k + 1) + (-1) = k
    BY <1>1, <1>2, <1>4
  <2>2. Frame(s, k + 1)
    BY <2>1 DEF Framed
  <2>3. \A j \in (k + 1)..Len(s) : j < (k + 1) + Size(s, k + 1) =>
          j + (-1) \in 1..Len(u) /\ u[j + (-1)] = s[j]
    <3> SUFFICES ASSUME NEW j \in (k + 1)..Len(s)
                 PROVE  j + (-1) \in 1..Len(u) /\ u[j + (-1)] = s[j]
      OBVIOUS
    <3>1. j + (-1) \in 1..Len(u) /\ (j + (-1)) + 1 = j
      BY <2>1, <1>1, <1>2
    <3> QED BY <3>1, <1>2
  <2>4. -1 \in Int /\ u \in Seq(Words) /\ (k + 1) + (-1) \in 1..Len(u)
    BY <1>2, <2>1
  <2>5. Size(u, (k + 1) + (-1)) = Size(s, k + 1) /\ Frame(u, (k + 1) + (-1))
    BY <2>1, <2>2, <2>3, <2>4, FrameMoved, ZenonT(30)
  <2> QED BY <2>5, <2>1
<1>5. ASSUME NEW k \in l..Len(u), u[k].i > 0
      PROVE  /\ k - u[k].i > l - 1 /\ u[k - u[k].i].i = 0
             /\ u[k].i < Size(u, k - u[k].i)
  <2> DEFINE p == (k + 1) - u[k].i
  <2>1. /\ k \in 1..Len(u) /\ u[k] = s[k + 1] /\ k + 1 \in 1..Len(s) /\ u[k].i \in Nat
        /\ k + 1 \in (l + 1)..Len(s)
    BY <1>1, <1>2, WordAt
  <2>2. p > l /\ s[p].i = 0 /\ u[k].i < Size(s, p)
    BY <2>1, <1>5 DEF Framed
  <2>3. p \in Int /\ k + 1 = p + u[k].i
    BY <2>1
  <2> HIDE DEF p
  <2>5. k - u[k].i \in l..Len(u) /\ (k - u[k].i) + 1 = p /\ k - u[k].i \in 1..Len(u)
    <3> DEFINE i_ == u[k].i
               e == Len(u)
    <3>1. /\ p > l /\ p \in Int /\ k + 1 = p + i_ /\ i_ \in Nat /\ k \in Int /\ k <= e
          /\ e \in Nat
      BY <2>1, <2>2, <2>3, <1>2
    <3> HIDE DEF i_, e
    <3>2. k - i_ \in l..e /\ (k - i_) + 1 = p /\ k - i_ \in 1..e
      BY <3>1
    <3> QED BY <3>2 DEF i_, e
  <2>6. u[k - u[k].i] = s[p]
    BY <2>5, <1>2
  <2> QED BY <2>2, <2>5, <2>6, <1>4
<1>6. \A k \in ((l - 1) + 1)..Len(u) : k \in l..Len(u) /\ u[k].i \in Nat
  <2> SUFFICES ASSUME NEW k \in ((l - 1) + 1)..Len(u) PROVE k \in l..Len(u) /\ u[k].i \in Nat
    OBVIOUS
  <2>1. k \in l..Len(u) /\ k \in 1..Len(u) /\ u \in Seq(Words)
    BY <1>2
  <2> QED BY <2>1, WordAt
<1>7. Framed(u, l - 1)
  BY <1>1, <1>2, <1>3, <1>4, <1>5, <1>6 DEF Framed
<1> QED BY <1>1, <1>7 DEF u

-------------------------------------------------------------------------------
(* The messages that are written *)

\* A prefix, position by position.
LEMMA PrefixAt ==
  ASSUME NEW s \in Seq(Words), NEW t \in Seq(Words)
  PROVE  IsPrefix(s, t) <=> Len(s) <= Len(t) /\ \A k \in 1..Len(s) : t[k] = s[k]
<1>1. CASE Len(s) <= Len(t)
  <2>1. /\ SubSeq(s, 1, Len(s)) \in Seq(Words) /\ Len(SubSeq(s, 1, Len(s))) = Len(s)
        /\ \A k \in 1..Len(s) : SubSeq(s, 1, Len(s))[k] = s[k]
    OBVIOUS
  <2>2. /\ SubSeq(t, 1, Len(s)) \in Seq(Words) /\ Len(SubSeq(t, 1, Len(s))) = Len(s)
        /\ \A k \in 1..Len(s) : SubSeq(t, 1, Len(s))[k] = t[k]
    BY <1>1
  <2> DEFINE a == SubSeq(s, 1, Len(s))
             b == SubSeq(t, 1, Len(s))
  <2> HIDE DEF a, b
  <2>3. a = b <=> \A k \in 1..Len(s) : t[k] = s[k]
    <3>1. /\ a \in Seq(Words) /\ b \in Seq(Words) /\ Len(a) = Len(s) /\ Len(b) = Len(s)
          /\ \A k \in 1..Len(s) : a[k] = s[k] /\ b[k] = t[k]
      BY <2>1, <2>2 DEF a, b
    <3>2. (\A k \in 1..Len(s) : a[k] = b[k]) => a = b
      BY <3>1, SeqEqual
    <3> QED BY <3>1, <3>2
  <2> QED BY <2>3, <1>1 DEF IsPrefix, a, b
<1>2. CASE ~(Len(s) <= Len(t))
  BY <1>2 DEF IsPrefix
<1> QED BY <1>1, <1>2

\* Those without content.
LEMMA MessageFramed ==
  ASSUME NEW m \in {0, 1, 6, 7, 9}
  PROVE  /\ Message(m) \in Seq(Words) /\ Len(Message(m)) = Length[m] /\ Length[m] \in 1..5
         /\ \A k \in 1..Length[m] : Message(m)[k] = Word(m, k - 1, 0)
         /\ Framed(Message(m), 0)
<1>1. Length[m] \in 1..5
  BY DEF Length
<1>2. \A k \in 1..Length[m] : Word(m, k - 1, 0) \in Words
  <2> SUFFICES ASSUME NEW k \in 1..Length[m] PROVE Word(m, k - 1, 0) \in Words
    OBVIOUS
  <2>1. m \in Kinds /\ k - 1 \in Nat /\ m # 5 /\ m # 2
    BY <1>1 DEF Kinds
  <2> QED BY <2>1 DEF Word, Words
<1> DEFINE s == Message(m)
<1>3. /\ s \in Seq(Words) /\ Len(s) = Length[m]
      /\ \A k \in 1..Length[m] : s[k] = Word(m, k - 1, 0)
  BY <1>1, <1>2 DEF Message
<1> HIDE DEF s
<1>4. \A k \in 1..Length[m] : s[k].m = m /\ s[k].i = k - 1
  <2> SUFFICES ASSUME NEW k \in 1..Length[m] PROVE s[k].m = m /\ s[k].i = k - 1
    OBVIOUS
  <2>1. s[k] = Word(m, k - 1, 0)
    BY <1>3
  <2> QED BY <2>1 DEF Word
<1>5. Size(s, 1) = Length[m]
  BY <1>1, <1>4 DEF Size
<1>6. Frame(s, 1)
  <2>1. s[1].m = m /\ m # 5 /\ 1 + Size(s, 1) - 1 = Length[m]
    BY <1>1, <1>4, <1>5
  <2> QED BY <2>1, <1>3, <1>4, <1>5 DEF Frame
<1>7. ASSUME NEW k \in 1..Len(s), s[k].i > 0
      PROVE  k - s[k].i > 0 /\ s[k - s[k].i].i = 0 /\ s[k].i < Size(s, k - s[k].i)
  <2>1. k - s[k].i = 1 /\ s[k].i < Length[m]
    BY <1>1, <1>3, <1>4
  <2> QED BY <2>1, <1>1, <1>4, <1>5
<1>8. \A k \in 1..Len(s) : s[k].i = 0 => k = 1
  BY <1>1, <1>3, <1>4
<1>9. Framed(s, 0)
  BY <1>1, <1>3, <1>6, <1>7, <1>8 DEF Framed
<1> QED BY <1>1, <1>3, <1>9 DEF s

\* The one of a key.
LEMMA KeyMessageFramed ==
  ASSUME NEW v \in Int
  PROVE  /\ KeyMessage(v) \in Seq(Words) /\ Len(KeyMessage(v)) = 2
         /\ KeyMessage(v)[1] = Word(2, 0, 0) /\ KeyMessage(v)[2] = Word(2, 1, v)
         /\ Framed(KeyMessage(v), 0)
<1> DEFINE s == KeyMessage(v)
<1>1. Word(2, 0, 0) \in Words /\ Word(2, 1, v) \in Words
  BY DEF Word, Words, Kinds
<1>2. s \in Seq(Words) /\ Len(s) = 2 /\ s[1] = Word(2, 0, 0) /\ s[2] = Word(2, 1, v)
  BY <1>1 DEF KeyMessage
<1> HIDE DEF s
<1>3. s[1].m = 2 /\ s[1].i = 0 /\ s[2].m = 2 /\ s[2].i = 1
  BY <1>2 DEF Word
<1>4. Size(s, 1) = 2
  BY <1>3 DEF Size
<1>5. Frame(s, 1)
  BY <1>2, <1>3, <1>4 DEF Frame
<1>6. \A k \in 1..Len(s) : k = 1 \/ k = 2
  BY <1>2
<1>7. Framed(s, 0)
  BY <1>2, <1>3, <1>4, <1>5, <1>6 DEF Framed
<1> QED BY <1>2, <1>7 DEF s

\* Those of several keys.
LEMMA KeyMessagesFramed ==
  ASSUME NEW vs \in Seq(Int)
  PROVE  /\ KeyMessages(vs) \in Seq(Words) /\ Len(KeyMessages(vs)) = 2 * Len(vs)
         /\ \A n \in 1..Len(vs) : /\ KeyMessages(vs)[2 * n - 1] = Word(2, 0, 0)
                                  /\ KeyMessages(vs)[2 * n] = Word(2, 1, vs[n])
         /\ Framed(KeyMessages(vs), 0)
<1> DEFINE s == KeyMessages(vs)
<1>1. Len(vs) \in Nat /\ 2 * Len(vs) \in Nat
  OBVIOUS
<1>2. ASSUME NEW k \in 1..(2 * Len(vs))
      PROVE  \E n \in 1..Len(vs) :
               \/ k = 2 * n - 1 /\ k % 2 = 1 /\ (k + 1) \div 2 = n
               \/ k = 2 * n /\ k % 2 = 0 /\ (k + 1) \div 2 = n
  <2>1. k % 2 = 0 \/ k % 2 = 1
    OBVIOUS
  <2>2. (k + 1) \div 2 \in 1..Len(vs)
    BY <1>1
  <2>3. k % 2 = 1 => k = 2 * ((k + 1) \div 2) - 1
    OBVIOUS
  <2>4. k % 2 = 0 => k = 2 * ((k + 1) \div 2)
    OBVIOUS
  <2> QED BY <2>1, <2>2, <2>3, <2>4, Zenon
<1>3. ASSUME NEW k \in 1..(2 * Len(vs)), NEW n \in 1..Len(vs),
             \/ k = 2 * n - 1 /\ k % 2 = 1 /\ (k + 1) \div 2 = n
             \/ k = 2 * n /\ k % 2 = 0 /\ (k + 1) \div 2 = n
      PROVE  /\ KeyMessage(vs[(k + 1) \div 2])[2 - (k % 2)] \in Words
             /\ KeyMessage(vs[(k + 1) \div 2])[2 - (k % 2)] =
                  IF k = 2 * n - 1 THEN Word(2, 0, 0) ELSE Word(2, 1, vs[n])
  <2>1. vs[n] \in Int
    OBVIOUS
  <2>2. /\ KeyMessage(vs[n]) \in Seq(Words) /\ Len(KeyMessage(vs[n])) = 2
        /\ KeyMessage(vs[n])[1] = Word(2, 0, 0) /\ KeyMessage(vs[n])[2] = Word(2, 1, vs[n])
    BY <2>1, KeyMessageFramed
  <2>3. KeyMessage(vs[n])[1] \in Words /\ KeyMessage(vs[n])[2] \in Words
    BY <2>2
  <2>4. CASE k = 2 * n - 1 /\ k % 2 = 1 /\ (k + 1) \div 2 = n
    <3>1. 2 - (k % 2) = 1
      BY <2>4
    <3> QED BY <3>1, <2>2, <2>3, <2>4
  <2>5. CASE k = 2 * n /\ k % 2 = 0 /\ (k + 1) \div 2 = n
    <3>1. 2 - (k % 2) = 2 /\ k # 2 * n - 1
      BY <2>5
    <3> QED BY <3>1, <2>2, <2>3, <2>5
  <2> QED BY <1>3, <2>4, <2>5
<1>4. \A k \in 1..(2 * Len(vs)) : KeyMessage(vs[(k + 1) \div 2])[2 - (k % 2)] \in Words
  BY <1>2, <1>3, Zenon
<1>5. /\ s \in Seq(Words) /\ Len(s) = 2 * Len(vs)
      /\ \A k \in 1..(2 * Len(vs)) : s[k] = KeyMessage(vs[(k + 1) \div 2])[2 - (k % 2)]
  BY <1>1, <1>4 DEF KeyMessages
<1> HIDE DEF s
<1>6. ASSUME NEW n \in 1..Len(vs)
      PROVE  s[2 * n - 1] = Word(2, 0, 0) /\ s[2 * n] = Word(2, 1, vs[n])
  <2> DEFINE a == 2 * n - 1
             b == 2 * n
  <2>1. /\ a \in 1..(2 * Len(vs)) /\ a % 2 = 1 /\ (a + 1) \div 2 = n
        /\ b \in 1..(2 * Len(vs)) /\ b % 2 = 0 /\ (b + 1) \div 2 = n /\ b # 2 * n - 1
    BY <1>1
  <2>2. a = 2 * n - 1 /\ b = 2 * n
    OBVIOUS
  <2> HIDE DEF a, b
  <2>3. s[a] = Word(2, 0, 0)
    BY <2>1, <2>2, <1>3, <1>5
  <2>4. s[b] = Word(2, 1, vs[n])
    BY <2>1, <2>2, <1>3, <1>5
  <2> QED BY <2>3, <2>4 DEF a, b
<1>7. ASSUME NEW n \in 1..Len(vs)
      PROVE  /\ s[2 * n - 1].m = 2 /\ s[2 * n - 1].i = 0 /\ s[2 * n].m = 2 /\ s[2 * n].i = 1
             /\ Size(s, 2 * n - 1) = 2 /\ Frame(s, 2 * n - 1)
  <2>1. s[2 * n - 1].m = 2 /\ s[2 * n - 1].i = 0 /\ s[2 * n].m = 2 /\ s[2 * n].i = 1
    <3>1. s[2 * n - 1] = Word(2, 0, 0) /\ s[2 * n] = Word(2, 1, vs[n])
      BY <1>6, Zenon
    <3> QED BY <3>1 DEF Word
  <2>2. Size(s, 2 * n - 1) = 2
    BY <2>1 DEF Size
  <2>3. (2 * n - 1) + Size(s, 2 * n - 1) - 1 <= Len(s)
    BY <2>2, <1>5
  <2>4. \A k \in (2 * n - 1)..((2 * n - 1) + Size(s, 2 * n - 1) - 1) : k = 2 * n - 1 \/ k = 2 * n
    BY <2>2
  <2>5. ASSUME NEW k \in (2 * n - 1)..((2 * n - 1) + Size(s, 2 * n - 1) - 1)
        PROVE  s[k].m = s[2 * n - 1].m /\ s[k].i = k - (2 * n - 1)
    <3>1. CASE k = 2 * n - 1
      BY <3>1, <2>1
    <3>2. CASE k = 2 * n
      BY <3>2, <2>1
    <3> QED BY <3>1, <3>2, <2>4
  <2>6. s[2 * n - 1].m = 5 => FALSE
    BY <2>1
  <2> QED BY <2>1, <2>2, <2>3, <2>5, <2>6, Zenon DEF Frame
<1>8. ASSUME NEW k \in 1..Len(s)
      PROVE  /\ s[k].i = 0 => Frame(s, k)
             /\ s[k].i > 0 => k - s[k].i > 0 /\ s[k - s[k].i].i = 0 /\ s[k].i < Size(s, k - s[k].i)
  <2>1. PICK n \in 1..Len(vs) : k = 2 * n - 1 \/ k = 2 * n
    <3>1. k \in 1..(2 * Len(vs))
      BY <1>5
    <3> QED BY <3>1, <1>2, Zenon
  <2>2. CASE k = 2 * n - 1
    <3>1. s[2 * n - 1].i = 0 /\ Frame(s, 2 * n - 1)
      BY <1>7, Zenon
    <3> QED BY <3>1, <2>2
  <2>3. CASE k = 2 * n
    <3>0. s[2 * n].i = 1 /\ s[2 * n - 1].i = 0 /\ Size(s, 2 * n - 1) = 2
      BY <1>7, Zenon
    <3>1. s[k].i = 1 /\ k - s[k].i = 2 * n - 1 /\ 2 * n - 1 > 0
      BY <2>3, <3>0
    <3> QED BY <3>1, <3>0
  <2> QED BY <2>1, <2>2, <2>3
<1>9. Framed(s, 0)
  BY <1>1, <1>5, <1>8 DEF Framed
<1> QED BY <1>5, <1>6, <1>9 DEF s

\* Those of a report.
LEMMA KeysMessageFramed ==
  ASSUME NEW us \in Seq(Codes)
  PROVE  /\ KeysMessage(us) \in Seq(Words) /\ Len(KeysMessage(us)) = Len(us) + 2
         /\ KeysMessage(us)[1] = Word(5, 0, 0) /\ KeysMessage(us)[2] = Word(5, 1, Len(us))
         /\ \A n \in 1..Len(us) : KeysMessage(us)[n + 2] = Word(5, n + 1, us[n])
         /\ Framed(KeysMessage(us), 0)
<1> DEFINE a == <<Word(5, 0, 0), Word(5, 1, Len(us))>>
           b == [k \in DOMAIN us |-> Word(5, k + 1, us[k])]
           s == KeysMessage(us)
<1>1. Len(us) \in Nat /\ DOMAIN us = 1..Len(us)
  OBVIOUS
<1>2. Word(5, 0, 0) \in Words /\ Word(5, 1, Len(us)) \in Words
  BY <1>1 DEF Word, Words, Kinds
<1>3. \A k \in 1..Len(us) : Word(5, k + 1, us[k]) \in Words
  <2> SUFFICES ASSUME NEW k \in 1..Len(us) PROVE Word(5, k + 1, us[k]) \in Words
    OBVIOUS
  <2>1. us[k] \in Codes
    OBVIOUS
  <2>2. us[k] \in Int /\ k + 1 \in Nat /\ k + 1 > 1
    <3>1. us[k] \in Keys \/ us[k] = 0 \/ us[k] = 1
      BY <2>1 DEF Codes, None, RollOver
    <3>2. Keys \subseteq Int
      BY InputAssumption
    <3>3. 0 \in Int /\ 1 \in Int
      OBVIOUS
    <3>5. us[k] \in Int
      BY <3>1, <3>2, <3>3, Zenon
    <3>4. k \in 1..Len(us) /\ Len(us) \in Nat
      BY <1>1
    <3> QED BY <3>4, <3>5
  <2> QED BY <2>1, <2>2 DEF Word, Words, Kinds
<1>4. a \in Seq(Words) /\ Len(a) = 2 /\ a[1] = Word(5, 0, 0) /\ a[2] = Word(5, 1, Len(us))
  BY <1>2
<1>5. b \in Seq(Words) /\ Len(b) = Len(us) /\ \A k \in 1..Len(us) : b[k] = Word(5, k + 1, us[k])
  BY <1>1, <1>3
<1>6. s = a \o b
  BY DEF KeysMessage
<1> HIDE DEF s, a, b
<1>7. /\ s \in Seq(Words) /\ Len(s) = Len(us) + 2
      /\ s[1] = Word(5, 0, 0) /\ s[2] = Word(5, 1, Len(us))
      /\ \A n \in 1..Len(us) : s[n + 2] = Word(5, n + 1, us[n])
  <2>1. /\ s \in Seq(Words) /\ Len(s) = Len(a) + Len(b)
        /\ \A n \in 1..Len(a) : s[n] = a[n]
        /\ \A n \in 1..Len(b) : s[n + Len(a)] = b[n]
    <3>1. a \in Seq(Words) /\ b \in Seq(Words)
      BY <1>4, <1>5
    <3> QED BY <3>1, <1>6, Joined, Zenon
  <2>2. ASSUME NEW n \in 1..Len(us) PROVE s[n + 2] = Word(5, n + 1, us[n])
    <3>1. s[n + 2] = b[n]
      BY <2>1, <1>4, <1>5
    <3> QED BY <3>1, <1>5
  <2>3. s[1] = a[1] /\ s[2] = a[2] /\ Len(s) = Len(us) + 2
    BY <2>1, <1>1, <1>4, <1>5
  <2> QED BY <2>1, <2>2, <2>3, <1>4
<1>8. ASSUME NEW k \in 1..Len(s) PROVE s[k].m = 5 /\ s[k].i = k - 1
  <2>1. CASE k <= 2
    <3>1. k = 1 \/ k = 2
      BY <2>1
    <3> QED BY <3>1, <1>7 DEF Word
  <2>2. CASE k > 2
    <3>1. k - 2 \in 1..Len(us) /\ (k - 2) + 2 = k /\ (k - 2) + 1 = k - 1
      BY <2>2, <1>1, <1>7
    <3>2. s[k] = Word(5, k - 1, us[k - 2])
      BY <3>1, <1>7
    <3> QED BY <3>2 DEF Word
  <2> QED BY <2>1, <2>2
<1>9. Size(s, 1) = Len(us) + 2
  <2>1. s[1].m = 5 /\ s[1 + 1].v = Len(us)
    BY <1>7 DEF Word
  <2> QED BY <2>1, <1>1 DEF Size
<1>10. Frame(s, 1)
  BY <1>1, <1>7, <1>8, <1>9 DEF Frame
<1>11. ASSUME NEW k \in 1..Len(s)
       PROVE  /\ s[k].i = 0 => Frame(s, k)
              /\ s[k].i > 0 => k - s[k].i > 0 /\ s[k - s[k].i].i = 0 /\ s[k].i < Size(s, k - s[k].i)
  <2>1. s[k].i = k - 1 /\ k - s[k].i = 1 /\ s[1].i = 0
    BY <1>8
  <2> QED BY <2>1, <1>7, <1>9, <1>10
<1>12. Framed(s, 0)
  BY <1>1, <1>7, <1>11 DEF Framed
<1> QED BY <1>7, <1>12 DEF s

-------------------------------------------------------------------------------
(* The invariant *)

Types ==
  /\ kernelbuf \in Seq(Words) /\ todo \in [Task -> Seq(Words)]
  /\ main \in {"loop", "post", "keys"} /\ left \in Nat
  /\ pk \subseteq Codes /\ bk \subseteq Codes /\ down \subseteq Keys
  /\ comp \in Task \cup {NoTask}
  /\ device \in DOMAIN Descriptors \cup {NoDevice}
  /\ phase \in {1234, 0, 1} /\ (phase # 1 => device \in DOMAIN Descriptors)
  /\ xfer \in {"none", "control", "report", "ended", "failed", "taken"}
  /\ fields.keys.size \in Nat
  /\ buf \in Seq(Codes) /\ pressed \subseteq Keys /\ cut \in BOOLEAN

\* The words ws begin within a message.
In(ws) == ws # <<>> /\ Head(ws).i > 0

\* The keys of a report that the event loop has yet to take.
Lead == IF main = "keys" THEN left ELSE 0

\* At most one task stands within a message, and the words in kb with those it
\* has yet to write are whole messages, behind l keys of a report.
FramesOf(kb, td, l) ==
  /\ l <= Len(kb)
  /\ \A t \in Task : ~In(td[t]) => Framed(td[t], 0)
  /\ \A t, o \in Task : In(td[t]) /\ o # t => ~In(td[o])
  /\ \A t \in Task : (\A o \in Task \ {t} : ~In(td[o])) => Framed(kb \o td[t], l)

Frames == /\ main = "keys" => todo[Main] = <<>>
          /\ ~cut => FramesOf(kernelbuf, todo, Lead)

IInv == Types /\ Frames /\ MouseInv

USE InputAssumption

\* Whole messages do not begin within one.
LEMMA FramedNotIn ==
  ASSUME NEW s \in Seq(Words), Framed(s, 0) \/ s = <<>>
  PROVE  ~In(s)
<1>1. CASE s = <<>>
  BY <1>1 DEF In
<1>2. CASE s # <<>> /\ Framed(s, 0)
  <2>1. s[1].i = 0 /\ Head(s) = s[1]
    BY <1>2, FramedHead
  <2> QED BY <2>1 DEF In
<1> QED BY <1>1, <1>2

\* Where nobody stands within a message, what is in kb are whole messages.
LEMMA Settled ==
  ASSUME NEW kb \in Seq(Words), NEW td \in [Task -> Seq(Words)], NEW l \in Nat,
         FramesOf(kb, td, l), \A t \in Task : ~In(td[t])
  PROVE  l <= Len(kb) /\ Framed(kb, l) /\ \A t \in Task : Framed(td[t], 0)
<1>1. l <= Len(kb) /\ Framed(kb \o td[Main], l) /\ \A t \in Task : Framed(td[t], 0)
  BY DEF FramesOf, Task
<1>2. td[Main] \in Seq(Words) /\ Framed(td[Main], 0)
  BY <1>1 DEF Task
<1>3. td[Main] # <<>> => td[Main][1].i = 0
  BY <1>2, FramedHead
<1> QED BY <1>1, <1>2, <1>3, FramedFront

\* And the other way round.
LEMMA Settle ==
  ASSUME NEW kb \in Seq(Words), NEW td \in [Task -> Seq(Words)], NEW l \in Nat,
         l <= Len(kb), Framed(kb, l), \A t \in Task : Framed(td[t], 0)
  PROVE  FramesOf(kb, td, l)
<1>1. \A t \in Task : td[t] \in Seq(Words)
  OBVIOUS
<1>2. \A t \in Task : ~In(td[t])
  BY <1>1, FramedNotIn
<1>3. \A t \in Task : Framed(kb \o td[t], l)
  BY <1>1, FramedConcat
<1> QED BY <1>2, <1>3 DEF FramesOf

\* A task writes its next word, and no other one stands within a message.
LEMMA WriteFrames ==
  ASSUME NEW kb \in Seq(Words), NEW td \in [Task -> Seq(Words)], NEW l \in Nat,
         FramesOf(kb, td, l), NEW t \in Task, td[t] # <<>>,
         \A o \in Task \ {t} : ~In(td[o])
  PROVE  FramesOf(kb \o <<Head(td[t])>>, [td EXCEPT ![t] = Tail(@)], l)
<1> DEFINE w == <<Head(td[t])>>
           k2 == kb \o w
           r == Tail(td[t])
           t2 == [td EXCEPT ![t] = r]
<1>1. td[t] \in Seq(Words)
  OBVIOUS
<1>2. w \in Seq(Words) /\ r \in Seq(Words) /\ w \o r = td[t]
  BY <1>1
<1>3. k2 \in Seq(Words) /\ k2 \o r = kb \o td[t] /\ Len(k2) = Len(kb) + 1 /\ l <= Len(kb)
  <2>1. k2 \in Seq(Words) /\ Len(k2) = Len(kb) + 1 /\ l <= Len(kb)
    BY <1>1, <1>2 DEF FramesOf
  <2>2. k2 \o r = kb \o (w \o r)
    BY <1>2, ConcatAssociative
  <2> QED BY <2>1, <2>2, <1>2
<1>4. Framed(kb \o td[t], l)
  BY DEF FramesOf
<1>5. t2[t] = r /\ \A o \in Task \ {t} : t2[o] = td[o]
  OBVIOUS
<1> HIDE DEF w, k2, r, t2
<1>6. Framed(k2 \o r, l) /\ l <= Len(k2)
  BY <1>3, <1>4
<1>7. ASSUME ~In(r) PROVE Framed(r, 0) /\ Framed(k2, l)
  <2>1. r # <<>> => r[1].i = 0
    <3>1. SUFFICES ASSUME r # <<>> PROVE r[1].i = 0
      OBVIOUS
    <3>2. 1 \in 1..Len(r) /\ Head(r) = r[1]
      BY <3>1, <1>2
    <3>3. r[1].i \in Nat
      BY <3>2, <1>2, WordAt
    <3> QED BY <3>1, <3>2, <3>3, <1>7 DEF In
  <2> QED BY <2>1, <1>2, <1>3, <1>6, FramedFront, FramedBack
<1>8. \A o \in Task : ~In(t2[o]) => Framed(t2[o], 0)
  BY <1>5, <1>7 DEF FramesOf
<1>9. \A u, o \in Task : In(t2[u]) /\ o # u => ~In(t2[o])
  BY <1>5
<1>10. ASSUME NEW u \in Task, \A o \in Task \ {u} : ~In(t2[o])
       PROVE  Framed(k2 \o t2[u], l)
  <2>1. CASE u = t
    BY <2>1, <1>5, <1>6
  <2>2. CASE u # t
    <3>1. Framed(k2, l)
      BY <2>2, <1>5, <1>7, <1>10
    <3>2. t2[u] = td[u] /\ td[u] \in Seq(Words) /\ Framed(td[u], 0)
      BY <2>2, <1>5 DEF FramesOf
    <3> QED BY <3>1, <3>2, <1>3, FramedConcat
  <2> QED BY <2>1, <2>2
<1>11. FramesOf(k2, t2, l)
  BY <1>6, <1>8, <1>9, <1>10 DEF FramesOf
<1> QED BY <1>11 DEF k2, w, t2, r

\* A task that has none to write takes up messages.
LEMMA TakesUp ==
  ASSUME NEW kb \in Seq(Words), NEW td \in [Task -> Seq(Words)], NEW l \in Nat,
         FramesOf(kb, td, l), NEW t \in Task, td[t] = <<>>,
         NEW ws \in Seq(Words), Framed(ws, 0)
  PROVE  FramesOf(kb, [td EXCEPT ![t] = ws], l)
<1> DEFINE t2 == [td EXCEPT ![t] = ws]
<1>1. t2[t] = ws /\ \A o \in Task \ {t} : t2[o] = td[o]
  OBVIOUS
<1>2. ~In(ws) /\ ~In(td[t])
  BY FramedNotIn DEF In
<1>3. l <= Len(kb) /\ kb \o td[t] = kb
  BY DEF FramesOf
<1> HIDE DEF t2
<1>4. \A o \in Task : In(t2[o]) <=> In(td[o])
  BY <1>1, <1>2
<1>5. \A o \in Task : ~In(t2[o]) => Framed(t2[o], 0)
  BY <1>1, <1>4 DEF FramesOf
<1>6. \A u, o \in Task : In(t2[u]) /\ o # u => ~In(t2[o])
  BY <1>4 DEF FramesOf
<1>7. ASSUME NEW u \in Task, \A o \in Task \ {u} : ~In(t2[o])
      PROVE  Framed(kb \o t2[u], l)
  <2>1. Framed(kb \o td[u], l)
    BY <1>4, <1>7 DEF FramesOf
  <2>2. CASE u = t
    <3>1. Framed(kb, l)
      BY <2>1, <2>2, <1>3
    <3> QED BY <3>1, <2>2, <1>1, FramedConcat
  <2>3. CASE u # t
    BY <2>1, <2>3, <1>1
  <2> QED BY <2>2, <2>3
<1>8. FramesOf(kb, t2, l)
  BY <1>3, <1>5, <1>6, <1>7 DEF FramesOf
<1> QED BY <1>8 DEF t2

\* A message is appended as a whole, by an interrupt or a task that has nothing
\* else to write.
LEMMA Appended ==
  ASSUME Types, Frames, ~cut, NEW t, NEW ws \in Seq(Words), Framed(ws, 0), Append_(t, ws),
         t \in Task => ~In(todo[t]), todo' = todo, main' = main, left' = left
  PROVE  kernelbuf' \in Seq(Words) /\ cut' \in BOOLEAN /\ Frames'
<1>1. /\ kernelbuf \in Seq(Words) /\ todo \in [Task -> Seq(Words)] /\ Lead \in Nat
      /\ FramesOf(kernelbuf, todo, Lead) /\ cut = FALSE
  BY DEF Types, Frames, Lead
<1>2. /\ kernelbuf' = kernelbuf \o ws /\ kernelbuf' \in Seq(Words) /\ Lead' = Lead
      /\ cut' = (cut \/ \E o \in Task \ {t} : Within(o)) /\ cut' \in BOOLEAN
  BY <1>1 DEF Append_, Lead
<1>3. ASSUME ~cut' PROVE FramesOf(kernelbuf', todo, Lead)
  <2>1. \A o \in Task : ~In(todo[o])
    <3>1. \A o \in Task \ {t} : ~Within(o)
      BY <1>2, <1>3
    <3> QED BY <3>1 DEF Within, In
  <2>2. Lead <= Len(kernelbuf) /\ Framed(kernelbuf, Lead) /\ \A o \in Task : Framed(todo[o], 0)
    BY <1>1, <2>1, Settled
  <2>3. Framed(kernelbuf', Lead)
    BY <1>1, <1>2, <2>2, FramedConcat
  <2>4. Lead <= Len(kernelbuf')
    BY <1>1, <1>2, <2>2
  <2> QED BY <1>1, <1>2, <2>2, <2>3, <2>4, Settle
<1>4. Frames'
  <2>1. main' = "keys" => todo'[Main] = <<>>
    BY DEF Frames
  <2>2. ~cut' => FramesOf(kernelbuf', todo', Lead')
    BY <1>2, <1>3
  <2> QED BY <2>1, <2>2 DEF Frames
<1> QED BY <1>2, <1>4

\* The event loop takes n words.
LEMMA TakenFrames ==
  ASSUME Types, Frames, ~cut, todo[Main] = <<>>, NEW n \in Nat, Taken(n), Lead' \in Nat,
         Framed(kernelbuf, Lead) =>
           /\ n <= Len(kernelbuf) /\ Lead' <= Len(kernelbuf) - n
           /\ Framed(SubSeq(kernelbuf, n + 1, Len(kernelbuf)), Lead')
  PROVE  /\ ~Within(Other) => Framed(kernelbuf, Lead) /\ kernelbuf' \in Seq(Words)
         /\ ~cut' => Framed(kernelbuf, Lead)
         /\ todo' = todo /\ Frames' /\ cut' \in BOOLEAN
<1>1. /\ kernelbuf \in Seq(Words) /\ todo \in [Task -> Seq(Words)] /\ Lead \in Nat
      /\ FramesOf(kernelbuf, todo, Lead) /\ cut = FALSE
  BY DEF Types, Frames, Lead
<1>2. /\ kernelbuf' = SubSeq(kernelbuf, n + 1, Len(kernelbuf)) /\ todo' = todo
      /\ cut' = (cut \/ Within(Other)) /\ cut' \in BOOLEAN
  BY <1>1 DEF Taken
<1>3. ASSUME ~Within(Other)
      PROVE  /\ Framed(kernelbuf, Lead) /\ \A o \in Task : Framed(todo[o], 0)
  <2>1. \A o \in Task : ~In(todo[o])
    BY <1>3 DEF Within, In, Task
  <2> QED BY <2>1, <1>1, Settled
<1>4. ASSUME ~Within(Other) PROVE kernelbuf' \in Seq(Words) /\ FramesOf(kernelbuf', todo, Lead')
  <2>1. /\ n <= Len(kernelbuf) /\ Lead' <= Len(kernelbuf) - n
        /\ Framed(kernelbuf', Lead')
    BY <1>2, <1>3, <1>4
  <2>2. kernelbuf' \in Seq(Words) /\ Len(kernelbuf') = Len(kernelbuf) - n
    BY <1>1, <1>2, <2>1, Dropped
  <2> QED BY <1>1, <1>3, <1>4, <2>1, <2>2, Settle
<1>5. Frames'
  <2>1. main' = "keys" => todo'[Main] = <<>>
    BY <1>2
  <2>2. ~cut' => FramesOf(kernelbuf', todo', Lead')
    BY <1>1, <1>2, <1>4
  <2> QED BY <2>1, <2>2 DEF Frames
<1> QED BY <1>1, <1>2, <1>3, <1>4, <1>5

\* The sequence of a set has its elements.
LEMMA SetSequence ==
  ASSUME NEW S, IsFiniteSet(S)
  PROVE  /\ SetToSeq(S) \in Seq(S) /\ Len(SetToSeq(S)) = Cardinality(S) /\ Cardinality(S) \in Nat
         /\ \A x \in S : \E k \in 1..Cardinality(S) : SetToSeq(S)[k] = x
<1> DEFINE n == Cardinality(S)
<1>1. n \in Nat /\ ExistsBijection(1..n, S)
  BY FS_CardinalityType
<1>2. \E f \in [1..n -> S] : IsInjective(f)
  BY <1>1 DEF ExistsBijection, Bijection, Injection, IsInjective
<1> DEFINE f == SetToSeq(S)
<1>3. f \in [1..n -> S] /\ IsInjective(f)
  BY <1>2 DEF SetToSeq
<1> HIDE DEF f
<1>4. f \in Injection(1..n, S)
  BY <1>3 DEF Injection, IsInjective
<1>5. f \in Surjection(1..n, S)
  <2>1. n = Cardinality(1..n)
    BY <1>1, FS_Interval
  <2> QED BY <1>1, <1>4, <2>1, FS_Injection, FS_Interval
<1>6. \A x \in S : \E k \in 1..n : f[k] = x
  BY <1>5 DEF Surjection
<1>7. f \in Seq(S) /\ Len(f) = n
  BY <1>1, <1>3
<1> QED BY <1>1, <1>6, <1>7 DEF f

\* The keys are a finite set, and so are some of them.
LEMMA KeysFinite == ASSUME NEW S \in SUBSET Keys PROVE IsFiniteSet(S) /\ S \subseteq 4..127
<1>1. IsFiniteSet(4..127)
  <2>1. 4 \in Int /\ 127 \in Int
    OBVIOUS
  <2> QED BY <2>1, FS_Interval, Zenon
<1>2. S \in SUBSET (4..127)
  OBVIOUS
<1> QED BY <1>1, <1>2, FS_Subset

\* A report has a code in each of its slots: those of the keys that are down,
\* unless there are too many of them.
LEMMA ReportType ==
  ASSUME pressed \subseteq Keys, fields.keys.size \in Nat
  PROVE  /\ Report \in Seq(Codes)
         /\ Slots = 0 /\ pressed = {} => Report = <<>>
<1> DEFINE n == Cardinality(pressed)
           f == SetToSeq(pressed)
<1>1. f \in Seq(pressed) /\ n \in Nat
  BY KeysFinite, SetSequence
<1>2. Slots \in Nat
  BY DEF Slots
<1>3. f \in Seq(Codes)
  <2>1. pressed \subseteq Codes
    BY DEF Codes
  <2> QED BY <1>1, <2>1, SeqMonotonic, Zenon
<1> HIDE DEF f, n
<1>4. [k \in 1..Slots |-> RollOver] \in Seq(Codes)
  BY <1>2 DEF Codes
<1>5. n <= Slots => f \o [k \in 1..(Slots - n) |-> None] \in Seq(Codes)
  <2> SUFFICES ASSUME n <= Slots PROVE f \o [k \in 1..(Slots - n) |-> None] \in Seq(Codes)
    OBVIOUS
  <2>1. Slots - n \in Nat
    BY <1>1, <1>2
  <2>2. [k \in 1..(Slots - n) |-> None] \in Seq(Codes)
    BY <2>1 DEF Codes
  <2> QED BY <1>3, <2>2
<1>6. Report \in Seq(Codes)
  BY <1>1, <1>2, <1>4, <1>5 DEF Report, f, n
<1>7. ASSUME Slots = 0, pressed = {} PROVE Report = <<>>
  <2>1. n = 0 /\ f = <<>>
    <3>1. n = 0
      BY <1>7, FS_EmptySet DEF n
    <3>2. Len(f) = 0
      BY <3>1, KeysFinite, SetSequence DEF f, n
    <3> QED BY <3>1, <3>2, <1>3
  <2>2. Report = f \o [k \in 1..(Slots - n) |-> None]
    BY <2>1, <1>7 DEF Report, f, n
  <2>3. [k \in 1..(Slots - n) |-> None] = <<>>
    BY <2>1, <1>7
  <2> QED BY <2>1, <2>2, <2>3
<1> QED BY <1>6, <1>7

\* The initial state satisfies the invariant.
LEMMA InitInv == Init => IInv
<1> SUFFICES ASSUME Init PROVE IInv
  OBVIOUS
<1>1. Types
  <2>1. fields.keys.size \in Nat
    BY DEF Init, Fields, Absent, Field
  <2>2. /\ kernelbuf \in Seq(Words) /\ buf \in Seq(Codes) /\ todo \in [Task -> Seq(Words)]
    BY DEF Init
  <2>3. /\ device \in DOMAIN Descriptors \cup {NoDevice} /\ phase \in {1234, 0, 1}
        /\ (phase # 1 => device \in DOMAIN Descriptors) /\ xfer \in {"none", "control"}
    BY DEF Init
  <2>4. /\ main = "loop" /\ left = 0 /\ pk = {} /\ bk = {} /\ down = {} /\ comp = NoTask
        /\ pressed = {} /\ cut = FALSE
    BY DEF Init
  <2>5. /\ main \in {"loop", "post", "keys"} /\ left \in Nat /\ pk \subseteq Codes /\ bk \subseteq Codes
        /\ down \subseteq Keys /\ comp \in Task \cup {NoTask}
        /\ pressed \subseteq Keys /\ cut \in BOOLEAN
    BY <2>4
  <2>6. xfer \in {"none", "control", "report", "ended", "failed", "taken"}
    BY <2>3
  <2>7. device \in DOMAIN Descriptors \cup {NoDevice}
    BY <2>3
  <2>8. phase \in {1234, 0, 1} /\ (phase # 1 => device \in DOMAIN Descriptors)
    BY <2>3
  <2> QED BY <2>1, <2>2, <2>5, <2>6, <2>7, <2>8 DEF Types
<1>2. Frames
  <2>1. \A t \in Task : todo[t] = <<>>
    BY DEF Init
  <2>2. Lead = 0 /\ kernelbuf = <<>> /\ Main \in Task
    BY DEF Init, Lead, Task
  <2>3. /\ kernelbuf \in Seq(Words) /\ todo \in [Task -> Seq(Words)]
    BY <1>1 DEF Types
  <2>4. FramesOf(kernelbuf, todo, Lead)
    BY <2>1, <2>2, <2>3, FramedEmpty, Settle
  <2> QED BY <2>1, <2>2, <2>4 DEF Frames
<1> QED BY <1>1, <1>2, InitMouse DEF IInv

\* Frames is about these variables only.
LEMMA FramesSame ==
  ASSUME Frames, UNCHANGED <<kernelbuf, todo, main, left, cut>> PROVE Frames'
BY DEF Frames, FramesOf, Lead

\* Interrupts and Refresh append a message.
LEMMA InterruptsInv ==
  ASSUME Types, Frames, KeyHandle \/ RtcHandle \/ Refresh
  PROVE  Types' /\ Frames'
<1>1. /\ UNCHANGED <<loop, todo, comp, usb, mouse>>
      /\ ~cut
  BY DEF KeyHandle, RtcHandle, Refresh, Another, Going
<1>2. UNCHANGED <<main, left, pk, bk, down, todo, comp, device, fields, phase, xfer, firstt, buf, pressed>>
  BY <1>1 DEF loop, usb, hid
<1>3. PICK t \in {NoTask, Other}, ws \in {KeyMessage(-1), Message(7), Message(9)} :
        Append_(t, ws) /\ (t = Other => todo[Other] = <<>>)
  <2>1. CASE KeyHandle
    BY <2>1 DEF KeyHandle, Task
  <2>2. CASE RtcHandle
    BY <2>2 DEF RtcHandle, Task
  <2>3. CASE Refresh
    BY <2>3 DEF Refresh
  <2> QED BY <2>1, <2>2, <2>3
<1>4. ws \in Seq(Words) /\ Framed(ws, 0)
  <2>1. -1 \in Int
    OBVIOUS
  <2>2. KeyMessage(-1) \in Seq(Words) /\ Framed(KeyMessage(-1), 0)
    BY <2>1, KeyMessageFramed, Zenon
  <2> QED BY <2>2, MessageFramed
<1>5. t \in Task => ~In(todo[t])
  BY <1>3 DEF In, Task
<1>6. kernelbuf' \in Seq(Words) /\ cut' \in BOOLEAN /\ Frames'
  BY <1>1, <1>2, <1>3, <1>4, <1>5, Appended
<1>7. Types'
  BY <1>2, <1>6 DEF Types
<1> QED BY <1>6, <1>7

\* So do the mouse, once in a packet, and the end of a transfer.
LEMMA MouseFrames ==
  ASSUME Types, Frames, MouseAck \/ MousePacket \/ MouseLoses
  PROVE  Types' /\ Frames'
<1>1. UNCHANGED <<main, left, pk, bk, down, todo, comp, device, fields, phase, xfer, firstt, buf, pressed>>
  BY DEF MouseAck, MousePacket, MouseLoses, MouseMoves, loop, usb, hid
<1>2. ~cut
  BY DEF MouseAck, MousePacket, MouseLoses, MouseMoves, Going
<1>3. UNCHANGED <<kernelbuf, cut>> \/ Append_(NoTask, Message(0))
  BY DEF MouseAck, MousePacket, MouseLoses, MouseByte
<1>4. CASE UNCHANGED <<kernelbuf, cut>>
  BY <1>1, <1>4, FramesSame DEF Types
<1>5. CASE Append_(NoTask, Message(0))
  <2>1. Message(0) \in Seq(Words) /\ Framed(Message(0), 0)
    BY MessageFramed
  <2>2. kernelbuf' \in Seq(Words) /\ cut' \in BOOLEAN /\ Frames'
    BY <1>1, <1>2, <1>5, <2>1, Appended
  <2> QED BY <1>1, <2>2 DEF Types
<1> QED BY <1>3, <1>4, <1>5

LEMMA EndsInv ==
  ASSUME Types, Frames, ControlEnds \/ ReportEnds \/ TransferFails
  PROVE  Types' /\ Frames'
<1>1. PICK x \in {"ended", "failed"} : Ends(x)
  BY DEF ControlEnds, ReportEnds, TransferFails
<1>2. UNCHANGED <<main, left, pk, bk, down, todo, comp, pressed>> /\ xfer' = x
  BY <1>1 DEF Ends, loop
<1>3. ~cut /\ UNCHANGED <<device, fields, phase, firstt>> /\ buf' \in {buf, Report}
  BY DEF ControlEnds, ReportEnds, TransferFails, Another, Move, Going, hid
<1>4. Message(1) \in Seq(Words) /\ Framed(Message(1), 0)
  BY MessageFramed
<1>5. Append_(NoTask, Message(1))
  BY <1>1 DEF Ends
<1>6. kernelbuf' \in Seq(Words) /\ cut' \in BOOLEAN /\ Frames'
  BY <1>2, <1>3, <1>4, <1>5, Appended
<1>7. buf' \in Seq(Codes)
  BY <1>3, ReportType DEF Types
<1> QED BY <1>2, <1>3, <1>6, <1>7 DEF Types

\* The device's keys, and the control of the driver, leave the words alone.
LEMMA DriverInv ==
  ASSUME Types, Frames, NEW t \in Task,
         (\E k \in Keys : KeyMoves(k)) \/ HidInit(t) \/ HidFails(t) \/ CompEnd(t)
  PROVE  Types' /\ Frames'
<1>1. /\ UNCHANGED <<kernelbuf, main, left, pk, bk, down, todo, device, firstt, buf, cut>>
  BY DEF KeyMoves, HidInit, HidFails, CompEnd, loop, hid
<1>2. Frames'
  BY <1>1, FramesSame
<1>3. CASE \E k \in Keys : KeyMoves(k)
  <2>1. PICK k \in Keys :
          UNCHANGED <<comp, fields, phase, xfer>> /\ pressed' \in {pressed \ {k}, pressed \cup {k}}
    BY <1>3 DEF KeyMoves, hid
  <2> QED BY <1>1, <1>2, <2>1 DEF Types
<1>4. CASE HidInit(t)
  <2>1. /\ phase # 1 /\ pressed' = pressed /\ comp' = comp
        /\ IF phase = 1234
           THEN phase' = 0 /\ xfer' = "control" /\ UNCHANGED fields
           ELSE phase' = 1 /\ xfer' = "report" /\ fields' = decoderd(Descriptors[device])
    BY <1>4 DEF HidInit
  <2>2. device \in DOMAIN Descriptors
    BY <2>1 DEF Types
  <2>3. fields'.keys.size \in Nat
    BY <2>1, <2>2 DEF Types
  <2>4. phase' \in {0, 1} /\ xfer' \in {"control", "report"}
    BY <2>1
  <2> QED BY <1>1, <1>2, <2>1, <2>2, <2>3, <2>4 DEF Types
<1>5. CASE HidFails(t)
  <2>1. UNCHANGED <<comp, fields, phase, pressed>> /\ xfer' = "none"
    BY <1>5 DEF HidFails, hid
  <2> QED BY <1>1, <1>2, <2>1 DEF Types
<1>6. CASE CompEnd(t)
  <2>1. UNCHANGED <<fields, phase, pressed>> /\ comp' = NoTask /\ xfer' \in {"report", xfer}
    BY <1>6 DEF CompEnd, hid
  <2> QED BY <1>1, <1>2, <2>1 DEF Types
<1> QED BY <1>2, <1>3, <1>4, <1>5, <1>6

\* The words that hid::comp writes for a report.
ReportWords ==
  (IF fields.x # Absent /\ fields.y # Absent THEN Message(0) ELSE <<>>)
  \o IF firstt /\ AllZero THEN <<>> ELSE KeyWords

LEMMA ReportFramed ==
  ASSUME buf \in Seq(Codes)
  PROVE  ReportWords \in Seq(Words) /\ Framed(ReportWords, 0)
<1> DEFINE a == IF fields.x # Absent /\ fields.y # Absent THEN Message(0) ELSE <<>>
           b == IF firstt /\ AllZero THEN <<>> ELSE KeyWords
<1>1. <<>> \in Seq(Words) /\ Framed(<<>>, 0)
  BY FramedEmpty
<1>2. a \in Seq(Words) /\ Framed(a, 0)
  BY <1>1, MessageFramed
<1>3. KeysMessage(buf) \in Seq(Words) /\ Framed(KeysMessage(buf), 0)
  BY KeysMessageFramed
<1>4. b \in Seq(Words) /\ Framed(b, 0)
  BY <1>1, <1>3 DEF KeyWords
<1>5. ReportWords = a \o b
  BY DEF ReportWords
<1> HIDE DEF a, b
<1>6. a \o b \in Seq(Words) /\ Framed(a \o b, 0)
  BY <1>2, <1>4, FramedConcat
<1> QED BY <1>5, <1>6

\* A class driver takes up what it has to say.
LEMMA TakesUpInv ==
  ASSUME Types, Frames, NEW t \in Task, HidReport(t) \/ MassReady(t)
  PROVE  Types' /\ Frames'
<1>1. PICK ws \in {ReportWords, Message(6)} : todo' = [todo EXCEPT ![t] = ws]
  BY DEF HidReport, MassReady, ReportWords
<1>2. /\ UNCHANGED <<kernelbuf, main, left, pk, bk, down, device, fields, phase, buf, pressed, cut>>
      /\ comp' = t /\ xfer' \in {"taken", xfer} /\ todo[t] = <<>> /\ (t = Main => main = "post")
  BY DEF HidReport, MassReady, Handles, loop, usb, hid
<1>3. ws \in Seq(Words) /\ Framed(ws, 0)
  <2>1. Message(6) \in Seq(Words) /\ Framed(Message(6), 0)
    BY MessageFramed
  <2>2. ReportWords \in Seq(Words) /\ Framed(ReportWords, 0)
    <3>1. buf \in Seq(Codes)
      BY DEF Types
    <3> QED BY <3>1, ReportFramed, Zenon
  <2> QED BY <2>1, <2>2, Zenon
<1>4. kernelbuf \in Seq(Words) /\ todo \in [Task -> Seq(Words)] /\ Lead \in Nat /\ Lead' = Lead
  BY <1>2 DEF Types, Lead
<1>5. ~cut' => FramesOf(kernelbuf', todo', Lead')
  BY <1>1, <1>2, <1>3, <1>4, TakesUp DEF Frames
<1>6. main' = "keys" => todo'[Main] = <<>>
  <2>1. CASE t = Main
    BY <1>2, <2>1
  <2>2. CASE t # Main
    BY <1>1, <1>2, <1>4, <2>2 DEF Frames, Task
  <2> QED BY <2>1, <2>2
<1>7. Frames'
  BY <1>5, <1>6 DEF Frames
<1>8. todo' \in [Task -> Seq(Words)]
  BY <1>1, <1>3, <1>4
<1>9. Types'
  BY <1>2, <1>8 DEF Types
<1> QED BY <1>7, <1>9

\* A task writes its next word.
LEMMA WriteInv ==
  ASSUME Types, Frames, NEW t \in Task, Write(t)
  PROVE  Types' /\ Frames'
<1>1. /\ UNCHANGED <<main, left, pk, bk, down, comp, device, fields, phase, xfer, firstt, buf, pressed>>
      /\ todo[t] # <<>> /\ todo' = [todo EXCEPT ![t] = Tail(@)] /\ ~cut
      /\ kernelbuf' = kernelbuf \o <<Head(todo[t])>>
      /\ cut' = (cut \/ \E o \in Task \ {t} : Within(o))
  BY DEF Write, Append_, Going, loop, usb, hid
<1>2. /\ kernelbuf \in Seq(Words) /\ todo \in [Task -> Seq(Words)] /\ Lead \in Nat /\ Lead' = Lead
      /\ FramesOf(kernelbuf, todo, Lead) /\ todo[t] \in Seq(Words)
  BY <1>1 DEF Types, Frames, Lead
<1>3. kernelbuf' \in Seq(Words) /\ todo' \in [Task -> Seq(Words)] /\ cut' \in BOOLEAN
  BY <1>1, <1>2
<1>4. ASSUME ~cut' PROVE FramesOf(kernelbuf', todo', Lead')
  <2>1. \A o \in Task \ {t} : ~In(todo[o])
    BY <1>1, <1>4 DEF Within, In
  <2> QED BY <1>1, <1>2, <2>1, WriteFrames
<1>5. main' = "keys" => todo'[Main] = <<>>
  <2>1. CASE t = Main
    BY <1>1, <2>1 DEF Frames
  <2>2. CASE t # Main
    BY <1>1, <1>2, <2>2 DEF Frames, Task
  <2> QED BY <2>1, <2>2
<1>6. Frames'
  BY <1>4, <1>5 DEF Frames
<1>7. Types'
  BY <1>1, <1>3 DEF Types
<1> QED BY <1>6, <1>7

\* A message that is at the front of the queue.
LEMMA AtFront ==
  ASSUME kernelbuf \in Seq(Words), NEW ws \in Seq(Words), Len(ws) > 0, Starts(ws)
  PROVE  Len(ws) <= Len(kernelbuf) /\ kernelbuf # <<>> /\ \A k \in 1..Len(ws) : kernelbuf[k] = ws[k]
<1>1. IsPrefix(ws, kernelbuf)
  BY DEF Starts
<1> QED BY <1>1, PrefixAt

\* The event loop takes a message without content, or one of a key.
LEMMA MessageTaken ==
  ASSUME Types, Frames, AtLoop, main' = main \/ main' = "post", left' = left, NEW v \in Int,
         NEW ws \in {Message(m) : m \in {0, 1, 6, 7, 9}} \cup {KeyMessage(v)},
         Starts(ws), Taken(Len(ws))
  PROVE  Frames' /\ kernelbuf' \in Seq(Words) /\ cut' \in BOOLEAN
<1> DEFINE n == Len(ws)
<1>1. kernelbuf \in Seq(Words) /\ main = "loop" /\ todo[Main] = <<>> /\ ~cut
  BY DEF Types, AtLoop, Going
<1>2. Lead = 0 /\ Lead' = 0
  BY <1>1 DEF Lead
<1>3. /\ ws \in Seq(Words) /\ n \in Nat /\ n > 0
      /\ \/ ws[1].m \in {0, 1, 6, 7, 9} /\ n = Length[ws[1].m]
         \/ ws[1].m = 2 /\ n = 2
  <2>1. CASE ws = KeyMessage(v)
    <3>1. ws \in Seq(Words) /\ Len(ws) = 2 /\ ws[1] = Word(2, 0, 0)
      BY <2>1, KeyMessageFramed
    <3> QED BY <3>1 DEF Word
  <2>2. ASSUME NEW m \in {0, 1, 6, 7, 9}, ws = Message(m)
        PROVE  ws \in Seq(Words) /\ n \in Nat /\ n > 0 /\ ws[1].m = m /\ n = Length[m]
    <3>1. /\ Message(m) \in Seq(Words) /\ Len(Message(m)) = Length[m] /\ Length[m] \in 1..5
          /\ \A k \in 1..Length[m] : Message(m)[k] = Word(m, k - 1, 0)
      BY MessageFramed
    <3>2. Message(m)[1] = Word(m, 1 - 1, 0)
      BY <3>1
    <3> QED BY <2>2, <3>1, <3>2 DEF Word
  <2> QED BY <2>1, <2>2
<1>4. n <= Len(kernelbuf) /\ kernelbuf # <<>> /\ kernelbuf[1] = ws[1]
  BY <1>1, <1>3, AtFront
<1>5. n = Size(kernelbuf, 1)
  BY <1>3, <1>4 DEF Size
<1>6. Framed(kernelbuf, 0) => Framed(SubSeq(kernelbuf, n + 1, Len(kernelbuf)), 0)
  <2> SUFFICES ASSUME Framed(kernelbuf, 0) PROVE Framed(SubSeq(kernelbuf, n + 1, Len(kernelbuf)), 0)
    OBVIOUS
  <2>1. n \in 1..Size(kernelbuf, 1) /\ ~(n < Size(kernelbuf, 1)) /\ Size(kernelbuf, 1) - n = 0
    BY <1>3, <1>5
  <2>2. Framed(SubSeq(kernelbuf, n + 1, Len(kernelbuf)), Size(kernelbuf, 1) - n)
    BY <1>1, <1>4, <2>1, FramedRead, Zenon
  <2> QED BY <2>1, <2>2, Zenon
<1> HIDE DEF n
<1>7. Taken(n) /\ 0 \in Nat
  BY DEF n
<1>8. Framed(kernelbuf, Lead) =>
        /\ n <= Len(kernelbuf) /\ Lead' <= Len(kernelbuf) - n
        /\ Framed(SubSeq(kernelbuf, n + 1, Len(kernelbuf)), Lead')
  <2>1. 0 <= Len(kernelbuf) - n
    BY <1>1, <1>3, <1>4
  <2> QED BY <1>2, <1>4, <1>6, <2>1
<1>9. Frames' /\ cut' \in BOOLEAN
  BY <1>1, <1>2, <1>3, <1>7, <1>8, TakenFrames
<1>10. kernelbuf' \in Seq(Words)
  BY <1>1, <1>3, <1>4, <1>7, Dropped DEF Taken
<1> QED BY <1>9, <1>10

\* The event loop reads from the queue.
LEMMA KernelInv ==
  ASSUME Types, Frames, KernelMessage \/ KernelPost \/ KernelKey
  PROVE  Types' /\ Frames'
<1>1. /\ UNCHANGED <<left, pk, bk, todo, comp, device, fields, phase, xfer, firstt, buf, pressed>>
      /\ main' \in {main, "post"} /\ AtLoop
  BY DEF KernelMessage, KernelPost, KernelKey, Taken, loop, usb, hid
<1>2. down' \subseteq Keys
  <2>1. CASE KernelKey
    <3>1. \/ kernelbuf[2].v \in Keys /\ down' = down \cup {kernelbuf[2].v}
          \/ down' = down \ {kernelbuf[2].v - 128}
      BY <2>1 DEF KernelKey
    <3>2. down \subseteq Keys
      BY DEF Types
    <3> DEFINE v == kernelbuf[2].v
    <3>3. (v \in Keys /\ down' = down \cup {v}) \/ down' = down \ {v - 128}
      BY <3>1
    <3> HIDE DEF v
    <3> QED BY <3>2, <3>3
  <2>2. CASE KernelMessage \/ KernelPost
    BY <2>2 DEF KernelMessage, KernelPost, loop, Types
  <2> QED BY <2>1, <2>2
<1>3. PICK v \in Int : \E ws \in {Message(m) : m \in {0, 1, 6, 7, 9}} \cup {KeyMessage(v)} :
        Starts(ws) /\ Taken(Len(ws))
  <2>1. ASSUME NEW m \in {0, 1, 6, 7, 9}, Starts(Message(m)), Taken(Length[m])
        PROVE  Starts(Message(m)) /\ Taken(Len(Message(m)))
    <3>1. Len(Message(m)) = Length[m]
      BY MessageFramed
    <3> QED BY <2>1, <3>1
  <2>2. CASE KernelMessage
    <3>1. PICK m \in {0, 6, 7, 9} : Starts(Message(m)) /\ Taken(Length[m])
      BY <2>2 DEF KernelMessage
    <3>2. m \in {0, 1, 6, 7, 9} /\ 0 \in Int
      OBVIOUS
    <3> QED BY <3>1, <3>2, <2>1
  <2>3. CASE KernelPost
    <3>1. Starts(Message(1)) /\ Taken(Length[1]) /\ 1 \in {0, 1, 6, 7, 9} /\ 0 \in Int
      BY <2>3 DEF KernelPost, Length
    <3> QED BY <3>1, <2>1
  <2>4. CASE KernelKey
    <3> DEFINE v_ == kernelbuf[2].v
    <3>1. Len(kernelbuf) > 1 /\ Starts(KeyMessage(v_)) /\ Taken(2)
      BY <2>4 DEF KernelKey
    <3>2. v_ \in Int
      <4>1. kernelbuf \in Seq(Words) /\ 2 \in 1..Len(kernelbuf)
        BY <3>1 DEF Types
      <4> QED BY <4>1, WordAt
    <3> HIDE DEF v_
    <3>3. Len(KeyMessage(v_)) = 2
      BY <3>2, KeyMessageFramed
    <3> QED BY <3>1, <3>2, <3>3
  <2> QED BY <2>2, <2>3, <2>4
<1>4. PICK ws \in {Message(m) : m \in {0, 1, 6, 7, 9}} \cup {KeyMessage(v)} :
        Starts(ws) /\ Taken(Len(ws))
  BY <1>3
<1>5. Frames' /\ kernelbuf' \in Seq(Words) /\ cut' \in BOOLEAN
  BY <1>1, <1>4, MessageTaken
<1>6. Types'
  <2>1. main' \in {"loop", "post", "keys"}
    BY <1>1 DEF Types
  <2> QED BY <1>1, <1>2, <1>5, <2>1 DEF Types
<1> QED BY <1>5, <1>6

\* It reads the number of keys of a report, and then one of them after the other.
LEMMA KernelKeysInv ==
  ASSUME Types, Frames, KernelKeys
  PROVE  Types' /\ Frames'
<1>1. /\ UNCHANGED <<bk, down, todo, comp, device, fields, phase, xfer, firstt, buf, pressed>>
      /\ main' = "keys" /\ pk' = {} /\ left' = kernelbuf[2].v /\ AtLoop
      /\ Len(kernelbuf) > 1 /\ Taken(2)
      /\ kernelbuf[1] = Word(5, 0, 0) /\ kernelbuf[2].m = 5 /\ kernelbuf[2].i = 1
  BY DEF KernelKeys, Taken, usb, hid
<1>2. kernelbuf \in Seq(Words) /\ main = "loop" /\ todo[Main] = <<>> /\ ~cut
  BY <1>1 DEF Types, AtLoop, Going
<1>3. kernelbuf[2].v \in Nat
  <2>1. 2 \in 1..Len(kernelbuf)
    BY <1>1, <1>2
  <2> QED BY <2>1, <1>1, <1>2, WordAt
<1>4. Lead = 0 /\ Lead' = kernelbuf[2].v /\ Lead' \in Nat
  BY <1>1, <1>2, <1>3 DEF Lead
<1>5. Size(kernelbuf, 1) = 2 + kernelbuf[2].v /\ kernelbuf[1].m = 5
  BY <1>1 DEF Size, Word
<1>6. ASSUME Framed(kernelbuf, Lead)
      PROVE  /\ 2 <= Len(kernelbuf) /\ Lead' <= Len(kernelbuf) - 2
             /\ Framed(SubSeq(kernelbuf, 2 + 1, Len(kernelbuf)), Lead')
  <2>1. 2 \in 1..Size(kernelbuf, 1) /\ Size(kernelbuf, 1) - 2 = Lead' /\ Framed(kernelbuf, 0)
        /\ kernelbuf # <<>>
    BY <1>2, <1>3, <1>4, <1>5, <1>6, <1>1
  <2>2. 2 = 2
    OBVIOUS
  <2>3. /\ 2 <= Len(kernelbuf) /\ Size(kernelbuf, 1) - 2 <= Len(kernelbuf) - 2
        /\ Framed(SubSeq(kernelbuf, 2 + 1, Len(kernelbuf)), Size(kernelbuf, 1) - 2)
    BY <1>2, <1>5, <2>1, <2>2, FramedRead, Zenon
  <2> QED BY <2>1, <2>3
<1>7. Frames' /\ cut' \in BOOLEAN
  BY <1>1, <1>2, <1>4, <1>6, TakenFrames
<1>8. kernelbuf' \in Seq(Words)
  BY <1>1, <1>2, Dropped DEF Taken
<1>9. Types'
  BY <1>1, <1>3, <1>7, <1>8 DEF Types
<1> QED BY <1>7, <1>9

LEMMA KernelUsageInv ==
  ASSUME Types, Frames, KernelUsage
  PROVE  Types' /\ Frames'
<1>1. /\ UNCHANGED <<main, bk, down, todo, comp, device, fields, phase, xfer, firstt, buf, pressed>>
      /\ main = "keys" /\ left > 0 /\ left' = left - 1 /\ ~cut
      /\ kernelbuf # <<>> /\ Taken(1)
      /\ Head(kernelbuf).m = 5 /\ Head(kernelbuf).i > 1
      /\ pk' = pk \cup {Head(kernelbuf).v}
  BY DEF KernelUsage, Taken, Going, usb, hid
<1>2. kernelbuf \in Seq(Words) /\ todo[Main] = <<>> /\ left \in Nat
  BY <1>1 DEF Types, Frames
<1>3. Head(kernelbuf).v \in Codes
  <2>1. 1 \in 1..Len(kernelbuf) /\ Head(kernelbuf) = kernelbuf[1]
    BY <1>1, <1>2
  <2> QED BY <2>1, <1>1, <1>2, WordAt
<1>4. Lead = left /\ Lead' = left - 1 /\ Lead' \in Nat /\ left' \in Nat
  BY <1>1, <1>2 DEF Lead
<1>5. ASSUME Framed(kernelbuf, Lead)
      PROVE  /\ 1 <= Len(kernelbuf) /\ Lead' <= Len(kernelbuf) - 1
             /\ Framed(SubSeq(kernelbuf, 1 + 1, Len(kernelbuf)), Lead')
  <2>1. 1 + 1 = 2 /\ 1 <= Len(kernelbuf)
    BY <1>1, <1>2
  <2>2. /\ left - 1 <= Len(kernelbuf) - 1
        /\ Framed(SubSeq(kernelbuf, 2, Len(kernelbuf)), left - 1)
    BY <1>1, <1>2, <1>4, <1>5, FramedNext
  <2> QED BY <2>1, <2>2, <1>4
<1>6. Frames' /\ cut' \in BOOLEAN
  BY <1>1, <1>2, <1>4, <1>5, TakenFrames
<1>7. kernelbuf' \in Seq(Words)
  BY <1>1, <1>2, Dropped DEF Taken
<1>8. Types'
  BY <1>1, <1>3, <1>4, <1>6, <1>7 DEF Types
<1> QED BY <1>6, <1>8

\* It has read them all, and takes up the keys that are new and the releases.
LEMMA KernelCodesInv ==
  ASSUME Types, Frames, KernelCodes
  PROVE  Types' /\ Frames'
<1> DEFINE press == SetToSeq((pk \ bk) \cap Keys)
           free == SetToSeq((bk \ pk) \cap Keys)
           vs == press \o [k \in DOMAIN free |-> free[k] + 128]
           ws == KeyMessages(vs)
<1>1. /\ UNCHANGED <<kernelbuf, left, pk, down, comp, device, fields, phase, xfer, firstt, buf,
                     pressed, cut>>
      /\ todo' = [todo EXCEPT ![Main] = ws] /\ bk' = pk /\ main' = "loop" /\ main = "keys"
      /\ left = 0
  BY DEF KernelCodes, KeysDone, usb, hid
<1>2. vs \in Seq(Int)
  <2>1. /\ IsFiniteSet((pk \ bk) \cap Keys) /\ IsFiniteSet((bk \ pk) \cap Keys)
        /\ (pk \ bk) \cap Keys \subseteq Int /\ (bk \ pk) \cap Keys \subseteq Int
    <3> DEFINE a == (pk \ bk) \cap Keys
               b == (bk \ pk) \cap Keys
    <3>1. a \in SUBSET Keys /\ b \in SUBSET Keys
      OBVIOUS
    <3> HIDE DEF a, b
    <3>2. IsFiniteSet(a) /\ IsFiniteSet(b) /\ a \subseteq 4..127 /\ b \subseteq 4..127
      BY <3>1, KeysFinite
    <3>3. 4..127 \subseteq Int
      OBVIOUS
    <3> QED BY <3>2, <3>3 DEF a, b
  <2>2. press \in Seq(Int) /\ free \in Seq(Int)
    BY <2>1, SetSequence, SeqMonotonic
  <2> HIDE DEF press, free
  <2>3. [k \in DOMAIN free |-> free[k] + 128] \in Seq(Int)
    <3>1. DOMAIN free = 1..Len(free) /\ Len(free) \in Nat
          /\ \A k \in 1..Len(free) : free[k] + 128 \in Int
      BY <2>2
    <3> QED BY <3>1
  <2> QED BY <2>2, <2>3
<1> HIDE DEF vs
<1>3. ws \in Seq(Words) /\ Framed(ws, 0)
  BY <1>2, KeyMessagesFramed
<1> HIDE DEF ws
<1>4. /\ kernelbuf \in Seq(Words) /\ todo \in [Task -> Seq(Words)] /\ Lead = 0 /\ Lead' = 0
      /\ todo[Main] = <<>> /\ Main \in Task
  BY <1>1 DEF Types, Frames, Lead, Task
<1>5. ~cut' => FramesOf(kernelbuf', todo', Lead')
  BY <1>1, <1>3, <1>4, TakesUp DEF Frames
<1>6. Frames'
  BY <1>1, <1>5 DEF Frames
<1>7. todo' \in [Task -> Seq(Words)]
  BY <1>1, <1>3, <1>4
<1>8. Types'
  BY <1>1, <1>7 DEF Types
<1> QED BY <1>6, <1>8

\* Every step keeps the invariant.
LEMMA StepInv == IInv /\ [Next]_vars => IInv'
<1> SUFFICES ASSUME IInv, [Next]_vars PROVE IInv'
  OBVIOUS
<1>1. Types /\ Frames /\ MouseInv'
  BY StepMouse DEF IInv
<1>2. CASE KeyHandle \/ RtcHandle \/ Refresh
  BY <1>1, <1>2, InterruptsInv DEF IInv
<1>3. CASE MouseAck \/ MousePacket \/ MouseLoses
  BY <1>1, <1>3, MouseFrames DEF IInv
<1>4. CASE ControlEnds \/ ReportEnds \/ TransferFails
  BY <1>1, <1>4, EndsInv DEF IInv
<1>5. ASSUME NEW k \in Keys, KeyMoves(k) PROVE IInv'
  <2>1. Main \in Task
    BY DEF Task
  <2> QED BY <1>1, <1>5, <2>1, DriverInv DEF IInv
<1>6. ASSUME NEW t \in Task, HidInit(t) \/ HidFails(t) \/ CompEnd(t) PROVE IInv'
  BY <1>1, <1>6, DriverInv DEF IInv
<1>7. ASSUME NEW t \in Task, HidReport(t) \/ MassReady(t) PROVE IInv'
  BY <1>1, <1>7, TakesUpInv DEF IInv
<1>8. ASSUME NEW t \in Task, Write(t) PROVE IInv'
  BY <1>1, <1>8, WriteInv DEF IInv
<1>9. CASE KernelMessage \/ KernelPost \/ KernelKey
  BY <1>1, <1>9, KernelInv DEF IInv
<1>10. CASE KernelKeys
  BY <1>1, <1>10, KernelKeysInv DEF IInv
<1>11. CASE KernelUsage
  BY <1>1, <1>11, KernelUsageInv DEF IInv
<1>12. CASE KernelCodes
  BY <1>1, <1>12, KernelCodesInv DEF IInv
<1>13. CASE PostEnd
  <2>1. /\ UNCHANGED <<kernelbuf, left, pk, bk, down, todo, comp, device, fields, phase, xfer,
                       firstt, buf, pressed, cut>>
        /\ main' = "loop" /\ main = "post"
    BY <1>13 DEF PostEnd, usb, hid
  <2>2. Frames'
    <3>1. Lead' = 0 /\ Lead = 0
      BY <2>1 DEF Lead
    <3> QED BY <1>1, <2>1, <3>1 DEF Frames, FramesOf
  <2>3. Types'
    BY <1>1, <2>1 DEF Types
  <2> QED BY <1>1, <2>2, <2>3 DEF IInv
<1>14. CASE UNCHANGED vars
  <2>1. UNCHANGED <<kernelbuf, main, left, pk, bk, down, todo, comp, device, fields, phase, xfer,
                    firstt, buf, pressed, cut>>
    BY <1>14 DEF vars, loop, usb, hid
  <2>2. Frames'
    BY <1>1, <2>1, FramesSame
  <2>3. Types'
    BY <1>1, <2>1 DEF Types
  <2> QED BY <1>1, <2>2, <2>3 DEF IInv
<1> QED BY <1>2, <1>3, <1>4, <1>5, <1>6, <1>7, <1>8, <1>9, <1>10, <1>11, <1>12, <1>13, <1>14 DEF Next

\* The invariant says what NeverAstray needs of it.
LEMMA InvNeverAstray == IInv => NeverAstray
<1> SUFFICES ASSUME Types, Frames, MouseInv PROVE NeverAstray
  BY DEF IInv
<1>1. kernelbuf \in Seq(Words) /\ todo \in [Task -> Seq(Words)] /\ left \in Nat
  BY DEF Types
<1>2. TypeOK
  <2>1. \A k \in DOMAIN kernelbuf : kernelbuf[k].m \in {0, 1, 2, 5, 6, 7, 9}
    <3>1. DOMAIN kernelbuf = 1..Len(kernelbuf)
      BY <1>1
    <3> QED BY <1>1, <3>1, WordAt DEF Kinds
  <2> QED BY <2>1 DEF TypeOK, Types, MouseInv, Codes
<1>3. ASSUME Going, ~Within(Other), todo[Main] = <<>>
      PROVE  Framed(kernelbuf, Lead)
  <2>1. \A t \in Task : ~In(todo[t])
    BY <1>3 DEF Within, In, Task
  <2>2. FramesOf(kernelbuf, todo, Lead) /\ Lead \in Nat
    BY <1>1, <1>3 DEF Going, Frames, Lead
  <2> QED BY <2>1, <2>2, <1>1, Settled
<1>4. ASSUME Going, ~Within(Other), AtLoop
      PROVE  \/ \E m \in {0, 1, 6, 7, 9} : Starts(Message(m))
             \/ /\ Len(kernelbuf) > 1
                /\ kernelbuf[1] \in {Word(2, 0, 0), Word(5, 0, 0)}
                /\ kernelbuf[2].m = kernelbuf[1].m /\ kernelbuf[2].i = 1
  <2> DEFINE m == kernelbuf[1].m
             n == Size(kernelbuf, 1)
  <2>1. Framed(kernelbuf, 0) /\ kernelbuf # <<>>
    BY <1>3, <1>4 DEF AtLoop, Lead
  <2>2. 1 \in 1..Len(kernelbuf) /\ kernelbuf[1].i = 0 /\ Frame(kernelbuf, 1)
    BY <1>1, <2>1, FramedHead
  <2>3. /\ n \in Nat /\ n >= 1 /\ n <= Len(kernelbuf) /\ (m \in {2, 5} => n >= 2)
        /\ \A k \in 1..n : kernelbuf[k].m = m /\ kernelbuf[k].i = k - 1
    BY <1>1, <2>2, FrameSize DEF Frame
  <2>4. m \in Kinds
    BY <1>1, <2>2, WordAt
  <2> HIDE DEF m, n
  <2>5. CASE m \in {2, 5}
    <3>1. Len(kernelbuf) > 1 /\ kernelbuf[2].m = m /\ kernelbuf[2].i = 1
      BY <1>1, <2>3, <2>5
    <3>2. kernelbuf[1] = Word(m, 0, 0)
      BY <1>1, <2>2, WordAt DEF m
    <3> QED BY <3>1, <3>2, <2>5 DEF m
  <2>6. CASE m \in {0, 1, 6, 7, 9}
    <3>1. n = Length[m]
      BY <2>6 DEF n, m, Size
    <3>2. /\ Message(m) \in Seq(Words) /\ Len(Message(m)) = Length[m]
          /\ \A k \in 1..Length[m] : Message(m)[k] = Word(m, k - 1, 0)
      BY <2>6, MessageFramed
    <3>3. ASSUME NEW k \in 1..n PROVE kernelbuf[k] = Word(m, k - 1, 0)
      <4>1. k \in 1..Len(kernelbuf) /\ kernelbuf[k].m = m /\ kernelbuf[k].i = k - 1
        BY <1>1, <2>3
      <4>2. kernelbuf[k].m \notin {2, 5}
        BY <4>1, <2>6
      <4> QED BY <4>1, <4>2, <1>1, WordAt
    <3>4. Starts(Message(m))
      BY <1>1, <2>3, <3>1, <3>2, <3>3, PrefixAt DEF Starts
    <3> QED BY <3>4, <2>6
  <2> QED BY <2>4, <2>5, <2>6 DEF Kinds
<1>5. ASSUME Going, ~Within(Other), main = "keys", left > 0
      PROVE  kernelbuf # <<>> /\ Head(kernelbuf).m = 5 /\ Head(kernelbuf).i > 1
  <2>1. Framed(kernelbuf, left)
    BY <1>3, <1>5 DEF Frames, Lead
  <2>2. 1 \in 1..left /\ left <= Len(kernelbuf)
    BY <1>1, <1>5, <2>1 DEF Framed
  <2>3. kernelbuf # <<>> /\ Head(kernelbuf) = kernelbuf[1]
    BY <1>1, <1>5, <2>2
  <2> QED BY <2>1, <2>2, <2>3 DEF Framed
<1> QED BY <1>2, <1>4, <1>5 DEF NeverAstray

\* The event loop never takes a word for what it is not, nor waits for words that
\* nobody writes, unless a message was written or taken within another one
\* (kernel.cpp:337-543, hid.cpp:286): all writers and the reader agree on the
\* length of each message, that of a report's keys included.
THEOREM NeverGoesAstray == Spec => []NeverAstray
<1> QED BY InitInv, StepInv, InvNeverAstray, PTL DEF Spec

-------------------------------------------------------------------------------
(* What words say of the keys *)

\* The keys that are in the set behind the words s, if those in D were before: a
\* word in put[x] puts x into it, one in off[x] takes it off.
After(s, D, put, off) ==
  {x \in Keys :
     \/ \E k \in 1..Len(s) : s[k] \in put[x] /\ \A j \in (k + 1)..Len(s) : s[j] \notin off[x]
     \/ x \in D /\ \A j \in 1..Len(s) : s[j] \notin off[x]}

\* Words behind words.
LEMMA AfterJoined ==
  ASSUME NEW s \in Seq(Words), NEW t \in Seq(Words), NEW D, NEW put, NEW off
  PROVE  After(s \o t, D, put, off) = After(t, After(s, D, put, off), put, off)
<1> DEFINE u == s \o t
<1>1. /\ Len(u) = Len(s) + Len(t) /\ Len(s) \in Nat /\ Len(t) \in Nat
      /\ \A n \in 1..Len(s) : u[n] = s[n]
      /\ \A n \in 1..Len(t) : u[n + Len(s)] = t[n]
  BY Joined
<1> HIDE DEF u
<1>2. \A n \in 1..Len(u) : n \in 1..Len(s) \/ (n - Len(s) \in 1..Len(t) /\ (n - Len(s)) + Len(s) = n)
  BY <1>1
<1>3. ASSUME NEW x \in Keys, x \in After(u, D, put, off) PROVE x \in After(t, After(s, D, put, off), put, off)
  <2>1. CASE \E k \in 1..Len(u) : u[k] \in put[x] /\ \A j \in (k + 1)..Len(u) : u[j] \notin off[x]
    <3>1. PICK k \in 1..Len(u) : u[k] \in put[x] /\ \A j \in (k + 1)..Len(u) : u[j] \notin off[x]
      BY <2>1
    <3>2. CASE k \in 1..Len(s)
      <4>1. s[k] \in put[x]
        BY <1>1, <3>1, <3>2
      <4>2. \A j \in (k + 1)..Len(s) : s[j] \notin off[x]
        <5>1. SUFFICES ASSUME NEW j \in (k + 1)..Len(s) PROVE s[j] \notin off[x]
          OBVIOUS
        <5>2. j \in (k + 1)..Len(u) /\ j \in 1..Len(s)
          BY <1>1, <3>2
        <5> QED BY <1>1, <5>2, <3>1
      <4>3. \A j \in 1..Len(t) : t[j] \notin off[x]
        <5>1. SUFFICES ASSUME NEW j \in 1..Len(t) PROVE t[j] \notin off[x]
          OBVIOUS
        <5>2. j + Len(s) \in (k + 1)..Len(u)
          BY <1>1, <3>2
        <5> QED BY <1>1, <5>2, <3>1
      <4>4. x \in After(s, D, put, off)
        BY <4>1, <4>2, <3>2 DEF After
      <4> QED BY <4>3, <4>4 DEF After
    <3>3. CASE k - Len(s) \in 1..Len(t) /\ (k - Len(s)) + Len(s) = k
      <4> DEFINE n == k - Len(s)
      <4>1. n \in 1..Len(t) /\ n + Len(s) = k /\ n \in Int
        BY <3>3
      <4> HIDE DEF n
      <4>2. t[n] \in put[x]
        BY <1>1, <4>1, <3>1
      <4>3. \A j \in (n + 1)..Len(t) : t[j] \notin off[x]
        <5>1. SUFFICES ASSUME NEW j \in (n + 1)..Len(t) PROVE t[j] \notin off[x]
          OBVIOUS
        <5>2. j + Len(s) \in (k + 1)..Len(u) /\ j \in 1..Len(t)
          BY <1>1, <4>1
        <5> QED BY <1>1, <5>2, <3>1
      <4> QED BY <4>1, <4>2, <4>3 DEF After
    <3> QED BY <3>2, <3>3, <1>2
  <2>2. CASE x \in D /\ \A j \in 1..Len(u) : u[j] \notin off[x]
    <3>1. \A j \in 1..Len(s) : s[j] \notin off[x]
      <4>1. SUFFICES ASSUME NEW j \in 1..Len(s) PROVE s[j] \notin off[x]
        OBVIOUS
      <4>2. j \in 1..Len(u)
        BY <1>1
      <4> QED BY <1>1, <4>2, <2>2
    <3>2. \A j \in 1..Len(t) : t[j] \notin off[x]
      <4>1. SUFFICES ASSUME NEW j \in 1..Len(t) PROVE t[j] \notin off[x]
        OBVIOUS
      <4>2. j + Len(s) \in 1..Len(u)
        BY <1>1
      <4> QED BY <1>1, <4>2, <2>2
    <3>3. x \in After(s, D, put, off)
      BY <3>1, <2>2 DEF After
    <3> QED BY <3>2, <3>3 DEF After
  <2> QED BY <1>3, <2>1, <2>2 DEF After
<1>4. ASSUME NEW x \in Keys, x \in After(t, After(s, D, put, off), put, off) PROVE x \in After(u, D, put, off)
  <2>1. CASE \E k \in 1..Len(t) : t[k] \in put[x] /\ \A j \in (k + 1)..Len(t) : t[j] \notin off[x]
    <3>1. PICK k \in 1..Len(t) : t[k] \in put[x] /\ \A j \in (k + 1)..Len(t) : t[j] \notin off[x]
      BY <2>1
    <3>2. k + Len(s) \in 1..Len(u) /\ u[k + Len(s)] \in put[x]
      BY <3>1, <1>1
    <3>3. \A j \in ((k + Len(s)) + 1)..Len(u) : u[j] \notin off[x]
      <4>1. SUFFICES ASSUME NEW j \in ((k + Len(s)) + 1)..Len(u) PROVE u[j] \notin off[x]
        OBVIOUS
      <4>2. /\ j - Len(s) \in (k + 1)..Len(t) /\ j - Len(s) \in 1..Len(t)
            /\ (j - Len(s)) + Len(s) = j
        BY <1>1
      <4>3. t[j - Len(s)] \notin off[x]
        BY <4>2, <3>1
      <4>4. u[(j - Len(s)) + Len(s)] \in off[x] <=> t[j - Len(s)] \in off[x]
        BY <1>1, <4>2, Zenon
      <4> QED BY <4>2, <4>3, <4>4
    <3> QED BY <3>2, <3>3 DEF After
  <2>2. CASE x \in After(s, D, put, off) /\ \A j \in 1..Len(t) : t[j] \notin off[x]
    <3>0. ASSUME NEW j \in 1..Len(u), j > Len(s) PROVE u[j] \notin off[x]
      <4>2. j - Len(s) \in 1..Len(t) /\ (j - Len(s)) + Len(s) = j
        BY <1>1, <3>0
      <4>3. t[j - Len(s)] \notin off[x]
        BY <4>2, <2>2
      <4>4. u[(j - Len(s)) + Len(s)] \in off[x] <=> t[j - Len(s)] \in off[x]
        BY <1>1, <4>2, Zenon
      <4> QED BY <4>2, <4>3, <4>4
    <3>1. CASE \E k \in 1..Len(s) : s[k] \in put[x] /\ \A j \in (k + 1)..Len(s) : s[j] \notin off[x]
      <4>1. PICK k \in 1..Len(s) : s[k] \in put[x] /\ \A j \in (k + 1)..Len(s) : s[j] \notin off[x]
        BY <3>1
      <4>2. k \in 1..Len(u) /\ u[k] \in put[x]
        BY <4>1, <1>1
      <4>3. \A j \in (k + 1)..Len(u) : u[j] \notin off[x]
        <5>1. SUFFICES ASSUME NEW j \in (k + 1)..Len(u) PROVE u[j] \notin off[x]
          OBVIOUS
        <5>2. j \in 1..Len(u) /\ (j <= Len(s) => j \in (k + 1)..Len(s) /\ j \in 1..Len(s))
          BY <1>1
        <5>3. j <= Len(s) => u[j] \notin off[x]
          BY <1>1, <5>2, <4>1
        <5> QED BY <5>2, <5>3, <3>0, <1>1
      <4> QED BY <4>2, <4>3 DEF After
    <3>2. CASE x \in D /\ \A j \in 1..Len(s) : s[j] \notin off[x]
      <4>1. \A j \in 1..Len(u) : u[j] \notin off[x]
        <5>1. SUFFICES ASSUME NEW j \in 1..Len(u) PROVE u[j] \notin off[x]
          OBVIOUS
        <5>2. j <= Len(s) => j \in 1..Len(s)
          BY <1>1
        <5>3. j <= Len(s) => u[j] \notin off[x]
          BY <1>1, <5>2, <3>2
        <5> QED BY <5>3, <3>0, <1>1
      <4> QED BY <4>1, <3>2 DEF After
    <3> QED BY <2>2, <3>1, <3>2 DEF After
  <2> QED BY <1>4, <2>1, <2>2 DEF After
<1>5. After(u, D, put, off) = After(t, After(s, D, put, off), put, off)
  <2>1. After(u, D, put, off) \subseteq Keys /\ After(t, After(s, D, put, off), put, off) \subseteq Keys
    BY DEF After
  <2> QED BY <2>1, <1>3, <1>4
<1> QED BY <1>5 DEF u

\* Words that put nothing into the set and take nothing off it.
LEMMA AfterNone ==
  ASSUME NEW s \in Seq(Words), NEW D, NEW put, NEW off,
         \A k \in 1..Len(s) : \A x \in Keys : s[k] \notin put[x] /\ s[k] \notin off[x]
  PROVE  After(s, D, put, off) = D \cap Keys
BY DEF After

\* A key message: v goes down, or v - 128 up.  The keys of a report, begun anew
\* by its first word.
Pressing  == [x \in Keys |-> {Word(2, 1, x)}]
Releasing == [x \in Keys |-> {Word(2, 1, x + 128)}]
Listing   == [x \in Keys |-> {w \in Words : w.m = 5 /\ w.i > 1 /\ w.v = x}]
Beginning == [x \in Keys |-> {Word(5, 0, 0)}]

\* The keys that whoever has the focus holds to be down, once he has heard s.
Heard(s, D) == After(s, D, Pressing, Releasing)
\* The keys of the last report, once the event loop has read s.
Told(s, B) == After(s, B, Listing, Beginning)

\* No words of this kind.
Without(s, m) == \A k \in 1..Len(s) : s[k].m # m

\* What is in these sets.
LEMMA WordSets ==
  ASSUME NEW w \in Words, NEW x \in Keys
  PROVE  /\ w \in Pressing[x] <=> w = Word(2, 1, x)
         /\ w \in Releasing[x] <=> w = Word(2, 1, x + 128)
         /\ w \in Listing[x] <=> w.m = 5 /\ w.i > 1 /\ w.v = x
         /\ w \in Beginning[x] <=> w = Word(5, 0, 0)
         /\ x \in 4..127
BY DEF Pressing, Releasing, Listing, Beginning

LEMMA HeardJoined ==
  ASSUME NEW s \in Seq(Words), NEW t \in Seq(Words), NEW D
  PROVE  Heard(s \o t, D) = Heard(t, Heard(s, D))
<1>1. After(s \o t, D, Pressing, Releasing) = After(t, After(s, D, Pressing, Releasing), Pressing, Releasing)
  BY AfterJoined
<1> QED BY <1>1 DEF Heard

LEMMA ToldJoined ==
  ASSUME NEW s \in Seq(Words), NEW t \in Seq(Words), NEW D
  PROVE  Told(s \o t, D) = Told(t, Told(s, D))
<1>1. After(s \o t, D, Listing, Beginning) = After(t, After(s, D, Listing, Beginning), Listing, Beginning)
  BY AfterJoined
<1> QED BY <1>1 DEF Told

LEMMA HeardKeys == ASSUME NEW s, NEW D PROVE Heard(s, D) \subseteq Keys
BY DEF Heard, After

LEMMA ToldKeys == ASSUME NEW s, NEW B PROVE Told(s, B) \subseteq Keys
BY DEF Told, After

\* Words that say nothing of the device's keys; those of a PS/2 key say none.
Quiet(s) == \A k \in 1..Len(s) : s[k].m \notin {2, 5} \/ s[k] = Word(2, 0, 0) \/ s[k] = Word(2, 1, -1)

LEMMA HeardNothing ==
  ASSUME NEW s \in Seq(Words), Quiet(s) \/ Without(s, 2), NEW D
  PROVE  Heard(s, D) = D \cap Keys
<1>1. SUFFICES ASSUME NEW k \in 1..Len(s), NEW x \in Keys
               PROVE  s[k] \notin Pressing[x] /\ s[k] \notin Releasing[x]
  BY AfterNone DEF Heard
<1>2. s[k] \in Words
  OBVIOUS
<1>3. s[k].m # 2 \/ s[k].m = 5 \/ s[k] = Word(2, 0, 0) \/ s[k] = Word(2, 1, -1)
  BY DEF Quiet, Without
<1> QED BY <1>2, <1>3, WordSets DEF Word

LEMMA ToldNothing ==
  ASSUME NEW s \in Seq(Words), Quiet(s) \/ Without(s, 5), NEW B
  PROVE  Told(s, B) = B \cap Keys
<1>1. SUFFICES ASSUME NEW k \in 1..Len(s), NEW x \in Keys
               PROVE  s[k] \notin Listing[x] /\ s[k] \notin Beginning[x]
  BY AfterNone DEF Told
<1>2. s[k] \in Words
  OBVIOUS
<1>3. s[k].m # 5
  BY DEF Quiet, Without, Word
<1> QED BY <1>2, <1>3, WordSets DEF Word

\* A key message does what the event loop's branch for it does.
LEMMA HeardKey ==
  ASSUME NEW v \in Int, NEW D
  PROVE  Heard(KeyMessage(v), D) = (IF v \in Keys THEN D \cup {v} ELSE D \ {v - 128}) \cap Keys
<1> DEFINE s == KeyMessage(v)
<1>1. s \in Seq(Words) /\ Len(s) = 2 /\ s[1] = Word(2, 0, 0) /\ s[2] = Word(2, 1, v)
  BY KeyMessageFramed
<1> HIDE DEF s
<1>2. ASSUME NEW x \in Keys
      PROVE  /\ s[1] \notin Pressing[x] /\ s[1] \notin Releasing[x]
             /\ s[2] \in Pressing[x] <=> v = x
             /\ s[2] \in Releasing[x] <=> v = x + 128
             /\ v \in Keys => v # x + 128
             /\ v = x + 128 <=> x = v - 128
  <2>1. s[1] \in Words /\ s[2] \in Words
    BY <1>1
  <2>2. x \in 4..127 /\ (v \in Keys => v \in 4..127)
    OBVIOUS
  <2> QED BY <2>1, <2>2, <1>1, WordSets DEF Word
<1>3. ASSUME NEW x \in Keys
      PROVE  x \in Heard(s, D) <=> v = x \/ (x \in D /\ v # x + 128)
  <2>1. \A k : k \in 1..Len(s) <=> k = 1 \/ k = 2
    BY <1>1
  <2>2. CASE v = x
    <3>1. 2 \in 1..Len(s) /\ \A j \in (2 + 1)..Len(s) : s[j] \notin Releasing[x]
      BY <1>1
    <3> QED BY <2>2, <3>1, <1>2 DEF Heard, After
  <2>3. CASE v # x
    <3>1. \A k \in 1..Len(s) : s[k] \notin Pressing[x]
      BY <2>1, <2>3, <1>2
    <3>2. (\A j \in 1..Len(s) : s[j] \notin Releasing[x]) <=> v # x + 128
      BY <2>1, <1>2
    <3> QED BY <2>3, <3>1, <3>2 DEF Heard, After
  <2> QED BY <2>2, <2>3
<1>4. Heard(s, D) \subseteq Keys
  BY HeardKeys
<1>5. ASSUME NEW x \in Keys
      PROVE  x \in Heard(s, D) <=> x \in IF v \in Keys THEN D \cup {v} ELSE D \ {v - 128}
  <2>1. CASE v \in Keys
    BY <2>1, <1>2, <1>3
  <2>2. CASE v \notin Keys
    BY <2>2, <1>2, <1>3
  <2> QED BY <2>1, <2>2
<1>6. Heard(s, D) = (IF v \in Keys THEN D \cup {v} ELSE D \ {v - 128}) \cap Keys
  BY <1>4, <1>5
<1> QED BY <1>6 DEF s

\* The first two words of a report make the event loop forget what it has read.
LEMMA ToldBegins ==
  ASSUME NEW s \in Seq(Words), Len(s) = 2, s[1] = Word(5, 0, 0), s[2].i = 1, NEW B
  PROVE  Told(s, B) = {}
<1>1. s[1] \in Words /\ s[2] \in Words
  OBVIOUS
<1>2. ASSUME NEW x \in Keys
      PROVE  s[1] \in Beginning[x] /\ s[1] \notin Listing[x] /\ s[2] \notin Listing[x]
  BY <1>1, WordSets DEF Word
<1>3. 1 \in 1..Len(s) /\ \A k \in 1..Len(s) : k = 1 \/ k = 2
  OBVIOUS
<1> QED BY <1>2, <1>3 DEF Told, After

\* A code in a report.
LEMMA ToldUsage ==
  ASSUME NEW w \in Words, w.m = 5, w.i > 1, NEW B
  PROVE  Told(<<w>>, B) = (B \cup {w.v}) \cap Keys
<1> DEFINE s == <<w>>
<1>1. Len(s) = 1 /\ s[1] = w
  OBVIOUS
<1> HIDE DEF s
<1>2. ASSUME NEW x \in Keys
      PROVE  s[1] \notin Beginning[x] /\ (s[1] \in Listing[x] <=> w.v = x)
  <2>1. w.i # 0
    OBVIOUS
  <2>2. /\ w \in Listing[x] <=> w.m = 5 /\ w.i > 1 /\ w.v = x
        /\ w \in Beginning[x] <=> w = Word(5, 0, 0)
    BY WordSets
  <2> QED BY <2>1, <2>2, <1>1 DEF Word
<1>3. 1 \in 1..Len(s) /\ (\A k \in 1..Len(s) : k = 1) /\ \A j \in (1 + 1)..Len(s) : FALSE
  BY <1>1
<1>4. ASSUME NEW x \in Keys PROVE x \in Told(s, B) <=> x \in B \/ x = w.v
  BY <1>2, <1>3 DEF Told, After
<1>5. Told(s, B) = (B \cup {w.v}) \cap Keys
  BY <1>4, ToldKeys
<1> QED BY <1>5 DEF s

\* A whole report.
LEMMA ToldReport ==
  ASSUME NEW us \in Seq(Codes), NEW B
  PROVE  Told(KeysMessage(us), B) = ToSet(us) \cap Keys
<1> DEFINE s == KeysMessage(us)
<1>1. /\ s \in Seq(Words) /\ Len(s) = Len(us) + 2 /\ Len(us) \in Nat
      /\ s[1] = Word(5, 0, 0) /\ s[2] = Word(5, 1, Len(us))
      /\ \A n \in 1..Len(us) : s[n + 2] = Word(5, n + 1, us[n])
  BY KeysMessageFramed
<1> HIDE DEF s
<1>2. ASSUME NEW k \in 1..Len(s), k > 1 PROVE s[k].i > 0
  <2>1. CASE k = 2
    BY <2>1, <1>1 DEF Word
  <2>2. CASE k > 2
    <3>1. k - 2 \in 1..Len(us) /\ (k - 2) + 2 = k
      BY <1>1, <2>2
    <3>2. s[(k - 2) + 2] = Word(5, (k - 2) + 1, us[k - 2])
      BY <3>1, <1>1, Zenon
    <3> QED BY <3>1, <3>2 DEF Word
  <2> QED BY <1>2, <2>1, <2>2
<1>3. ASSUME NEW x \in Keys, x \in Told(s, B) PROVE x \in ToSet(us)
  <2>1. 1 \in 1..Len(s) /\ s[1] \in Beginning[x] /\ s[1] \in Words
    BY <1>1, WordSets
  <2>2. PICK k \in 1..Len(s) : s[k] \in Listing[x]
    BY <1>3, <2>1 DEF Told, After
  <2>3. s[k].i > 1 /\ s[k].v = x
    <3>1. s[k] \in Words
      BY <1>1
    <3> QED BY <3>1, <2>2, WordSets
  <2>4. k - 2 \in 1..Len(us) /\ (k - 2) + 2 = k
    BY <1>1, <2>3 DEF Word
  <2>5. s[(k - 2) + 2] = Word(5, (k - 2) + 1, us[k - 2])
    BY <2>4, <1>1, Zenon
  <2>6. x = us[k - 2]
    BY <2>3, <2>4, <2>5 DEF Word
  <2> QED BY <2>4, <2>6 DEF ToSet
<1>4. ASSUME NEW x \in Keys, x \in ToSet(us) PROVE x \in Told(s, B)
  <2>1. PICK n \in 1..Len(us) : us[n] = x
    BY <1>4 DEF ToSet
  <2>2. n + 2 \in 1..Len(s) /\ s[n + 2] \in Words /\ s[n + 2] = Word(5, n + 1, x) /\ n + 1 > 1
    BY <1>1, <2>1
  <2>3. s[n + 2] \in Listing[x]
    BY <2>2, WordSets DEF Word
  <2>4. \A j \in ((n + 2) + 1)..Len(s) : s[j] \notin Beginning[x]
    <3>1. SUFFICES ASSUME NEW j \in ((n + 2) + 1)..Len(s) PROVE s[j] \notin Beginning[x]
      OBVIOUS
    <3>2. j \in 1..Len(s) /\ j > 1
      BY <1>1
    <3>3. s[j].i > 0 /\ s[j] \in Words
      BY <3>2, <1>1, <1>2
    <3> QED BY <3>3, WordSets DEF Word
  <2> QED BY <2>2, <2>3, <2>4 DEF Told, After
<1>5. Told(s, B) = ToSet(us) \cap Keys
  BY <1>3, <1>4, ToldKeys
<1> QED BY <1>5 DEF s

\* A word of key messages is the first or the second one of its message.
LEMMA Pairs ==
  ASSUME NEW l \in Nat, NEW k \in 1..(2 * l)
  PROVE  \E n \in 1..l : k = 2 * n - 1 \/ k = 2 * n
<1>1. CASE k % 2 = 0
  <2>1. k \div 2 \in 1..l /\ k = 2 * (k \div 2)
    BY <1>1
  <2> QED BY <2>1, Zenon
<1>2. CASE k % 2 = 1
  <2>1. k \div 2 \in Int /\ k = 2 * (k \div 2) + 1
    BY <1>2
  <2>2. (k \div 2) + 1 \in 1..l /\ k = 2 * ((k \div 2) + 1) - 1
    BY <2>1
  <2> QED BY <2>2, Zenon
<1> QED BY <1>1, <1>2

\* Key messages for the codes vs, none of which is both pressed and released.
LEMMA HeardCodes ==
  ASSUME NEW vs \in Seq(Int), NEW D, \A x \in Keys : ~(x \in ToSet(vs) /\ x + 128 \in ToSet(vs))
  PROVE  Heard(KeyMessages(vs), D) =
           {x \in Keys : x \in ToSet(vs) \/ (x \in D /\ x + 128 \notin ToSet(vs))}
<1> DEFINE s == KeyMessages(vs)
<1>1. /\ s \in Seq(Words) /\ Len(s) = 2 * Len(vs) /\ Len(vs) \in Nat
      /\ \A n \in 1..Len(vs) : s[2 * n - 1] = Word(2, 0, 0) /\ s[2 * n] = Word(2, 1, vs[n])
  BY KeyMessagesFramed
<1> HIDE DEF s
\* The codes are those of the second words.
<1>2. ASSUME NEW v \in Int, NEW k \in 1..Len(s), s[k] = Word(2, 1, v) PROVE v \in ToSet(vs)
  <2>1. PICK n \in 1..Len(vs) : k = 2 * n - 1 \/ k = 2 * n
    BY <1>1, Pairs
  <2>2. s[2 * n - 1] = Word(2, 0, 0) /\ s[2 * n] = Word(2, 1, vs[n])
    BY <1>1, Zenon
  <2>3. v = vs[n]
    <3>1. /\ Word(2, 1, v).i = 1 /\ Word(2, 1, v).v = v /\ Word(2, 0, 0).i = 0
          /\ Word(2, 1, vs[n]).v = vs[n]
      BY DEF Word
    <3>2. s[k].i = 1 /\ s[k].v = v
      BY <1>2, <3>1, Zenon
    <3>3. s[2 * n - 1].i = 0 /\ s[2 * n].v = vs[n]
      BY <2>2, <3>1, Zenon
    <3>4. CASE k = 2 * n - 1
      <4>1. s[k].i = 0
        BY <3>3, <3>4, Zenon
      <4> QED BY <3>2, <4>1
    <3>5. CASE k = 2 * n
      BY <3>2, <3>3, <3>5, Zenon
    <3> QED BY <2>1, <3>4, <3>5, Zenon
  <2> QED BY <2>3 DEF ToSet
<1>3. ASSUME NEW v \in ToSet(vs) PROVE \E k \in 1..Len(s) : s[k] = Word(2, 1, v)
  <2>1. PICK n \in 1..Len(vs) : vs[n] = v
    <3>1. DOMAIN vs = 1..Len(vs)
      OBVIOUS
    <3> QED BY <3>1, <1>3, Zenon DEF ToSet
  <2>2. 2 * n \in 1..Len(s)
    BY <1>1
  <2>3. s[2 * n] = Word(2, 1, v)
    BY <1>1, <2>1, Zenon
  <2> QED BY <2>2, <2>3, Zenon
<1>4. ASSUME NEW x \in Keys
      PROVE  x \in Heard(s, D) <=> x \in ToSet(vs) \/ (x \in D /\ x + 128 \notin ToSet(vs))
  <2>1. x \in Int /\ x + 128 \in Int
    BY WordSets
  <2>2. \A k \in 1..Len(s) : /\ s[k] \in Pressing[x] <=> s[k] = Word(2, 1, x)
                             /\ s[k] \in Releasing[x] <=> s[k] = Word(2, 1, x + 128)
    BY <1>1, WordSets
  <2>3. CASE x \in ToSet(vs)
    <3>1. PICK k \in 1..Len(s) : s[k] = Word(2, 1, x)
      BY <1>3, <2>3
    <3>2. \A j \in 1..Len(s) : s[j] \notin Releasing[x]
      BY <1>2, <2>1, <2>2, <2>3
    <3>3. \A j \in (k + 1)..Len(s) : s[j] \notin Releasing[x]
      BY <3>2
    <3> QED BY <2>2, <2>3, <3>1, <3>3 DEF Heard, After
  <2>4. CASE x \notin ToSet(vs)
    <3>1. \A k \in 1..Len(s) : s[k] \notin Pressing[x]
      BY <1>2, <2>1, <2>2, <2>4
    <3>2. (\A j \in 1..Len(s) : s[j] \notin Releasing[x]) <=> x + 128 \notin ToSet(vs)
      BY <1>2, <1>3, <2>1, <2>2
    <3> QED BY <2>4, <3>1, <3>2 DEF Heard, After
  <2> QED BY <2>3, <2>4
<1>5. Heard(s, D) = {x \in Keys : x \in ToSet(vs) \/ (x \in D /\ x + 128 \notin ToSet(vs))}
  BY <1>4, HeardKeys
<1> QED BY <1>5 DEF s

-------------------------------------------------------------------------------
(* The keys on their way *)

\* The keys that the event loop knows of, its part of a report that it reads
\* included.
Known == IF main = "keys" THEN pk ELSE bk

\* Who writes what: keys' words are those of the event loop, or come from
\* hid::comp, which one task is in.
Writers == /\ todo[Other] # <<>> => comp = Other
           /\ Without(todo[Other], 2)
           /\ comp # Main => Without(todo[Main], 5)

\* A device that is not set up, or has no keys, has reported none.
Unset == /\ phase # 1 \/ Slots = 0 => firstt /\ pressed = {} /\ buf = <<>>
         /\ phase # 1 => xfer \notin {"report", "taken"}

\* Up to the first report with a key there are no words of reports.
First == ~cut /\ firstt => /\ Without(kernelbuf, 5) /\ \A t \in Task : Without(todo[t], 5)
                          /\ main # "keys" /\ bk = {}

\* What the event loop has seen is what the focus holds to be down, once the
\* words on their way have come.
Hears == ~cut => Heard(todo[Main], Heard(kernelbuf, down)) = bk \cap Keys

\* What the event loop will have read of the last report.
ToldAll == Told(todo[Other], Told(todo[Main], Told(kernelbuf, Known)))

\* What the device has reported is what the event loop will have seen.
Tells == ~cut /\ xfer \in {"report", "taken"} =>
           ToldAll = ToSet(buf) \cap Keys

KeysInv == Writers /\ Unset /\ First /\ Hears /\ Tells

LEMMA WithoutJoined ==
  ASSUME NEW s \in Seq(Words), NEW t \in Seq(Words), NEW m
  PROVE  Without(s \o t, m) <=> Without(s, m) /\ Without(t, m)
<1> DEFINE u == s \o t
<1>1. /\ Len(u) = Len(s) + Len(t) /\ Len(s) \in Nat /\ Len(t) \in Nat
      /\ \A n \in 1..Len(s) : u[n] = s[n]
      /\ \A n \in 1..Len(t) : u[n + Len(s)] = t[n]
  BY Joined
<1> HIDE DEF u
<1>2. Without(s, m) /\ Without(t, m) => Without(u, m)
  <2>1. SUFFICES ASSUME Without(s, m), Without(t, m), NEW k \in 1..Len(u) PROVE u[k].m # m
    BY DEF Without
  <2>2. CASE k <= Len(s)
    BY <1>1, <2>1, <2>2 DEF Without
  <2>3. CASE k > Len(s)
    <3>1. k - Len(s) \in 1..Len(t) /\ (k - Len(s)) + Len(s) = k
      BY <1>1, <2>3
    <3>2. u[(k - Len(s)) + Len(s)] = t[k - Len(s)]
      BY <1>1, <3>1, Zenon
    <3> QED BY <2>1, <3>1, <3>2 DEF Without
  <2> QED BY <1>1, <2>2, <2>3
<1>3. Without(u, m) => Without(s, m)
  <2>1. SUFFICES ASSUME Without(u, m), NEW k \in 1..Len(s) PROVE s[k].m # m
    BY DEF Without
  <2>2. k \in 1..Len(u) /\ u[k] = s[k]
    BY <1>1
  <2> QED BY <2>1, <2>2 DEF Without
<1>4. Without(u, m) => Without(t, m)
  <2>1. SUFFICES ASSUME Without(u, m), NEW k \in 1..Len(t) PROVE t[k].m # m
    BY DEF Without
  <2>2. k + Len(s) \in 1..Len(u) /\ u[k + Len(s)] = t[k]
    BY <1>1
  <2> QED BY <2>1, <2>2 DEF Without
<1> QED BY <1>2, <1>3, <1>4 DEF u

\* The front of a queue and the rest of it.
LEMMA Split ==
  ASSUME NEW s \in Seq(Words), NEW n \in Nat, n <= Len(s)
  PROVE  /\ SubSeq(s, 1, n) \in Seq(Words) /\ SubSeq(s, n + 1, Len(s)) \in Seq(Words)
         /\ Len(SubSeq(s, 1, n)) = n /\ \A k \in 1..n : SubSeq(s, 1, n)[k] = s[k]
         /\ s = SubSeq(s, 1, n) \o SubSeq(s, n + 1, Len(s))
<1>1. SubSeq(s, 1, n) \o SubSeq(s, n + 1, Len(s)) = SubSeq(s, 1, Len(s))
  <2>1. 1 \in 1..(Len(s) + 1) /\ n \in (1 - 1)..Len(s) /\ Len(s) \in n..Len(s)
    OBVIOUS
  <2> QED BY <2>1, ConcatAdjacentSubSeq, Zenon
<1>2. SubSeq(s, 1, Len(s)) = s
  BY SubSeqFull
<1>3. /\ SubSeq(s, 1, n) \in Seq(Words) /\ SubSeq(s, n + 1, Len(s)) \in Seq(Words)
      /\ Len(SubSeq(s, 1, n)) = n /\ \A k \in 1..n : SubSeq(s, 1, n)[k] = s[k]
  OBVIOUS
<1> QED BY <1>1, <1>2, <1>3

\* What was told before matters as to the keys only.
LEMMA ToldOfKeys ==
  ASSUME NEW s \in Seq(Words), NEW B
  PROVE  Told(s, B) = Told(s, B \cap Keys)
BY DEF Told, After

LEMMA EmptySays ==
  ASSUME NEW D \in SUBSET Keys
  PROVE  Heard(<<>>, D) = D /\ Told(<<>>, D) = D
<1>1. <<>> \in Seq(Words) /\ Quiet(<<>>)
  BY DEF Quiet
<1>2. Heard(<<>>, D) = D \cap Keys /\ Told(<<>>, D) = D \cap Keys
  BY <1>1, HeardNothing, ToldNothing
<1> QED BY <1>2

\* The types the lemmas below need.
LEMMA KeysTypes ==
  ASSUME Types
  PROVE  /\ kernelbuf \in Seq(Words) /\ todo[Main] \in Seq(Words) /\ todo[Other] \in Seq(Words)
         /\ down \in SUBSET Keys /\ Known \subseteq Codes
         /\ Main \in Task /\ Other \in Task /\ Main # Other /\ NoTask \notin Task
         /\ \A t \in Task : t = Main \/ t = Other
BY DEF Types, Known, Task

\* Without words of reports there is no key.
LEMMA FirstTold == Types /\ First /\ firstt /\ ~cut => ToldAll = {}
<1> SUFFICES ASSUME Types, First, firstt, ~cut PROVE ToldAll = {}
  OBVIOUS
<1>1. /\ Without(kernelbuf, 5) /\ Without(todo[Main], 5) /\ Without(todo[Other], 5) /\ Known = {}
  BY KeysTypes DEF First, Known
<1>2. Told(kernelbuf, Known) = {}
  BY <1>1, KeysTypes, ToldNothing
<1>3. Told(todo[Main], {}) = {} /\ Told(todo[Other], {}) = {}
  BY <1>1, KeysTypes, ToldNothing
<1> QED BY <1>2, <1>3 DEF ToldAll

-------------------------------------------------------------------------------
(* Every step keeps them *)

\* An interrupt appends a message that says nothing of keys, or none at all.
LEMMA QuietAppended ==
  ASSUME Types, KeysInv, ~cut, UNCHANGED <<todo, main, pk, bk, down, firstt>>,
         NEW ws \in Seq(Words), Quiet(ws), kernelbuf' = kernelbuf \o ws,
         xfer' \in {"report", "taken"} => xfer \in {"report", "taken"} /\ buf' = buf
  PROVE  First' /\ Hears' /\ Tells'
<1>1. kernelbuf \in Seq(Words) /\ down \in SUBSET Keys /\ Known' = Known
  BY KeysTypes DEF Known
<1>2. Heard(kernelbuf', down) = Heard(kernelbuf, down)
  <2>1. Heard(kernelbuf', down) = Heard(ws, Heard(kernelbuf, down))
    BY <1>1, HeardJoined
  <2>2. Heard(ws, Heard(kernelbuf, down)) = Heard(kernelbuf, down) \cap Keys
    BY HeardNothing
  <2> QED BY <2>1, <2>2, HeardKeys
<1>3. Told(kernelbuf', Known) = Told(kernelbuf, Known)
  <2>1. Told(kernelbuf', Known) = Told(ws, Told(kernelbuf, Known))
    BY <1>1, ToldJoined
  <2>2. Told(ws, Told(kernelbuf, Known)) = Told(kernelbuf, Known) \cap Keys
    BY ToldNothing
  <2> QED BY <2>1, <2>2, ToldKeys
<1>4. Without(kernelbuf, 5) => Without(kernelbuf', 5)
  <2>1. ASSUME NEW k \in 1..Len(ws) PROVE ws[k].m # 5
    <3>1. ws[k].m \notin {2, 5} \/ ws[k] = Word(2, 0, 0) \/ ws[k] = Word(2, 1, -1)
      BY DEF Quiet
    <3>2. Word(2, 0, 0).m = 2 /\ Word(2, 1, -1).m = 2
      BY DEF Word
    <3> QED BY <3>1, <3>2
  <2>2. Without(ws, 5)
    BY <2>1 DEF Without
  <2> QED BY <1>1, <2>2, WithoutJoined
<1>5. First'
  BY <1>4 DEF KeysInv, First
<1>6. Hears'
  BY <1>2 DEF KeysInv, Hears
<1>7. Tells'
  BY <1>1, <1>3 DEF KeysInv, Tells, ToldAll
<1> QED BY <1>5, <1>6, <1>7

\* The messages without content, and those of a PS/2 key.
LEMMA MessagesQuiet ==
  /\ \A m \in {0, 1, 6, 7, 9} : /\ Message(m) \in Seq(Words) /\ Quiet(Message(m))
                                /\ Without(Message(m), 2) /\ Without(Message(m), 5)
  /\ KeyMessage(-1) \in Seq(Words) /\ Quiet(KeyMessage(-1))
  /\ <<>> \in Seq(Words) /\ Quiet(<<>>) /\ Without(<<>>, 2) /\ Without(<<>>, 5)
<1>1. ASSUME NEW m \in {0, 1, 6, 7, 9}
      PROVE  /\ Message(m) \in Seq(Words) /\ Quiet(Message(m))
             /\ Without(Message(m), 2) /\ Without(Message(m), 5)
  <2>1. /\ Message(m) \in Seq(Words) /\ Len(Message(m)) = Length[m]
        /\ \A k \in 1..Length[m] : Message(m)[k] = Word(m, k - 1, 0)
    BY MessageFramed
  <2>2. ASSUME NEW k \in 1..Len(Message(m)) PROVE Message(m)[k].m \notin {2, 5}
    <3>1. Message(m)[k] = Word(m, k - 1, 0)
      BY <2>1
    <3>2. Word(m, k - 1, 0).m = m
      BY DEF Word
    <3> QED BY <3>1, <3>2
  <2> QED BY <2>1, <2>2 DEF Quiet, Without
<1>2. KeyMessage(-1) \in Seq(Words) /\ Quiet(KeyMessage(-1))
  <2>1. -1 \in Int
    OBVIOUS
  <2>2. /\ KeyMessage(-1) \in Seq(Words) /\ Len(KeyMessage(-1)) = 2
        /\ KeyMessage(-1)[1] = Word(2, 0, 0) /\ KeyMessage(-1)[2] = Word(2, 1, -1)
    BY <2>1, KeyMessageFramed, Zenon
  <2> QED BY <2>2 DEF Quiet
<1>3. <<>> \in Seq(Words) /\ Quiet(<<>>) /\ Without(<<>>, 2) /\ Without(<<>>, 5)
  BY DEF Quiet, Without
<1> QED BY <1>1, <1>2, <1>3

LEMMA InterruptsKeys ==
  ASSUME Types, KeysInv, \/ KeyHandle \/ RtcHandle \/ Refresh
                         \/ MouseAck \/ MousePacket \/ MouseLoses
  PROVE  KeysInv'
<1>1. /\ UNCHANGED <<main, left, pk, bk, down, todo, comp, fields, phase, xfer, firstt, buf, pressed>>
      /\ ~cut
  BY DEF KeyHandle, RtcHandle, Refresh, Another, Going, MouseAck, MousePacket, MouseLoses, MouseMoves,
         loop, usb, hid
<1>2. PICK ws \in {<<>>, KeyMessage(-1), Message(0), Message(7), Message(9)} :
        kernelbuf' = kernelbuf \o ws
  <2>1. kernelbuf \o <<>> = kernelbuf
    BY KeysTypes
  <2>2. CASE KeyHandle \/ RtcHandle \/ Refresh
    BY <2>2, Zenon DEF KeyHandle, RtcHandle, Refresh, Append_
  <2>3. CASE MouseAck \/ MousePacket \/ MouseLoses
    <3>1. kernelbuf' = kernelbuf \/ kernelbuf' = kernelbuf \o Message(0)
      BY <2>3 DEF MouseAck, MousePacket, MouseLoses, MouseByte, Append_
    <3> QED BY <2>1, <3>1
  <2> QED BY <2>2, <2>3
<1>3. ws \in Seq(Words) /\ Quiet(ws)
  BY MessagesQuiet
<1>4. First' /\ Hears' /\ Tells'
  BY <1>1, <1>2, <1>3, QuietAppended
<1>5. Writers' /\ Unset'
  BY <1>1 DEF KeysInv, Writers, Unset, Slots
<1> QED BY <1>4, <1>5 DEF KeysInv

\* A transfer ends; a device without keys has nothing to report.
LEMMA EndsKeys ==
  ASSUME Types, KeysInv, ControlEnds \/ ReportEnds \/ TransferFails
  PROVE  KeysInv'
<1>1. PICK x \in {"ended", "failed"} : Ends(x)
  BY DEF ControlEnds, ReportEnds, TransferFails
<1>2. /\ UNCHANGED <<main, left, pk, bk, down, todo, comp, pressed>> /\ xfer' = x
      /\ kernelbuf' = kernelbuf \o Message(1)
  BY <1>1 DEF Ends, Append_, loop
<1>3. ~cut /\ UNCHANGED <<fields, phase, firstt>> /\ (buf' = buf \/ (buf' = Report /\ xfer = "report"))
  BY DEF ControlEnds, ReportEnds, TransferFails, Another, Move, Going, hid
<1>4. Message(1) \in Seq(Words) /\ Quiet(Message(1))
  BY MessagesQuiet
<1>5. First' /\ Hears' /\ Tells'
  BY <1>2, <1>3, <1>4, QuietAppended
<1>6. Unset'
  <2>1. Slots = 0 /\ pressed = {} => Report = <<>>
    BY ReportType DEF Types
  <2>2. xfer = "report" => phase = 1
    BY DEF KeysInv, Unset
  <2>3. Slots' = Slots
    BY <1>3 DEF Slots
  <2> QED BY <1>2, <1>3, <2>1, <2>2, <2>3 DEF KeysInv, Unset
<1>7. Writers'
  BY <1>2 DEF KeysInv, Writers
<1> QED BY <1>5, <1>6, <1>7 DEF KeysInv

\* A key moves; the device is set up, or given up; the next transfer is pushed.
LEMMA DriverKeys ==
  ASSUME Types, KeysInv, NEW t \in Task,
         (\E k \in Keys : KeyMoves(k)) \/ HidInit(t) \/ HidFails(t) \/ CompEnd(t) \/ PostEnd
  PROVE  KeysInv'
<1>1. /\ UNCHANGED <<kernelbuf, pk, bk, down, todo, firstt, buf, cut>> /\ ~cut
      /\ main' = main \/ (main = "post" /\ main' = "loop")
  BY DEF KeyMoves, Move, HidInit, HidFails, CompEnd, PostEnd, Handles, Going, loop, usb, hid
<1>2. Hears'
  BY <1>1 DEF KeysInv, Hears
<1>3. First'
  BY <1>1 DEF KeysInv, First
<1>4. ToldAll' = ToldAll
  <2>1. Known' = Known
    BY <1>1 DEF Known
  <2> QED BY <1>1, <2>1 DEF ToldAll
<1>5. CASE HidInit(t)
  <2>1. /\ UNCHANGED <<comp, pressed>> /\ phase # 1
        /\ \/ phase' = 0 /\ xfer' = "control" /\ UNCHANGED fields
           \/ phase' = 1 /\ xfer' = "report"
    BY <1>5 DEF HidInit, hid
  <2>2. firstt /\ pressed = {} /\ buf = <<>>
    BY <2>1 DEF KeysInv, Unset
  <2>3. Unset'
    BY <2>1, <2>2, <1>1 DEF Unset
  <2>4. Writers'
    BY <2>1, <1>1 DEF KeysInv, Writers
  <2>5. Tells'
    <3>1. ToldAll = {} /\ ToSet(buf) = {}
      BY <1>1, <2>2, FirstTold DEF KeysInv, ToSet
    <3> QED BY <1>1, <1>4, <3>1 DEF Tells
  <2> QED BY <1>2, <1>3, <2>3, <2>4, <2>5 DEF KeysInv
<1>6. CASE HidFails(t)
  <2>1. UNCHANGED <<comp, pressed, fields, phase>> /\ xfer' = "none"
    BY <1>6 DEF HidFails, hid
  <2>2. Unset' /\ Writers' /\ Tells'
    BY <2>1, <1>1 DEF KeysInv, Unset, Writers, Tells, Slots
  <2> QED BY <1>2, <1>3, <2>2 DEF KeysInv
<1>7. CASE CompEnd(t)
  <2>1. /\ UNCHANGED <<pressed, fields, phase>> /\ comp = t /\ todo[t] = <<>> /\ comp' = NoTask
        /\ xfer' = IF xfer = "taken" THEN "report" ELSE xfer
    BY <1>7 DEF CompEnd, hid
  <2>2. Unset'
    BY <2>1, <1>1 DEF KeysInv, Unset, Slots
  <2>3. Writers'
    <3>1. todo[Other] = <<>> \/ t = Other
      BY <2>1 DEF KeysInv, Writers
    <3>2. todo[Other] = <<>>
      BY <3>1, <2>1
    <3>3. Without(todo[Main], 5)
      BY <2>1, KeysTypes, MessagesQuiet DEF KeysInv, Writers
    <3> QED BY <1>1, <3>2, <3>3 DEF KeysInv, Writers
  <2>4. Tells'
    BY <1>1, <1>4, <2>1 DEF KeysInv, Tells
  <2> QED BY <1>2, <1>3, <2>2, <2>3, <2>4 DEF KeysInv
<1>8. CASE PostEnd
  <2>1. UNCHANGED <<comp, pressed, fields, phase, xfer>>
    BY <1>8 DEF PostEnd, usb, hid
  <2>2. Unset' /\ Writers'
    BY <2>1, <1>1 DEF KeysInv, Unset, Writers, Slots
  <2>3. Tells'
    BY <2>1, <1>1, <1>4 DEF KeysInv, Tells
  <2> QED BY <1>2, <1>3, <2>2, <2>3 DEF KeysInv
<1>9. CASE \E k \in Keys : KeyMoves(k)
  <2>1. UNCHANGED <<comp, fields, phase, xfer>> /\ xfer = "report" /\ Slots > 0
    BY <1>9 DEF KeyMoves, hid
  <2>2. phase = 1 /\ Slots' # 0
    BY <2>1, <1>1 DEF KeysInv, Unset, Slots
  <2>3. Unset'
    BY <2>1, <2>2 DEF Unset
  <2>4. Writers'
    BY <2>1, <1>1 DEF KeysInv, Writers
  <2>5. Tells'
    BY <2>1, <1>1, <1>4 DEF KeysInv, Tells
  <2> QED BY <1>2, <1>3, <2>3, <2>4, <2>5 DEF KeysInv
<1> QED BY <1>5, <1>6, <1>7, <1>8, <1>9

\* hid::comp writes the keys of its report, but for the first ones without any.
LEMMA ReportSays ==
  ASSUME Types, KeysInv
  PROVE  /\ ReportWords \in Seq(Words) /\ Without(ReportWords, 2)
         /\ firstt /\ AllZero => Without(ReportWords, 5) /\ ToSet(buf) \cap Keys = {}
         /\ ~(firstt /\ AllZero) => Slots # 0 /\ \A B : Told(ReportWords, B) = ToSet(buf) \cap Keys
<1> DEFINE a == IF fields.x # Absent /\ fields.y # Absent THEN Message(0) ELSE <<>>
           b == IF firstt /\ AllZero THEN <<>> ELSE KeyWords
<1>1. ReportWords = a \o b
  BY DEF ReportWords
<1>2. a \in Seq(Words) /\ Without(a, 2) /\ Without(a, 5)
  BY MessagesQuiet
<1>3. buf \in Seq(Codes)
  BY DEF Types
<1>4. Slots = 0 => firstt /\ AllZero
  BY DEF KeysInv, Unset, AllZero
<1>5. b = IF firstt /\ AllZero THEN <<>> ELSE KeysMessage(buf)
  BY <1>4 DEF KeyWords
<1> HIDE DEF a, b
<1>6. CASE firstt /\ AllZero
  <2>1. b \in Seq(Words) /\ Without(b, 2) /\ Without(b, 5)
    BY <1>5, <1>6, MessagesQuiet
  <2>2. ToSet(buf) \cap Keys = {}
    <3>1. \A k \in 1..Len(buf) : buf[k] = 0
      BY <1>3, <1>6 DEF AllZero, None
    <3>2. 0 \notin Keys
      OBVIOUS
    <3> QED BY <3>1, <3>2 DEF ToSet
  <2>3. a \o b \in Seq(Words) /\ Without(a \o b, 2) /\ Without(a \o b, 5)
    BY <1>2, <2>1, WithoutJoined, Joined
  <2> QED BY <1>1, <1>6, <2>2, <2>3
<1>7. CASE ~(firstt /\ AllZero)
  <2>1. b = KeysMessage(buf)
    BY <1>5, <1>7
  <2>2. b \in Seq(Words) /\ Without(b, 2)
    <3>1. /\ b \in Seq(Words) /\ Len(b) = Len(buf) + 2 /\ b[1] = Word(5, 0, 0)
          /\ b[2] = Word(5, 1, Len(buf)) /\ \A n \in 1..Len(buf) : b[n + 2] = Word(5, n + 1, buf[n])
      BY <1>3, <2>1, KeysMessageFramed
    <3>2. ASSUME NEW k \in 1..Len(b) PROVE b[k].m # 2
      <4>1. CASE k \in {1, 2}
        BY <3>1, <4>1 DEF Word
      <4>2. CASE k > 2
        <5>1. k - 2 \in 1..Len(buf) /\ (k - 2) + 2 = k
          BY <1>3, <3>1, <4>2
        <5>2. b[(k - 2) + 2] = Word(5, (k - 2) + 1, buf[k - 2])
          BY <3>1, <5>1, Zenon
        <5>3. Word(5, (k - 2) + 1, buf[k - 2]).m = 5
          BY DEF Word
        <5> QED BY <5>1, <5>2, <5>3
      <4> QED BY <4>1, <4>2
    <3> QED BY <3>1, <3>2 DEF Without
  <2>3. ASSUME NEW B PROVE Told(a \o b, B) = ToSet(buf) \cap Keys
    <3>1. Told(a \o b, B) = Told(b, Told(a, B))
      BY <1>2, <2>2, ToldJoined
    <3>2. Told(b, Told(a, B)) = ToSet(buf) \cap Keys
      BY <1>3, <2>1, ToldReport
    <3> QED BY <3>1, <3>2
  <2>4. a \o b \in Seq(Words) /\ Without(a \o b, 2)
    BY <1>2, <2>2, WithoutJoined, Joined
  <2> QED BY <1>1, <1>4, <1>7, <2>3, <2>4
<1> QED BY <1>6, <1>7

LEMMA TakesUpKeys ==
  ASSUME Types, KeysInv, NEW t \in Task, HidReport(t) \/ MassReady(t)
  PROVE  KeysInv'
<1>1. /\ UNCHANGED <<kernelbuf, main, pk, bk, down, fields, phase, buf, pressed, cut>>
      /\ ~cut /\ comp = NoTask /\ comp' = t /\ todo[t] = <<>>
  BY DEF HidReport, MassReady, Handles, Going, loop, usb, hid
<1>2. PICK ws \in Seq(Words) :
        /\ Without(ws, 2) /\ todo' = [todo EXCEPT ![t] = ws]
        /\ \/ Without(ws, 5) /\ UNCHANGED <<firstt, xfer>>
           \/ /\ phase = 1 /\ xfer' = "taken" /\ ToSet(buf) \cap Keys = {} /\ Without(ws, 5)
              /\ firstt /\ firstt'
           \/ /\ phase = 1 /\ xfer' = "taken" /\ Slots # 0 /\ ~firstt'
              /\ \A B : Told(ws, B) = ToSet(buf) \cap Keys
  <2>1. CASE MassReady(t)
    <3>1. todo' = [todo EXCEPT ![t] = Message(6)] /\ UNCHANGED <<firstt, xfer>>
      BY <2>1 DEF MassReady, usb, hid
    <3>2. Message(6) \in Seq(Words) /\ Without(Message(6), 2) /\ Without(Message(6), 5)
      BY MessagesQuiet
    <3> QED BY <3>1, <3>2, Zenon
  <2>2. CASE HidReport(t)
    <3>1. /\ todo' = [todo EXCEPT ![t] = ReportWords] /\ xfer' = "taken" /\ phase = 1
          /\ firstt' = (firstt /\ AllZero)
      BY <2>2 DEF HidReport, ReportWords
    <3> HIDE DEF ReportWords
    <3>2. CASE firstt /\ AllZero
      BY <3>1, <3>2, ReportSays
    <3>3. CASE ~(firstt /\ AllZero)
      BY <3>1, <3>3, ReportSays
    <3> QED BY <3>2, <3>3
  <2> QED BY <2>1, <2>2
<1>3. /\ todo \in [Task -> Seq(Words)] /\ todo'[t] = ws
      /\ \A o \in Task : o # t => todo'[o] = todo[o]
  BY <1>2 DEF Types
<1>4. todo[Other] = <<>>
  BY <1>1, KeysTypes DEF KeysInv, Writers
<1>5. Writers'
  <2>1. CASE t = Main
    BY <1>1, <1>3, <1>4, <2>1, KeysTypes, MessagesQuiet DEF Writers
  <2>2. CASE t = Other
    BY <1>1, <1>2, <1>3, <2>2, KeysTypes DEF KeysInv, Writers
  <2> QED BY <2>1, <2>2, KeysTypes
<1>6. Hears'
  <2>1. CASE t = Main
    <3>1. Heard(ws, Heard(kernelbuf, down)) = Heard(kernelbuf, down) \cap Keys
      BY <1>2, HeardNothing
    <3>2. Heard(<<>>, Heard(kernelbuf, down)) = Heard(kernelbuf, down)
      BY HeardKeys, EmptySays
    <3> QED BY <1>1, <1>3, <2>1, <3>1, <3>2, HeardKeys DEF KeysInv, Hears
  <2>2. CASE t = Other
    BY <1>1, <1>3, <2>2, KeysTypes DEF KeysInv, Hears
  <2> QED BY <2>1, <2>2, KeysTypes
<1>7. Known' = Known
  BY <1>1 DEF Known
<1>8. CASE Without(ws, 5)
  <2>1. First'
    <3>1. firstt' => firstt
      BY <1>2
    <3>2. \A o \in Task : Without(todo[o], 5) => Without(todo'[o], 5)
      BY <1>3, <1>8
    <3> QED BY <1>1, <3>1, <3>2 DEF KeysInv, First
  <2>2. ToldAll' = ToldAll
    <3>1. ASSUME NEW B \in SUBSET Keys PROVE Told(ws, B) = Told(todo[t], B)
      <4>1. Told(ws, B) = B \cap Keys
        BY <1>2, <1>8, ToldNothing
      <4> QED BY <1>1, <3>1, <4>1, EmptySays
    <3> DEFINE K == Told(kernelbuf, Known)
               M == Told(todo[Main], K)
    <3>2. K \in SUBSET Keys /\ M \in SUBSET Keys /\ Told(kernelbuf', Known') = K
      BY <1>1, <1>7, ToldKeys
    <3> HIDE DEF K
    <3>3. Told(todo'[Main], K) = M
      BY <1>3, <3>1, <3>2, KeysTypes
    <3> HIDE DEF M
    <3>4. Told(todo'[Other], M) = Told(todo[Other], M)
      BY <1>3, <3>1, <3>2, KeysTypes
    <3> QED BY <3>2, <3>3, <3>4 DEF ToldAll, K, M
  <2>3. Tells'
    <3>1. CASE UNCHANGED <<firstt, xfer>>
      BY <1>1, <2>2, <3>1 DEF KeysInv, Tells
    <3>2. CASE firstt /\ ToSet(buf) \cap Keys = {}
      <4>1. ToldAll = {}
        BY <1>1, <3>2, FirstTold DEF KeysInv
      <4> QED BY <1>1, <2>2, <3>2, <4>1 DEF Tells
    <3>3. CASE \A B : Told(ws, B) = ToSet(buf) \cap Keys
      <4>1. ToldAll' = ToSet(buf) \cap Keys
        <5>1. CASE t = Other
          BY <1>3, <3>3, <5>1 DEF ToldAll
        <5>2. CASE t = Main
          <6>1. todo'[Other] = <<>> /\ todo'[Main] = ws
            BY <1>3, <1>4, <5>2, KeysTypes
          <6>2. ToldAll' = Told(<<>>, ToSet(buf) \cap Keys)
            BY <3>3, <6>1 DEF ToldAll
          <6> QED BY <6>2, EmptySays
        <5> QED BY <5>1, <5>2, KeysTypes
      <4> QED BY <1>1, <4>1 DEF Tells
    <3> QED BY <1>2, <3>1, <3>2, <3>3
  <2>4. Unset'
    <3>1. Slots' = Slots
      BY <1>1 DEF Slots
    <3>2. (firstt => firstt') \/ (phase = 1 /\ Slots # 0)
      BY <1>2
    <3>3. xfer' = xfer \/ phase = 1
      BY <1>2
    <3> QED BY <1>1, <3>1, <3>2, <3>3 DEF KeysInv, Unset
  <2> QED BY <1>5, <1>6, <2>1, <2>3, <2>4 DEF KeysInv
<1>9. CASE ~Without(ws, 5)
  <2>1. /\ phase = 1 /\ xfer' = "taken" /\ Slots # 0 /\ ~firstt'
        /\ \A B : Told(ws, B) = ToSet(buf) \cap Keys
    BY <1>2, <1>9
  <2>2. ToldAll' = ToSet(buf) \cap Keys
    <3>1. CASE t = Other
      BY <1>3, <2>1, <3>1 DEF ToldAll
    <3>2. CASE t = Main
      <4>1. todo'[Other] = <<>> /\ todo'[Main] = ws
        BY <1>3, <1>4, <3>2, KeysTypes
      <4>2. ToldAll' = Told(<<>>, ToSet(buf) \cap Keys)
        BY <2>1, <4>1 DEF ToldAll
      <4> QED BY <4>2, EmptySays
    <3> QED BY <3>1, <3>2, KeysTypes
  <2>3. Tells' /\ First'
    BY <1>1, <2>1, <2>2 DEF Tells, First
  <2>4. Unset'
    BY <1>1, <2>1 DEF Unset, Slots
  <2> QED BY <1>5, <1>6, <2>3, <2>4 DEF KeysInv
<1> QED BY <1>8, <1>9

\* A word that is written is one that is on its way still.
LEMMA WriteKeys ==
  ASSUME Types, KeysInv, NEW t \in Task, Write(t)
  PROVE  KeysInv'
<1> DEFINE w == <<Head(todo[t])>>
           r == Tail(todo[t])
<1>1. /\ UNCHANGED <<main, pk, bk, down, comp, fields, phase, xfer, firstt, buf, pressed>>
      /\ todo[t] # <<>> /\ todo' = [todo EXCEPT ![t] = r] /\ ~cut
      /\ kernelbuf' = kernelbuf \o w
  BY DEF Write, Append_, Going, loop, usb, hid
<1>2. w \in Seq(Words) /\ r \in Seq(Words) /\ todo[t] = w \o r
  <2>1. todo[t] \in Seq(Words)
    BY DEF Types
  <2> DEFINE x == todo[t]
  <2>2. x \in Seq(Words) /\ x # <<>> /\ w = <<Head(x)>> /\ r = Tail(x)
    BY <1>1, <2>1
  <2> HIDE DEF x, w, r
  <2>3. Head(x) \in Words /\ Tail(x) \in Seq(Words) /\ x = <<Head(x)>> \o Tail(x)
    BY <2>2
  <2> QED BY <2>2, <2>3 DEF x
<1> HIDE DEF w, r
<1>3. /\ todo \in [Task -> Seq(Words)] /\ todo'[t] = r
      /\ \A o \in Task : o # t => todo'[o] = todo[o]
      /\ Known' = Known /\ Slots' = Slots
  BY <1>1 DEF Types, Known, Slots
<1>4. \A m : Without(todo[t], m) => Without(w, m) /\ Without(r, m)
  BY <1>2, WithoutJoined
<1>5. Writers'
  <2>1. CASE t = Other
    <3>1. comp = Other /\ Without(r, 2)
      BY <1>1, <1>4, <2>1 DEF KeysInv, Writers
    <3> QED BY <1>1, <1>3, <2>1, <3>1, KeysTypes DEF KeysInv, Writers
  <2>2. CASE t = Main
    BY <1>1, <1>3, <1>4, <2>2, KeysTypes DEF KeysInv, Writers
  <2> QED BY <2>1, <2>2, KeysTypes
<1>6. Unset'
  BY <1>1, <1>3 DEF KeysInv, Unset
<1>7. First'
  <2>1. SUFFICES ASSUME firstt
                 PROVE  /\ Without(kernelbuf', 5) /\ \A o \in Task : Without(todo'[o], 5)
                        /\ main # "keys" /\ bk = {}
    BY <1>1 DEF First
  <2>2. Without(kernelbuf, 5) /\ (\A o \in Task : Without(todo[o], 5)) /\ main # "keys" /\ bk = {}
    BY <1>1, <2>1 DEF KeysInv, First
  <2>3. Without(kernelbuf', 5)
    <3>1. Without(w, 5) /\ kernelbuf \in Seq(Words)
      BY <1>4, <2>2, KeysTypes
    <3>2. Without(kernelbuf \o w, 5)
      BY <1>2, <2>2, <3>1, WithoutJoined
    <3> QED BY <1>1, <3>2
  <2> QED BY <1>3, <1>4, <2>2, <2>3
<1>8. Hears'
  <2>1. Heard(kernelbuf', down) = Heard(w, Heard(kernelbuf, down))
    BY <1>1, <1>2, KeysTypes, HeardJoined
  <2>2. CASE t = Main
    <3>1. Heard(w \o r, Heard(kernelbuf, down)) = Heard(r, Heard(w, Heard(kernelbuf, down)))
      BY <1>2, HeardJoined
    <3> QED BY <1>1, <1>2, <1>3, <2>1, <2>2, <3>1 DEF KeysInv, Hears
  <2>3. CASE t = Other
    <3>1. Without(w, 2)
      BY <1>4, <2>3 DEF KeysInv, Writers
    <3>2. Heard(w, Heard(kernelbuf, down)) = Heard(kernelbuf, down) \cap Keys
      BY <1>2, <3>1, HeardNothing
    <3>3. Heard(kernelbuf', down) = Heard(kernelbuf, down) /\ todo'[Main] = todo[Main]
      BY <2>1, <3>2, <1>3, <2>3, HeardKeys, KeysTypes
    <3> QED BY <1>1, <3>3 DEF KeysInv, Hears
  <2> QED BY <2>2, <2>3, KeysTypes
<1>9. ToldAll' = ToldAll
  <2> DEFINE K == Told(kernelbuf, Known)
  <2>1. Told(kernelbuf', Known) = Told(w, K) /\ K \in SUBSET Keys
    BY <1>1, <1>2, KeysTypes, ToldJoined, ToldKeys
  <2> HIDE DEF K
  <2>2. CASE t = Main
    <3>1. Told(todo[Main], K) = Told(r, Told(w, K))
      <4>1. Told(w \o r, K) = Told(r, Told(w, K))
        BY <1>2, ToldJoined
      <4> QED BY <1>2, <2>2, <4>1
    <3>2. todo'[Main] = r /\ todo'[Other] = todo[Other]
      BY <1>3, <2>2, KeysTypes
    <3> QED BY <1>3, <2>1, <3>1, <3>2 DEF ToldAll, K
  <2>3. CASE t = Other
    <3>1. Without(todo[Main], 5)
      BY <1>1, <2>3, KeysTypes DEF KeysInv, Writers
    <3>2. Told(todo[Main], K) = K
      BY <2>1, <3>1, KeysTypes, ToldNothing
    <3>3. Told(todo[Main], Told(w, K)) = Told(w, K)
      <4>1. Told(todo[Main], Told(w, K)) = Told(w, K) \cap Keys
        BY <3>1, KeysTypes, ToldNothing
      <4> QED BY <4>1, ToldKeys
    <3>4. Told(todo[Other], K) = Told(r, Told(w, K))
      <4>1. Told(w \o r, K) = Told(r, Told(w, K))
        BY <1>2, ToldJoined
      <4> QED BY <1>2, <2>3, <4>1
    <3>5. todo'[Main] = todo[Main] /\ todo'[Other] = r
      BY <1>3, <2>3, KeysTypes
    <3>6. ToldAll' = Told(r, Told(w, K))
      BY <1>3, <2>1, <3>3, <3>5 DEF ToldAll
    <3>7. ToldAll = Told(todo[Other], K)
      BY <3>2 DEF ToldAll, K
    <3> QED BY <3>4, <3>6, <3>7
  <2> QED BY <2>2, <2>3, KeysTypes
<1>10. Tells'
  BY <1>1, <1>9 DEF KeysInv, Tells
<1> QED BY <1>5, <1>6, <1>7, <1>8, <1>10 DEF KeysInv

\* The event loop takes words and does what they say.
LEMMA WordsTaken ==
  ASSUME Types, KeysInv, ~cut, UNCHANGED <<todo, comp, bk, fields, phase, xfer, firstt, buf, pressed>>,
         NEW n \in Nat, n <= Len(kernelbuf), kernelbuf' = SubSeq(kernelbuf, n + 1, Len(kernelbuf)),
         Heard(SubSeq(kernelbuf, 1, n), down) = down',
         Told(SubSeq(kernelbuf, 1, n), Known) = Known' \cap Keys,
         main' = "keys" => main = "keys" \/ ~Without(kernelbuf, 5)
  PROVE  KeysInv'
<1> DEFINE a == SubSeq(kernelbuf, 1, n)
           b == SubSeq(kernelbuf, n + 1, Len(kernelbuf))
<1>1. a \in Seq(Words) /\ b \in Seq(Words) /\ kernelbuf = a \o b
  BY KeysTypes, Split
<1>2. kernelbuf' = b /\ Heard(a, down) = down' /\ Told(a, Known) = Known' \cap Keys
  OBVIOUS
<1> HIDE DEF a, b
<1>3. Writers' /\ Unset'
  BY DEF KeysInv, Writers, Unset, Slots
<1>4. First'
  <2>1. Without(kernelbuf, 5) => Without(kernelbuf', 5)
    BY <1>1, <1>2, WithoutJoined
  <2> QED BY <2>1 DEF KeysInv, First
<1>5. Hears'
  <2>1. Heard(a \o b, down) = Heard(b, Heard(a, down))
    BY <1>1, HeardJoined
  <2>2. Heard(kernelbuf, down) = Heard(kernelbuf', down')
    BY <1>1, <1>2, <2>1
  <2> QED BY <2>2 DEF KeysInv, Hears
<1>6. Tells'
  <2>1. Told(a \o b, Known) = Told(b, Told(a, Known))
    BY <1>1, ToldJoined
  <2>2. Told(b, Known' \cap Keys) = Told(b, Known')
    BY <1>1, ToldOfKeys
  <2>3. Told(kernelbuf, Known) = Told(kernelbuf', Known')
    BY <1>1, <1>2, <2>1, <2>2
  <2> QED BY <2>3 DEF KeysInv, Tells, ToldAll
<1> QED BY <1>3, <1>4, <1>5, <1>6 DEF KeysInv

\* The front of kernelbuf, where a message is.
LEMMA FrontIs ==
  ASSUME Types, NEW ws \in Seq(Words), Len(ws) > 0, Starts(ws)
  PROVE  /\ Len(ws) \in Nat /\ Len(ws) <= Len(kernelbuf)
         /\ SubSeq(kernelbuf, 1, Len(ws)) = ws
<1>1. Len(ws) <= Len(kernelbuf) /\ \A k \in 1..Len(ws) : kernelbuf[k] = ws[k]
  BY KeysTypes, AtFront
<1>2. /\ SubSeq(kernelbuf, 1, Len(ws)) \in Seq(Words) /\ Len(SubSeq(kernelbuf, 1, Len(ws))) = Len(ws)
      /\ \A k \in 1..Len(ws) : SubSeq(kernelbuf, 1, Len(ws))[k] = kernelbuf[k]
  BY <1>1, KeysTypes, Split
<1> QED BY <1>1, <1>2, SeqEqual

LEMMA MessageKeys ==
  ASSUME Types, KeysInv, KernelMessage \/ KernelPost \/ KernelKey
  PROVE  KeysInv'
<1>1. /\ UNCHANGED <<bk, pk, todo, comp, fields, phase, xfer, firstt, buf, pressed>> /\ ~cut
      /\ main = "loop" /\ main' \in {"loop", "post"}
  BY DEF KernelMessage, KernelPost, KernelKey, AtLoop, Going, Taken, loop, usb, hid
<1>2. Known' = Known
  BY <1>1 DEF Known
<1>3. CASE KernelMessage \/ KernelPost
  <2>1. PICK m \in {0, 1, 6, 7, 9} : Starts(Message(m)) /\ Taken(Length[m])
    <3>1. Length[1] = 1
      BY DEF Length
    <3> QED BY <1>3, <3>1 DEF KernelMessage, KernelPost
  <2>2. down' = down
    BY <1>3 DEF KernelMessage, KernelPost, loop
  <2> DEFINE ws == Message(m)
  <2>3. /\ ws \in Seq(Words) /\ Len(ws) = Length[m] /\ Len(ws) > 0
        /\ Without(ws, 2) /\ Without(ws, 5)
    <3>1. Message(m) \in Seq(Words) /\ Len(Message(m)) = Length[m] /\ Length[m] \in 1..5
      BY MessageFramed
    <3>2. Without(Message(m), 2) /\ Without(Message(m), 5)
      BY MessagesQuiet
    <3> HIDE DEF ws
    <3>3. Length[m] > 0
      BY <3>1
    <3> QED BY <3>1, <3>2, <3>3 DEF ws
  <2>4. Starts(ws) /\ kernelbuf' = SubSeq(kernelbuf, Len(ws) + 1, Len(kernelbuf))
    BY <2>1, <2>3 DEF Taken
  <2> HIDE DEF ws
  <2>5. SubSeq(kernelbuf, 1, Len(ws)) = ws /\ Len(ws) \in Nat /\ Len(ws) <= Len(kernelbuf)
    BY <2>3, <2>4, FrontIs
  <2>6. Heard(ws, down) = down /\ Told(ws, Known) = Known \cap Keys
    <3>1. Heard(ws, down) = down \cap Keys /\ Told(ws, Known) = Known \cap Keys
      BY <2>3, HeardNothing, ToldNothing
    <3>2. down \cap Keys = down
      BY KeysTypes
    <3> QED BY <3>1, <3>2
  <2> QED BY <1>1, <1>2, <2>2, <2>4, <2>5, <2>6, WordsTaken
<1>4. CASE KernelKey
  <2> DEFINE v == kernelbuf[2].v
             ws == KeyMessage(v)
  <2>1. /\ Len(kernelbuf) > 1 /\ Starts(ws) /\ Taken(2)
        /\ down' = IF v \in Keys THEN down \cup {v} ELSE down \ {v - 128}
    BY <1>4 DEF KernelKey
  <2>2. v \in Int
    <3>1. kernelbuf \in Seq(Words) /\ 2 \in 1..Len(kernelbuf)
      BY <2>1, KeysTypes
    <3> QED BY <3>1, WordAt
  <2> HIDE DEF v
  <2>3. ws \in Seq(Words) /\ Len(ws) = 2 /\ ws[1] = Word(2, 0, 0) /\ ws[2] = Word(2, 1, v)
    BY <2>2, KeyMessageFramed
  <2>4. Heard(ws, down) = down'
    <3>1. Heard(ws, down) = (IF v \in Keys THEN down \cup {v} ELSE down \ {v - 128}) \cap Keys
      BY <2>2, HeardKey
    <3>2. down' \subseteq Keys
      BY <2>1, KeysTypes
    <3> QED BY <2>1, <3>1, <3>2
  <2> HIDE DEF ws
  <2>5. Without(ws, 5)
    <3>1. ws[1].m = 2 /\ ws[2].m = 2
      BY <2>3 DEF Word
    <3> QED BY <2>3, <3>1 DEF Without
  <2>6. SubSeq(kernelbuf, 1, 2) = ws /\ 2 \in Nat /\ 2 <= Len(kernelbuf)
    <3>1. ws \in Seq(Words) /\ Len(ws) = 2 /\ Len(ws) > 0 /\ Starts(ws)
      BY <2>1, <2>3
    <3>2. SubSeq(kernelbuf, 1, Len(ws)) = ws /\ Len(ws) <= Len(kernelbuf)
      BY <3>1, FrontIs
    <3> QED BY <3>1, <3>2
  <2>7. Told(ws, Known) = Known \cap Keys
    BY <2>3, <2>5, ToldNothing
  <2>8. kernelbuf' = SubSeq(kernelbuf, 2 + 1, Len(kernelbuf))
    BY <2>1 DEF Taken
  <2> QED BY <1>1, <1>2, <2>4, <2>6, <2>7, <2>8, WordsTaken
<1> QED BY <1>3, <1>4

LEMMA BeginsKeys ==
  ASSUME Types, KeysInv, KernelKeys
  PROVE  KeysInv'
<1>1. /\ UNCHANGED <<bk, down, todo, comp, fields, phase, xfer, firstt, buf, pressed>> /\ ~cut
      /\ main' = "keys" /\ pk' = {} /\ Len(kernelbuf) > 1
      /\ kernelbuf[1] = Word(5, 0, 0) /\ kernelbuf[2].m = 5 /\ kernelbuf[2].i = 1
      /\ kernelbuf' = SubSeq(kernelbuf, 2 + 1, Len(kernelbuf))
  BY DEF KernelKeys, AtLoop, Going, Taken, usb, hid
<1> DEFINE a == SubSeq(kernelbuf, 1, 2)
<1>2. 2 \in Nat /\ 2 <= Len(kernelbuf)
  BY <1>1, KeysTypes
<1>3. a \in Seq(Words) /\ Len(a) = 2 /\ a[1] = kernelbuf[1] /\ a[2] = kernelbuf[2]
  BY <1>2, KeysTypes, Split
<1> HIDE DEF a
<1>4. Told(a, Known) = {}
  BY <1>1, <1>3, ToldBegins
<1>5. Heard(a, down) = down
  <2>1. a[1].m = 5 /\ a[2].m = 5
    BY <1>1, <1>3 DEF Word
  <2>2. Without(a, 2)
    BY <1>3, <2>1 DEF Without
  <2>3. Heard(a, down) = down \cap Keys
    BY <1>3, <2>2, HeardNothing
  <2> QED BY <2>3, KeysTypes
<1>6. ~Without(kernelbuf, 5)
  <2>1. 2 \in 1..Len(kernelbuf)
    BY <1>2, KeysTypes
  <2> QED BY <1>1, <2>1 DEF Without
<1>7. Known' \cap Keys = {}
  BY <1>1 DEF Known
<1> QED BY <1>1, <1>2, <1>4, <1>5, <1>6, <1>7, WordsTaken DEF a

LEMMA UsageKeys ==
  ASSUME Types, KeysInv, KernelUsage
  PROVE  KeysInv'
<1> DEFINE w == Head(kernelbuf)
<1>1. /\ UNCHANGED <<main, bk, down, todo, comp, fields, phase, xfer, firstt, buf, pressed>> /\ ~cut
      /\ main = "keys" /\ kernelbuf # <<>> /\ w.m = 5 /\ w.i > 1
      /\ pk' = pk \cup {w.v}
      /\ kernelbuf' = SubSeq(kernelbuf, 1 + 1, Len(kernelbuf))
  BY DEF KernelUsage, Going, Taken, usb, hid
<1>2. /\ 1 \in Nat /\ 1 <= Len(kernelbuf) /\ w \in Words
      /\ SubSeq(kernelbuf, 1, 1) = <<w>>
  <2> DEFINE x == kernelbuf
  <2>1. x \in Seq(Words) /\ x # <<>> /\ w = Head(x)
    BY <1>1, KeysTypes
  <2> HIDE DEF x, w
  <2>2. 1 \in Nat /\ 1 <= Len(x) /\ w \in Words /\ w = x[1]
    BY <2>1
  <2>3. SubSeq(x, 1, 1) \in Seq(Words) /\ Len(SubSeq(x, 1, 1)) = 1 /\ SubSeq(x, 1, 1)[1] = x[1]
    BY <2>1, <2>2, Split
  <2> DEFINE u == SubSeq(x, 1, 1)
             y == <<w>>
  <2>4. u \in Seq(Words) /\ y \in Seq(Words) /\ Len(u) = 1 /\ Len(y) = 1 /\ u[1] = y[1]
    BY <2>2, <2>3
  <2> HIDE DEF u, y
  <2>5. u = y
    BY <2>4, SeqEqual
  <2> QED BY <2>2, <2>5 DEF x, u, y
<1> HIDE DEF w
<1>3. Known = pk /\ Known' = pk \cup {w.v}
  BY <1>1 DEF Known
<1>4. Told(<<w>>, Known) = Known' \cap Keys
  BY <1>1, <1>2, <1>3, ToldUsage
<1>5. Heard(<<w>>, down) = down
  <2> DEFINE a == <<w>>
  <2>1. a \in Seq(Words) /\ Len(a) = 1 /\ a[1].m = 5
    BY <1>1, <1>2
  <2> HIDE DEF a
  <2>2. Without(a, 2)
    BY <2>1 DEF Without
  <2>3. Heard(a, down) = down \cap Keys /\ down \cap Keys = down
    BY <2>1, <2>2, KeysTypes, HeardNothing
  <2> QED BY <2>3 DEF a
<1> QED BY <1>1, <1>2, <1>4, <1>5, WordsTaken

\* The codes of the releases of keys.
Releases(f) == [k \in DOMAIN f |-> f[k] + 128]

\* Every element of S is in s.
Onto(s, S) == \A x \in S : \E k \in 1..Len(s) : s[k] = x

\* Sequences of two sets of usages.
Listed(A, B, press, free) ==
  /\ A \in SUBSET (4..127) /\ B \in SUBSET (4..127)
  /\ press \in Seq(A) /\ free \in Seq(B)
  /\ Onto(press, A) /\ Onto(free, B)

\* vs are the codes of A and of the releases of B.
Coded(A, B, vs) ==
  /\ vs \in Seq(Int)
  /\ \A x \in 4..127 : (x \in ToSet(vs) <=> x \in A) /\ (x + 128 \in ToSet(vs) <=> x \in B)

\* The codes that the event loop takes up when it has read a report.
LEMMA CodesAre ==
  ASSUME NEW A, NEW B, NEW press, NEW free, Listed(A, B, press, free),
         NEW vs, vs = press \o Releases(free)
  PROVE  Coded(A, B, vs)
<1>1. /\ A \in SUBSET (4..127) /\ B \in SUBSET (4..127)
      /\ press \in Seq(A) /\ free \in Seq(B)
      /\ Onto(press, A) /\ Onto(free, B)
  BY DEF Listed
<1> USE <1>1
<1> DEFINE codes == Releases(free)
<1>2. Len(press) \in Nat /\ Len(free) \in Nat
  OBVIOUS
<1>3. ASSUME NEW k \in 1..Len(press) PROVE press[k] \in A /\ press[k] \in 4..127
  <2>1. press[k] \in A
    BY ElementOfSeq
  <2> QED BY <2>1
<1>4. ASSUME NEW k \in 1..Len(free) PROVE free[k] \in B /\ free[k] \in 4..127
  <2>1. free[k] \in B
    BY ElementOfSeq
  <2> QED BY <2>1
<1>5. /\ codes \in Seq(Int) /\ Len(codes) = Len(free)
      /\ \A k \in 1..Len(free) : codes[k] = free[k] + 128
  <2>1. DOMAIN free = 1..Len(free)
    OBVIOUS
  <2>2. ASSUME NEW k \in 1..Len(free) PROVE free[k] + 128 \in Int
    <3>1. \A y \in 4..127 : y + 128 \in Int
      OBVIOUS
    <3>2. free[k] \in 4..127
      BY <1>4
    <3> QED BY <3>1, <3>2, Zenon
  <2> QED BY <1>2, <2>1, <2>2 DEF Releases
<1>6. vs = press \o codes
  OBVIOUS
<1> HIDE DEF codes
<1>7. press \in Seq(Int)
  <2>1. A \subseteq Int
    OBVIOUS
  <2> QED BY <2>1, SeqMonotonic
<1>8. /\ vs \in Seq(Int) /\ Len(vs) = Len(press) + Len(free)
      /\ \A k \in 1..Len(press) : vs[k] = press[k]
      /\ \A k \in 1..Len(free) : vs[k + Len(press)] = free[k] + 128
  <2>1. /\ vs \in Seq(Int) /\ Len(vs) = Len(press) + Len(codes)
        /\ \A k \in 1..Len(press) : vs[k] = press[k]
        /\ \A k \in 1..Len(codes) : vs[k + Len(press)] = codes[k]
    <3> DEFINE a == press
    <3>1. a \in Seq(Int) /\ codes \in Seq(Int) /\ vs = a \o codes
      BY <1>6, <1>5, <1>7
    <3> HIDE DEF a
    <3>2. /\ a \o codes \in Seq(Int) /\ Len(a \o codes) = Len(a) + Len(codes)
          /\ \A k \in 1..Len(a) : (a \o codes)[k] = a[k]
          /\ \A k \in 1..Len(codes) : (a \o codes)[k + Len(a)] = codes[k]
      BY <3>1
    <3> QED BY <3>1, <3>2 DEF a
  <2> QED BY <1>5, <2>1
<1>9. ASSUME NEW y \in ToSet(vs)
      PROVE  (\E x \in A : y = x) \/ (\E x \in B : y = x + 128)
  <2>1. PICK k \in 1..Len(vs) : vs[k] = y
    <3>1. DOMAIN vs = 1..Len(vs)
      BY <1>8
    <3> QED BY <1>9, <3>1 DEF ToSet
  <2>2. CASE k <= Len(press)
    <3>1. k \in 1..Len(press)
      BY <1>2, <2>2
    <3>2. vs[k] = press[k] /\ press[k] \in A
      BY <1>3, <1>8, <3>1
    <3> QED BY <2>1, <3>2
  <2>3. CASE k > Len(press)
    <3>1. k - Len(press) \in 1..Len(free) /\ (k - Len(press)) + Len(press) = k
      BY <1>2, <1>8, <2>3
    <3>2. vs[(k - Len(press)) + Len(press)] = free[k - Len(press)] + 128 /\ free[k - Len(press)] \in B
      BY <1>4, <1>8, <3>1
    <3> QED BY <2>1, <3>1, <3>2
  <2> QED BY <1>2, <1>8, <2>1, <2>2, <2>3
<1>10. ASSUME NEW x \in 4..127
       PROVE  (x \in ToSet(vs) <=> x \in A) /\ (x + 128 \in ToSet(vs) <=> x \in B)
  <2>1. x \in 4..127 /\ (\A z \in A : z \in 4..127) /\ (\A z \in B : z \in 4..127)
    OBVIOUS
  <2>2. x \in ToSet(vs) => x \in A
    <3>1. x \in ToSet(vs) => x \in A \/ \E z \in B : x = z + 128
      BY <1>9, SMTT(20)
    <3>2. ASSUME NEW z \in B PROVE x # z + 128
      BY <2>1
    <3> QED BY <3>1, <3>2, Zenon
  <2>3. x + 128 \in ToSet(vs) => x \in B
    <3>1. x + 128 \in ToSet(vs) => x + 128 \in A \/ \E z \in B : x + 128 = z + 128
      BY <1>9, SMTT(20)
    <3>2. ASSUME NEW z \in B, x + 128 = z + 128 PROVE x = z
      BY <2>1, <3>2
    <3>3. x + 128 \notin A
      BY <2>1
    <3> QED BY <3>1, <3>2, <3>3, Zenon
  <2>4. x \in A => x \in ToSet(vs)
    <3>1. SUFFICES ASSUME x \in A PROVE x \in ToSet(vs)
      OBVIOUS
    <3>2. PICK k \in 1..Len(press) : press[k] = x
      BY <3>1 DEF Onto
    <3>3. k \in DOMAIN vs /\ vs[k] = x
      BY <1>2, <1>8, <3>2
    <3> QED BY <3>3 DEF ToSet
  <2>5. x \in B => x + 128 \in ToSet(vs)
    <3>1. SUFFICES ASSUME x \in B PROVE x + 128 \in ToSet(vs)
      OBVIOUS
    <3>2. PICK k \in 1..Len(free) : free[k] = x
      BY <3>1 DEF Onto
    <3>3. k + Len(press) \in 1..Len(vs) /\ DOMAIN vs = 1..Len(vs)
      BY <1>2, <1>8
    <3>4. vs[k + Len(press)] = free[k] + 128
      BY <1>8, Zenon
    <3>5. vs[k + Len(press)] = x + 128
      BY <3>2, <3>4, Zenon
    <3> QED BY <3>3, <3>5 DEF ToSet
  <2> QED BY <2>2, <2>3, <2>4, <2>5
<1> QED BY <1>8, <1>10 DEF Coded

\* The codes of the keys of A, and then of the releases of those of B.
Both(A, B) == SetToSeq(A) \o Releases(SetToSeq(B))

LEMMA BothAre ==
  ASSUME NEW A \in SUBSET Keys, NEW B \in SUBSET Keys
  PROVE  /\ Both(A, B) \in Seq(Int)
         /\ \A x \in Keys : /\ x \in ToSet(Both(A, B)) <=> x \in A
                            /\ x + 128 \in ToSet(Both(A, B)) <=> x \in B
<1> DEFINE press == SetToSeq(A)
           free == SetToSeq(B)
           vs == Both(A, B)
<1>1. Keys \subseteq 4..127
  BY KeysFinite
<1>2. A \in SUBSET (4..127)
  BY <1>1
<1>3. B \in SUBSET (4..127)
  BY <1>1
<1>4. press \in Seq(A)
  BY KeysFinite, SetSequence, Zenon
<1>5. free \in Seq(B)
  BY KeysFinite, SetSequence, Zenon
<1>6. Onto(press, A)
  BY KeysFinite, SetSequence, Zenon DEF Onto
<1>7. Onto(free, B)
  BY KeysFinite, SetSequence, Zenon DEF Onto
<1>8. vs = press \o Releases(free)
  BY Zenon DEF Both
<1> HIDE DEF press, free, vs
<1>9. Listed(A, B, press, free)
  BY <1>2, <1>3, <1>4, <1>5, <1>6, <1>7, Zenon DEF Listed
<1>10. Coded(A, B, vs)
  BY <1>8, <1>9, CodesAre, Zenon
<1> QED BY <1>1, <1>10 DEF vs, Coded

\* The event loop has read a report, and takes up the keys that are new and the releases.
LEMMA CodesKeys ==
  ASSUME Types, Frames, KeysInv, KernelCodes
  PROVE  KeysInv'
<1> DEFINE A == (pk \ bk) \cap Keys
           B == (bk \ pk) \cap Keys
           free == SetToSeq(B)
           vs == SetToSeq(A) \o [k \in DOMAIN free |-> free[k] + 128]
           ws == KeyMessages(vs)
           H == Heard(kernelbuf, down)
<1>1. /\ UNCHANGED <<kernelbuf, down, comp, fields, phase, xfer, firstt, buf, pressed>> /\ ~cut
      /\ todo' = [todo EXCEPT ![Main] = ws] /\ bk' = pk /\ main' = "loop" /\ main = "keys"
  BY DEF KernelCodes, KeysDone, Going, usb, hid
<1>2. /\ vs \in Seq(Int)
      /\ \A x \in Keys : (x \in ToSet(vs) <=> x \in A) /\ (x + 128 \in ToSet(vs) <=> x \in B)
  <2>1. vs = Both(A, B)
    BY DEF Both, Releases
  <2>2. A \in SUBSET Keys /\ B \in SUBSET Keys
    OBVIOUS
  <2> HIDE DEF A, B, vs
  <2> QED BY <2>1, <2>2, BothAre, Zenon
<1> HIDE DEF vs
<1>3. /\ ws \in Seq(Words) /\ Without(ws, 5)
      /\ Heard(ws, H) = {x \in Keys : x \in ToSet(vs) \/ (x \in H /\ x + 128 \notin ToSet(vs))}
  <2>1. /\ ws \in Seq(Words) /\ Len(ws) = 2 * Len(vs) /\ Len(vs) \in Nat
        /\ \A n \in 1..Len(vs) : ws[2 * n - 1] = Word(2, 0, 0) /\ ws[2 * n] = Word(2, 1, vs[n])
    <3>1. vs \in Seq(Int)
      BY <1>2
    <3>2. Len(vs) \in Nat
      BY <3>1
    <3> QED BY <3>1, <3>2, KeyMessagesFramed, ZenonT(30)
  <2>2. Heard(ws, H) = {x \in Keys : x \in ToSet(vs) \/ (x \in H /\ x + 128 \notin ToSet(vs))}
    <3>1. \A x \in Keys : ~(x \in ToSet(vs) /\ x + 128 \in ToSet(vs))
      BY <1>2
    <3> HIDE DEF H
    <3> QED BY <1>2, <3>1, HeardCodes
  <2> HIDE DEF ws
  <2>3. ASSUME NEW k \in 1..Len(ws) PROVE ws[k].m # 5
    <3>1. PICK n \in 1..Len(vs) : k = 2 * n - 1 \/ k = 2 * n
      BY <2>1, Pairs
    <3>2. ws[2 * n - 1] = Word(2, 0, 0) /\ ws[2 * n] = Word(2, 1, vs[n])
      BY <2>1, Zenon
    <3>3. Word(2, 0, 0).m = 2 /\ Word(2, 1, vs[n]).m = 2
      BY DEF Word
    <3>4. ws[k].m = 2
      BY <3>1, <3>2, <3>3, Zenon
    <3> QED BY <3>4
  <2>4. Without(ws, 5)
    BY <2>3 DEF Without
  <2> QED BY <2>1, <2>2, <2>4, Zenon
<1> HIDE DEF ws
<1>4. /\ todo[Main] = <<>> /\ todo'[Main] = ws /\ todo'[Other] = todo[Other]
      /\ \A t \in Task : t = Main \/ t = Other
  <2>1. todo \in [Task -> Seq(Words)]
    BY DEF Types
  <2> QED BY <1>1, <2>1, KeysTypes DEF Frames
<1>5. H = bk \cap Keys
  BY <1>1, <1>4, HeardKeys, EmptySays DEF KeysInv, Hears
<1>6. Hears'
  <2>1. ASSUME NEW x \in Keys
        PROVE  x \in ToSet(vs) \/ (x \in H /\ x + 128 \notin ToSet(vs)) <=> x \in pk
    <3>1. /\ x \in ToSet(vs) <=> x \in pk /\ x \notin bk
          /\ x + 128 \in ToSet(vs) <=> x \in bk /\ x \notin pk
          /\ x \in H <=> x \in bk
      BY <1>2, <1>5
    <3> QED BY <3>1
  <2>2. Heard(ws, H) = pk \cap Keys
    BY <1>3, <2>1
  <2> QED BY <1>1, <1>4, <2>2 DEF Hears
<1>7. ToldAll' = ToldAll
  <2> DEFINE K == Told(kernelbuf, Known)
  <2>1. Known' = Known
    BY <1>1 DEF Known
  <2>2. K \in SUBSET Keys /\ Told(kernelbuf', Known') = K
    BY <1>1, <2>1, ToldKeys
  <2> HIDE DEF K
  <2>3. Told(ws, K) = K /\ Told(<<>>, K) = K
    BY <1>3, <2>2, ToldNothing, EmptySays
  <2> QED BY <1>4, <2>2, <2>3 DEF ToldAll, K
<1>8. Tells'
  BY <1>1, <1>7 DEF KeysInv, Tells
<1>9. Writers' /\ Unset'
  BY <1>1, <1>3, <1>4 DEF KeysInv, Writers, Unset, Slots
<1>10. First'
  BY <1>1 DEF KeysInv, First
<1> QED BY <1>6, <1>8, <1>9, <1>10 DEF KeysInv

LEMMA InitKeys == Init => KeysInv
<1> SUFFICES ASSUME Init PROVE KeysInv
  OBVIOUS
<1>1. Types
  BY InitInv DEF IInv
<1>2. /\ kernelbuf = <<>> /\ todo[Main] = <<>> /\ todo[Other] = <<>> /\ down = {} /\ bk = {}
      /\ main = "loop" /\ firstt /\ pressed = {} /\ buf = <<>> /\ xfer \in {"none", "control"}
  BY KeysTypes, <1>1 DEF Init
<1>3. \A m : Without(<<>>, m)
  BY DEF Without
<1>4. Writers /\ Unset
  BY <1>2, <1>3 DEF Writers, Unset
<1>5. First
  BY <1>2, <1>3, <1>1, KeysTypes DEF First
<1>6. Hears
  <2>1. Heard(<<>>, {}) = {}
    BY EmptySays
  <2> QED BY <1>2, <2>1 DEF Hears
<1>7. Tells
  BY <1>2 DEF Tells
<1> QED BY <1>4, <1>5, <1>6, <1>7 DEF KeysInv

LEMMA StepKeys == Types /\ Frames /\ KeysInv /\ [Next]_vars => KeysInv'
<1> SUFFICES ASSUME Types, Frames, KeysInv, [Next]_vars PROVE KeysInv'
  OBVIOUS
<1>1. CASE \/ KeyHandle \/ RtcHandle \/ Refresh \/ MouseAck \/ MousePacket \/ MouseLoses
  BY <1>1, InterruptsKeys
<1>2. CASE ControlEnds \/ ReportEnds \/ TransferFails
  BY <1>2, EndsKeys
<1>3. CASE (\E k \in Keys : KeyMoves(k)) \/ PostEnd
  BY <1>3, DriverKeys, KeysTypes
<1>4. ASSUME NEW t \in Task, HidInit(t) \/ HidFails(t) \/ CompEnd(t) PROVE KeysInv'
  BY <1>4, DriverKeys
<1>5. ASSUME NEW t \in Task, HidReport(t) \/ MassReady(t) PROVE KeysInv'
  BY <1>5, TakesUpKeys
<1>6. ASSUME NEW t \in Task, Write(t) PROVE KeysInv'
  BY <1>6, WriteKeys
<1>7. CASE KernelMessage \/ KernelPost \/ KernelKey
  BY <1>7, MessageKeys
<1>8. CASE KernelKeys
  BY <1>8, BeginsKeys
<1>9. CASE KernelUsage
  BY <1>9, UsageKeys
<1>10. CASE KernelCodes
  BY <1>10, CodesKeys
<1>11. CASE UNCHANGED vars
  <2>1. UNCHANGED <<kernelbuf, main, pk, bk, down, todo, comp, fields, phase, xfer, firstt, buf,
                    pressed, cut>>
    BY <1>11 DEF vars, loop, usb, hid
  <2> QED BY <2>1 DEF KeysInv, Writers, Unset, First, Hears, Tells, ToldAll, Known, Slots
<1> QED BY <1>1, <1>2, <1>3, <1>4, <1>5, <1>6, <1>7, <1>8, <1>9, <1>10, <1>11 DEF Next

\* What the focus holds to be down is what is down on the keyboard, once its
\* report has gone through comp(), the q==5 branch and back through kernelbuf,
\* whatever came in between (hid.cpp:286, kernel.cpp:470-543): no key sticks and
\* none is lost.
THEOREM KeysAlwaysFollow == Spec => []KeysFollow
<1>1. IInv /\ KeysInv => KeysFollow
  <2> SUFFICES ASSUME Types, KeysInv, kernelbuf = <<>>, main = "loop", comp = NoTask, xfer = "report",
                      ~cut, todo[Main] = <<>>
               PROVE  down = ToSet(buf) \cap Keys
    BY DEF IInv, KeysFollow
  <2>1. todo[Other] = <<>>
    BY KeysTypes DEF KeysInv, Writers
  <2>2. down = bk \cap Keys
    BY KeysTypes, EmptySays DEF KeysInv, Hears
  <2>3. Told(<<>>, bk) = bk \cap Keys
    BY EmptySays, MessagesQuiet, ToldNothing
  <2>4. ToldAll = bk \cap Keys
    <3>1. bk \cap Keys \in SUBSET Keys
      OBVIOUS
    <3>2. Told(<<>>, bk \cap Keys) = bk \cap Keys
      BY <3>1, EmptySays
    <3> QED BY <2>1, <2>3, <3>2 DEF ToldAll, Known
  <2> QED BY <2>2, <2>4 DEF KeysInv, Tells
<1>2. Init => IInv /\ KeysInv
  BY InitInv, InitKeys
<1>3. IInv /\ KeysInv /\ [Next]_vars => (IInv /\ KeysInv)'
  BY StepInv, StepKeys DEF IInv
<1> QED BY <1>1, <1>2, <1>3, PTL DEF Spec
===============================================================================
