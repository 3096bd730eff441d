------------------------- MODULE PacketReader_proofs -------------------------
(***************************************************************************)
(* The packet reader, proved for every packet size and sync offset, every  *)
(* number of packets and bound of the resync, every set of sound packets   *)
(* and every file, whatever its other bytes look like: a long corruption   *)
(* is reported.  And of every clear file: the sound packets are handed on  *)
(* once each and in order.                                                 *)
(*                                                                         *)
(* The invariant of a clear file says where the reader is: at a packet     *)
(* boundary (Passed), behind the packets it has handed on, with nothing    *)
(* put back but the bytes the probe just read.  That of any file says how  *)
(* far behind the last packet it is (GapFits), on the grid or not.  What a *)
(* buffer holds is the positions of its bytes in the file, so each step is *)
(* a fact about segments of the file.                                      *)
(***************************************************************************)
EXTENDS PacketReader, Functions, SequenceTheorems, WellFoundedInduction, TLAPS

(* The parameters of these theorems: open() meets no corruption.           *)
Clean == LayoutAssumption /\ FileAssumption /\ CorruptHeader = FALSE

(* Induction: a set of numbers that is not empty has a least element.      *)
LEMMA LeastElement ==
    ASSUME NEW S, S \subseteq Nat, S # {}
    PROVE  \E x \in S : \A y \in S : x <= y
<1>1. PICK x \in S : \A y \in S : <<y, x>> \notin OpToRel(<, Nat)
    BY NatLessThanWellFounded, WFMin, Zenon
<1>2. ASSUME NEW y \in S PROVE <<y, x>> \in Nat \X Nat
    OBVIOUS
<1>3. ASSUME NEW y \in S PROVE ~ (y < x)
    BY <1>1, <1>2, Zenon DEF OpToRel
<1>4. ASSUME NEW y \in S PROVE x <= y
    BY <1>3
<1> QED BY <1>4

(* The sizes are numbers, and the probe ends at the sync byte.             *)
LEMMA Sizes ==
    ASSUME Clean
    PROVE  /\ PSize \in Nat /\ PSize > 1 /\ ProbeLen \in Nat /\ ProbeLen >= 1 /\ ProbeLen < PSize
           /\ SyncOffset \in Nat /\ ProbeLen = SyncOffset + 1
           /\ ResyncLimit \in Nat /\ ResyncLimit > 0 /\ Packets \in Nat
    BY DEF Clean, LayoutAssumption, FileAssumption, ProbeLen

(* Packet boundaries lie a packet apart.                                   *)
LEMMA Multiples ==
    ASSUME Clean, NEW i \in Nat
    PROVE  /\ i * PSize \in Nat
           /\ (i + 1) * PSize = (i * PSize) + PSize
           /\ \A j \in Nat : i < j => (i * PSize) + PSize <= j * PSize
<1>1. PSize \in Nat /\ PSize > 1
    BY Sizes
<1>2. ASSUME NEW j \in Nat, i < j PROVE (i * PSize) + PSize <= j * PSize
    <2>1. (j - i) * PSize >= PSize
        BY <1>1, <1>2
    <2>2. j * PSize = (i * PSize) + ((j - i) * PSize) /\ i * PSize \in Nat
              /\ (j - i) * PSize \in Nat
        BY <1>1, <1>2
    <2> QED BY <1>1, <2>1, <2>2
<1> QED BY <1>1, <1>2

(* The position of the sync byte of packet n + 1. *)
SyncAt(n) == (n * PSize) + SyncOffset + 1

(* The probe at a packet boundary ends at the sync byte.                   *)
LEMMA SyncAtEnds ==
    ASSUME Clean, NEW n \in Nat
    PROVE  SyncAt(n) = (n * PSize) + ProbeLen /\ SyncAt(n) \in Nat
<1>1. n * PSize \in Nat /\ SyncOffset \in Nat /\ ProbeLen = SyncOffset + 1
    BY Sizes
<1> DEFINE p == n * PSize
<1>2. p \in Nat /\ SyncAt(n) = p + SyncOffset + 1
    BY <1>1 DEF SyncAt
<1> HIDE DEF p
<1>3. SyncAt(n) = p + ProbeLen /\ SyncAt(n) \in Nat
    BY <1>1, <1>2
<1> QED BY <1>3 DEF p

(* Every file: whole packets and a tail, and a sync byte in each sound     *)
(* packet, the one that was cut off included.                              *)
FileShape ==
    /\ sound \subseteq 1 .. Packets
    /\ file \in Seq(BOOLEAN)
    /\ \E tail \in 0 .. PSize - 1 : Len(file) = (Packets * PSize) + tail
    /\ \A n \in 0 .. Packets - 1 : n + 1 \in sound => file[SyncAt(n)]
    /\ SyncAt(Packets) <= Len(file) => file[SyncAt(Packets)]

(* A clear file: in the place of each sync byte is the truth about its     *)
(* packet.                                                                 *)
FileOK ==
    /\ sound \subseteq 1 .. Packets /\ \A k \in sound : ~Lone(k)
    /\ file \in Seq(BOOLEAN)
    /\ \E tail \in 0 .. PSize - 1 : Len(file) = (Packets * PSize) + tail
    /\ \A n \in 0 .. Packets - 1 : file[SyncAt(n)] <=> n + 1 \in sound
    /\ SyncAt(Packets) <= Len(file) => file[SyncAt(Packets)]

(* The lesser of two numbers.                                              *)
AtMost(a, b) == IF a < b THEN a ELSE b

(* The n bytes of the file behind position p.                              *)
Bytes(p, n) == [j \in 1 .. n |-> p + j]

(* The reader has read all of the file.                                    *)
AtEnd == cursor = Len(file) /\ putback = <<>> /\ pc = "ready"

(* The reader is behind n packets: at the boundary, or past the tail.      *)
(* While it resynchronises the last of them was corrupted.                 *)
Passed(n) ==
    /\ n \in 0 .. Packets
    /\ Position = n * PSize \/ (n = Packets /\ AtEnd)
    /\ pc = "resync" => n \in (1 .. Packets) \ sound /\ putback = <<>>

(* Nothing is put back, or the bytes of one probe.                         *)
PutbackOK ==
    \/ putback = <<>>
    \/ pc = "ready" /\ putback = Bytes(Position, ProbeLen)

(* The calls returned sound packets, whole, and errors.                    *)
LogOK == log \in Seq({Err} \cup {PacketAt(k) : k \in sound})

(* The counters and flags have their types.                                *)
TypesOK ==
    /\ cursor \in 0 .. Len(file)
    /\ bytesRead \in Nat
    /\ pc \in {"ready", "resync"} /\ tries \in 0 .. ResyncLimit
    /\ opened \in BOOLEAN /\ eof \in BOOLEAN

(* No packet the reader has read into is corrupted.                        *)
AllSoundBehind ==
    \A k \in 1 .. Packets : (k - 1) * PSize < Position => k \in sound

(* Until open() returns, the demuxer's count of bytes is where it reads,   *)
(* if it only met sound packets.                                           *)
Counted ==
    ~opened /\ AllSoundBehind =>
        putback = <<>> /\ bytesRead = AtMost(Position, Packets * PSize)

(* Between the last packet returned and the place of the reader lie the    *)
(* rejected tries of the current resync and nothing else.                  *)
Gap ==
    log # <<>> /\ log[Len(log)] # Err =>
        \/ Position = log[Len(log)][PSize]
                          + (IF pc = "resync" THEN (1 + tries) * PSize ELSE 0)
        \/ AtEnd /\ \E k \in 1 .. Packets : k \notin sound

(* The count of bytes is never ahead of the reader.                        *)
NotAhead == bytesRead <= AtMost(Position, Packets * PSize)

(* No more than the limit of packets is passed over without an error.      *)
GapsOnGrid ==
    \A i \in 1 .. Len(log) - 1 :
        log[i] # Err /\ log[i + 1] # Err =>
            log[i + 1][1] - log[i][PSize] - 1 <= ResyncLimit * PSize

(* The inductive invariant of a clear file.                                *)
ReaderInvariant ==
    /\ FileOK /\ TypesOK /\ LogOK /\ PutbackOK /\ Counted /\ NotAhead /\ Gap
    /\ \E n \in 0 .. Packets : Passed(n)
    /\ GapsOnGrid

(* Packets fit in the file, and no more than them.                         *)
LEMMA ShapeLength ==
    ASSUME Clean, FileShape
    PROVE  /\ Len(file) \in Nat
           /\ Packets * PSize <= Len(file) /\ Len(file) < (Packets * PSize) + PSize
           /\ \A n \in Nat : (n * PSize) + PSize <= Len(file) <=> n < Packets
<1>1. PICK tail \in 0 .. PSize - 1 : Len(file) = (Packets * PSize) + tail
    BY DEF FileShape
<1>2. PSize \in Nat /\ PSize > 1 /\ Packets \in Nat /\ Packets * PSize \in Nat
    BY Sizes
<1>3. ASSUME NEW n \in Nat PROVE (n * PSize) + PSize <= Len(file) <=> n < Packets
    <2>1. n * PSize \in Nat
        BY <1>2
    <2>2. n < Packets => (n * PSize) + PSize <= Packets * PSize
        BY <1>2, Multiples
    <2>3. Packets < n => (Packets * PSize) + PSize <= n * PSize
        BY <1>2, Multiples
    <2> QED BY <1>1, <1>2, <2>1, <2>2, <2>3
<1> QED BY <1>1, <1>2, <1>3

(* A clear file has its shape.                                             *)
LEMMA ClearFileOK ==
    ASSUME Clean, FileShape, Clear
    PROVE  FileOK
<1>1. ASSUME NEW n \in 0 .. Packets - 1, file[SyncAt(n)] PROVE n + 1 \in sound
    <2>1. n + 1 \in 1 .. Packets /\ (n + 1) - 1 = n
        BY Sizes
    <2>2. SyncPosition(n + 1) = SyncAt(n)
        BY <2>1 DEF SyncPosition, SyncAt
    <2> QED BY <1>1, <2>1, <2>2 DEF Clear
<1> QED BY <1>1 DEF FileOK, FileShape, Clear

(* Packets fit in a clear file, and no more than them.                     *)
LEMMA FileLength ==
    ASSUME Clean, FileOK
    PROVE  /\ Len(file) \in Nat
           /\ Packets * PSize <= Len(file) /\ Len(file) < (Packets * PSize) + PSize
           /\ \A n \in Nat : (n * PSize) + PSize <= Len(file) <=> n < Packets
<1>1. FileShape
    BY DEF FileOK, FileShape
<1> QED BY <1>1, ShapeLength

(* The files of the model have that shape.                                 *)
LEMMA InitialShape ==
    ASSUME Clean, Init
    PROVE  FileShape
<1>1. sound \in SUBSET (1 .. Packets)
    BY DEF Init
<1>2. PICK tail \in {0, 1, PSize - 1} : \E c : file = FileOf(sound, tail, c)
    BY DEF Init, Files
<1>c. PICK c : file = FileOf(sound, tail, c)
    BY <1>2
<1> DEFINE N == Packets * PSize + tail
           Syncs == {SyncPosition(k) : k \in sound \cup {Packets + 1}}
<1>3. /\ PSize \in Nat /\ PSize > 1 /\ SyncOffset \in Nat /\ SyncOffset + 1 < PSize
      /\ Packets \in Nat /\ Packets * PSize \in Nat /\ tail \in 0 .. PSize - 1 /\ N \in Nat
    BY Sizes
<1>4. file \in [1 .. N -> BOOLEAN] /\ file \in Seq(BOOLEAN) /\ Len(file) = N
    <2> DEFINE B(i) == i \in c \/ i \in Syncs
    <2>1. file = [i \in 1 .. N |-> B(i)]
        BY <1>c, Zenon DEF FileOf
    <2>2. \A i \in 1 .. N : B(i) \in BOOLEAN
        BY Zenon
    <2>3. file \in [1 .. N -> BOOLEAN]
        BY <2>1, <2>2, Zenon
    <2> QED BY <2>3, <1>3
<1>5. ASSUME NEW i \in 1 .. N, i \in Syncs PROVE file[i]
    BY <1>c, <1>5 DEF FileOf
<1>6. ASSUME NEW n \in 0 .. Packets - 1, n + 1 \in sound PROVE file[SyncAt(n)]
    <2>1. n * PSize \in Nat /\ (n * PSize) + PSize <= Packets * PSize
        BY <1>3, Multiples
    <2>2. SyncAt(n) \in 1 .. N
        BY <2>1, <1>3 DEF SyncAt
    <2>3. (n + 1) - 1 = n
        BY <1>3
    <2>4. SyncPosition(n + 1) = SyncAt(n)
        BY <2>3 DEF SyncPosition, SyncAt
    <2> QED BY <2>2, <2>4, <1>5, <1>6
<1>7. ASSUME SyncAt(Packets) <= N PROVE file[SyncAt(Packets)]
    <2>1. SyncAt(Packets) \in 1 .. N
        BY <1>3, <1>7 DEF SyncAt
    <2>2. (Packets + 1) - 1 = Packets
        BY <1>3
    <2>3. SyncPosition(Packets + 1) = SyncAt(Packets)
        BY <2>2 DEF SyncPosition, SyncAt
    <2> QED BY <2>1, <2>3, <1>5
<1> QED BY <1>1, <1>3, <1>4, <1>6, <1>7 DEF FileShape

(* What is at the sync position of a packet of a clear file says whether   *)
(* it is sound.                                                            *)
LEMMA InitialFile ==
    ASSUME Clean, Init, Clear
    PROVE  FileOK
    BY InitialShape, ClearFileOK

------------------------------------------------------------------------------
(* The buffers.                                                            *)

(* A segment of the file is a sequence of positions.                       *)
LEMMA BytesProperties ==
    ASSUME NEW p \in Nat, NEW n \in Nat
    PROVE  /\ Bytes(p, n) \in Seq(Nat) /\ Len(Bytes(p, n)) = n
           /\ \A j \in 1 .. n : Bytes(p, n)[j] = p + j
           /\ Bytes(p, n) = <<>> <=> n = 0
<1>1. Bytes(p, n) \in [1 .. n -> Nat]
    BY DEF Bytes
<1>2. Bytes(p, n) \in Seq(Nat) /\ Len(Bytes(p, n)) = n
    BY <1>1
<1> QED BY <1>2 DEF Bytes

(* Segments that meet are one segment.                                     *)
LEMMA BytesConcat ==
    ASSUME NEW p \in Nat, NEW m \in Nat, NEW n \in Nat
    PROVE  Bytes(p, m) \o Bytes(p + m, n) = Bytes(p, m + n)
<1> DEFINE a == Bytes(p, m)  b == Bytes(p + m, n)  c == Bytes(p, m + n)
<1>1. /\ a \in Seq(Nat) /\ Len(a) = m /\ b \in Seq(Nat) /\ Len(b) = n
      /\ c \in Seq(Nat) /\ Len(c) = m + n
      /\ \A j \in 1 .. m : a[j] = p + j
      /\ \A j \in 1 .. n : b[j] = p + m + j
      /\ \A j \in 1 .. m + n : c[j] = p + j
    <2>1. p + m \in Nat /\ m + n \in Nat
        OBVIOUS
    <2> QED BY <2>1, BytesProperties
<1> HIDE DEF a, b, c
<1>2. /\ a \o b \in Seq(Nat) /\ Len(a \o b) = m + n
      /\ \A i \in 1 .. m + n : (a \o b)[i] = IF i <= m THEN a[i] ELSE b[i - m]
    BY <1>1, ConcatProperties, ZenonT(30)
<1>3. ASSUME NEW i \in 1 .. m + n PROVE (a \o b)[i] = c[i]
    <2>1. CASE i <= m
        BY <2>1, <1>1, <1>2
    <2>2. CASE i > m
        <3>1. i - m \in 1 .. n /\ p + m + (i - m) = p + i
            BY <2>2
        <3> QED BY <2>2, <3>1, <1>1, <1>2, SMTT(30)
    <2>3. i <= m \/ i > m
        OBVIOUS
    <2> QED BY <2>1, <2>2, <2>3, Zenon
<1>4. a \o b = c
    BY <1>1, <1>2, <1>3, SeqEqual
<1> QED BY <1>4 DEF a, b, c

(* A segment less its first m bytes is a segment.                          *)
LEMMA BytesTail ==
    ASSUME NEW p \in Nat, NEW m \in Nat, NEW n \in Nat
    PROVE  SubSeq(Bytes(p, m + n), m + 1, m + n) = Bytes(p + m, n)
<1> DEFINE b == Bytes(p, m + n)  t == SubSeq(b, m + 1, m + n)  c == Bytes(p + m, n)
<1>1. /\ b \in Seq(Nat) /\ Len(b) = m + n /\ \A j \in 1 .. m + n : b[j] = p + j
      /\ c \in Seq(Nat) /\ Len(c) = n /\ \A j \in 1 .. n : c[j] = p + m + j
    <2>1. p + m \in Nat /\ m + n \in Nat
        OBVIOUS
    <2> QED BY <2>1, BytesProperties
<1> HIDE DEF b, c
<1>2. \A i \in m + 1 .. m + n : b[i] \in Nat
    BY <1>1
<1>3. /\ t \in Seq(Nat) /\ Len(t) = n
      /\ \A i \in 1 .. n : t[i] = b[m + 1 + i - 1]
    BY <1>2, SubSeqProperties
<1> HIDE DEF t
<1>4. \A i \in 1 .. n : t[i] = c[i]
    BY <1>1, <1>3
<1>5. t = c
    BY <1>1, <1>3, <1>4, SeqEqual
<1> QED BY <1>5 DEF b, c, t

(* The reader is inside the file, the put-back bytes included.             *)
LEMMA PositionRange ==
    ASSUME Clean, FileOK, TypesOK, PutbackOK, NEW n, Passed(n)
    PROVE  /\ Position \in 0 .. Len(file)
           /\ cursor = Position + Len(putback)
           /\ putback = Bytes(Position, Len(putback))
           /\ Len(putback) \in {0, ProbeLen}
<1>1. Len(file) \in Nat /\ ProbeLen \in Nat /\ cursor \in 0 .. Len(file) /\ n \in Nat
    BY FileLength, Sizes DEF TypesOK, Passed
<1>2. n * PSize \in Nat
    BY <1>1, Sizes
<1>3. CASE putback = <<>>
    <2>1. Len(putback) = 0 /\ Position = cursor
        BY <1>1, <1>3 DEF Position
    <2> QED BY <2>1, <1>1, <1>3, BytesProperties
<1>4. CASE putback = Bytes(Position, ProbeLen) /\ putback # <<>>
    <2>1. Position = n * PSize
        BY <1>4 DEF Passed, AtEnd
    <2>2. Len(putback) = ProbeLen
        BY <2>1, <1>1, <1>2, <1>4, BytesProperties
    <2> QED BY <2>1, <2>2, <1>1, <1>2, <1>4 DEF Position
<1> QED BY <1>3, <1>4 DEF PutbackOK

(* What the reader reads from is the rest of the file.                     *)
LEMMA InputIsBytes ==
    ASSUME NEW m \in Nat
    PROVE  Input(m) = Bytes(cursor, AtMost(m, Len(file) - cursor))
    BY DEF Input, Bytes, AtMost

(* What read_one_packet reads, the bytes put back and what follows them,   *)
(* is what is next in the file.                                            *)
LEMMA ReadBuffer ==
    ASSUME Clean, Len(file) \in Nat, cursor \in 0 .. Len(file),
           Position \in 0 .. Len(file), cursor = Position + Len(putback),
           putback = Bytes(Position, Len(putback)), Len(putback) \in {0, ProbeLen}
    PROVE  putback \o Input(PSize - Len(putback))
               = Bytes(Position, AtMost(PSize, Len(file) - Position))
<1>1. PSize \in Nat /\ ProbeLen \in Nat /\ ProbeLen < PSize
    BY Sizes
<1> DEFINE had == Len(putback)
           more == AtMost(PSize - had, Len(file) - cursor)
<1>3. had \in Nat /\ PSize - had \in Nat /\ more \in Nat
    BY <1>1 DEF AtMost
<1>4. Input(PSize - had) = Bytes(Position + had, more)
    BY <1>3, InputIsBytes
<1>5. had + more = AtMost(PSize, Len(file) - Position)
    BY <1>1, <1>3 DEF AtMost
<1>6. Bytes(Position, had) \o Bytes(Position + had, more) = Bytes(Position, had + more)
    <2>1. Position \in Nat
        OBVIOUS
    <2> HIDE DEF had, more
    <2> QED BY <2>1, <1>3, BytesConcat
<1> QED BY <1>4, <1>5, <1>6

(* A packet read on the grid is one of the file, and its sync byte says    *)
(* whether it is sound.                                                    *)
LEMMA WholePacket ==
    ASSUME Clean, FileOK, NEW n \in 0 .. Packets - 1
    PROVE  /\ Bytes(n * PSize, PSize) = PacketAt(n + 1)
           /\ n + 1 \in 1 .. Packets
           /\ PacketAt(n + 1) # Err
           /\ PacketAt(n + 1)[1] = (n * PSize) + 1
           /\ PacketAt(n + 1)[PSize] = (n + 1) * PSize
           /\ Len(PacketAt(n + 1)) = PSize
           /\ IsSync(PacketAt(n + 1)) <=> n + 1 \in sound
<1>1. /\ PSize \in Nat /\ PSize > 1 /\ SyncOffset \in Nat /\ SyncOffset + 1 < PSize
      /\ Packets \in Nat /\ n \in Nat /\ n * PSize \in Nat /\ (n + 1) - 1 = n
    BY Sizes
<1>2. Bytes(n * PSize, PSize) = PacketAt(n + 1)
    BY <1>1 DEF Bytes, PacketAt
<1>3. /\ Len(PacketAt(n + 1)) = PSize
      /\ \A j \in 1 .. PSize : PacketAt(n + 1)[j] = (n * PSize) + j
    BY <1>1, <1>2, BytesProperties
<1>4. PacketAt(n + 1) # Err
    BY <1>1, <1>2, BytesProperties DEF Err
<1>5. PacketAt(n + 1)[PSize] = (n + 1) * PSize
    BY <1>1, <1>3, Multiples
<1>6. PacketAt(n + 1)[1] = (n * PSize) + 1
    BY <1>1, <1>3
<1>7. PacketAt(n + 1)[SyncOffset + 1] = SyncAt(n)
    BY <1>1, <1>3 DEF SyncAt
<1>8. IsSync(PacketAt(n + 1)) <=> n + 1 \in sound
    BY <1>7 DEF IsSync, FileOK
<1>9. n + 1 \in 1 .. Packets
    BY <1>1
<1> QED BY <1>2, <1>3, <1>4, <1>5, <1>6, <1>8, <1>9

------------------------------------------------------------------------------
(* What a call returns.                                                    *)
Results == {Err} \cup {PacketAt(k) : k \in sound}

(* The last call returned a packet that ends at position e.                *)
LastPacketEnds(e) == log # <<>> /\ log[Len(log)] # Err /\ e = log[Len(log)][PSize]

(* The end of a packet is a position.                                      *)
LEMMA LastEndIsNat ==
    ASSUME Clean, FileOK, LogOK, NEW e, LastPacketEnds(e)
    PROVE  e \in Nat /\ e <= Packets * PSize
<1>1. log \in Seq(Results) /\ Len(log) \in Nat
    BY LenProperties DEF LogOK, Results
<1>2. log[Len(log)] \in Results
    <2>1. Len(log) # 0
        BY <1>1, EmptySeq DEF LastPacketEnds
    <2> QED BY <1>1, <2>1, ElementOfSeq
<1>3. PICK k \in sound : log[Len(log)] = PacketAt(k)
    BY <1>2 DEF Results, LastPacketEnds
<1>4. PSize \in Nat /\ PSize > 1 /\ k \in 1 .. Packets /\ Packets \in Nat
    BY Sizes DEF FileOK
<1>5. PacketAt(k)[PSize] = ((k - 1) * PSize) + PSize /\ (k - 1) * PSize \in Nat
    BY <1>4 DEF PacketAt
<1>6. ((k - 1) * PSize) + PSize <= Packets * PSize
    <2>1. k - 1 \in Nat /\ k - 1 < Packets
        BY <1>4
    <2> QED BY <2>1, <1>4, Multiples
<1> QED BY <1>3, <1>4, <1>5, <1>6 DEF LastPacketEnds

(* A call that returns a sound packet or an error keeps the log as it      *)
(* should be, if a packet begins where the last one ended or at most       *)
(* ResyncLimit packets behind it.                                          *)
LEMMA ReturnKeepsLog ==
    ASSUME Clean, LogOK, GapsOnGrid, UNCHANGED sound,
           NEW result \in Results, log' = Append(log, result),
           \A e : LastPacketEnds(e) /\ result # Err =>
                      result[1] - e - 1 <= ResyncLimit * PSize
    PROVE  /\ LogOK' /\ GapsOnGrid'
           /\ log' # <<>> /\ log'[Len(log')] = result
<1>1. /\ log \in Seq(Results) /\ Len(log) \in Nat
      /\ log' \in Seq(Results) /\ Len(log') = Len(log) + 1
      /\ \A i \in 1 .. Len(log) : log'[i] = log[i]
      /\ log'[Len(log) + 1] = result
      /\ log' # <<>>
    BY AppendProperties, LenProperties DEF LogOK, Results
<1>2. LogOK'
    BY <1>1 DEF LogOK, Results
<1>3. GapsOnGrid'
    <2> SUFFICES ASSUME NEW i \in 1 .. Len(log') - 1, log'[i] # Err, log'[i + 1] # Err
                 PROVE  log'[i + 1][1] - log'[i][PSize] - 1 <= ResyncLimit * PSize
        BY DEF GapsOnGrid
    <2>1. CASE i = Len(log)
        <3>1. LastPacketEnds(log'[i][PSize])
            BY <2>1, <1>1 DEF LastPacketEnds
        <3> QED BY <2>1, <3>1, <1>1
    <2>2. CASE i \in 1 .. Len(log) - 1
        BY <2>2, <1>1 DEF GapsOnGrid
    <2> QED BY <2>1, <2>2, <1>1
<1> QED BY <1>1, <1>2, <1>3

------------------------------------------------------------------------------
(* The steps.                                                              *)

(* Where the reader is, as numbers.                                        *)
LEMMA PlaceIsKnown ==
    ASSUME Clean, FileOK, TypesOK, PutbackOK, NEW n, Passed(n)
    PROVE  /\ n \in 0 .. Packets /\ n \in Nat /\ n * PSize \in Nat
           /\ Len(file) \in Nat /\ Packets * PSize \in Nat /\ PSize \in Nat
           /\ Position \in 0 .. Len(file) /\ n * PSize <= Position
           /\ Position # n * PSize => n = Packets /\ AtEnd
           /\ AtEnd => n = Packets /\ Position = Len(file)
           /\ Position + PSize <= Len(file) <=> n < Packets
           /\ AtMost(Position, Packets * PSize) = n * PSize
           /\ \A k \in 1 .. Packets : (k - 1) * PSize < Position <=> k <= n
<1>1. /\ n \in 0 .. Packets /\ n \in Nat /\ n * PSize \in Nat /\ Packets \in Nat
      /\ Packets * PSize \in Nat /\ PSize \in Nat /\ PSize > 1
    BY Sizes DEF Passed
<1>2. /\ Len(file) \in Nat
      /\ Packets * PSize <= Len(file) /\ Len(file) < (Packets * PSize) + PSize
      /\ \A m \in Nat : (m * PSize) + PSize <= Len(file) <=> m < Packets
    BY FileLength
<1>3. Position \in 0 .. Len(file)
    BY PositionRange
<1>4. AtEnd => Position = Len(file)
    BY <1>2 DEF AtEnd, Position
<1>5. n < Packets => (n * PSize) + PSize <= Packets * PSize
    BY <1>1, Multiples
<1>6. AtEnd => n = Packets
    <2> SUFFICES ASSUME AtEnd, n < Packets PROVE FALSE
        BY <1>1
    <2>1. Position = n * PSize
        BY DEF Passed
    <2> QED BY <2>1, <1>1, <1>2, <1>4, <1>5
<1>7. n * PSize <= Position /\ (Position # n * PSize => n = Packets /\ AtEnd)
    BY <1>1, <1>2, <1>4 DEF Passed
<1>8. Position + PSize <= Len(file) <=> n < Packets
    BY <1>1, <1>2, <1>3, <1>4, <1>7
<1>9. AtMost(Position, Packets * PSize) = n * PSize
    <2>1. CASE n = Packets
        BY <2>1, <1>1, <1>3, <1>2, <1>7 DEF AtMost
    <2>2. CASE n < Packets
        BY <2>2, <1>1, <1>5, <1>7 DEF AtMost
    <2> QED BY <2>1, <2>2, <1>1
<1>10. ASSUME NEW k \in 1 .. Packets
       PROVE  (k - 1) * PSize < Position <=> k <= n
    <2>1. k - 1 \in Nat /\ k \in Nat /\ (k - 1) * PSize \in Nat
        BY <1>1
    <2>2. k - 1 < n => ((k - 1) * PSize) + PSize <= n * PSize
        BY <2>1, <1>1, Multiples
    <2>3. n < k - 1 => (n * PSize) + PSize <= (k - 1) * PSize
        BY <2>1, <1>1, Multiples
    <2>4. k - 1 = n => (k - 1) * PSize = n * PSize /\ n # Packets
        BY <2>1, <1>1
    <2>5. n < k => n # Packets
        BY <1>1
    <2> QED BY <2>1, <2>2, <2>3, <2>4, <2>5, <1>1, <1>3, <1>7
<1> QED BY <1>1, <1>2, <1>3, <1>4, <1>6, <1>7, <1>8, <1>9, <1>10

(* The facts about the file are about nothing else.                        *)
LEMMA FileStays ==
    ASSUME FileOK, UNCHANGED <<file, sound>>
    PROVE  FileOK'
    BY DEF FileOK, Lone

(* After a step that leaves the reader behind packet n.                    *)
LEMMA BehindPacket ==
    ASSUME Clean, FileOK, UNCHANGED <<file, sound>>,
           NEW n \in 0 .. Packets, Position' = n * PSize,
           pc' = "resync" => n \in (1 .. Packets) \ sound /\ putback' = <<>>
    PROVE  (\E m \in 0 .. Packets : Passed(m))'
    BY DEF Passed

(* How much of the place counts as read.                                   *)
LEMMA LimitOfPlace ==
    ASSUME Clean, FileOK
    PROVE  /\ \A n \in 0 .. Packets : AtMost(n * PSize, Packets * PSize) = n * PSize
           /\ AtMost(Len(file), Packets * PSize) = Packets * PSize
           /\ \A n \in 0 .. Packets : n * PSize \in Nat /\ n * PSize <= Packets * PSize
<1>1. /\ Packets \in Nat /\ PSize \in Nat /\ PSize > 1 /\ Packets * PSize \in Nat
      /\ Len(file) \in Nat /\ Packets * PSize <= Len(file)
    <2>1. Packets \in Nat /\ PSize \in Nat /\ PSize > 1
        BY Sizes
    <2>2. Packets * PSize \in Nat
        BY <2>1
    <2> QED BY <2>1, <2>2, FileLength
<1>2. ASSUME NEW n \in 0 .. Packets
      PROVE  n * PSize \in Nat /\ n * PSize <= Packets * PSize
    <2>1. n * PSize \in Nat /\ (n < Packets => (n * PSize) + PSize <= Packets * PSize)
        BY <1>1, Multiples
    <2>2. n = Packets => n * PSize = Packets * PSize
        OBVIOUS
    <2> QED BY <2>1, <2>2, <1>1
<1>3. ASSUME NEW n \in 0 .. Packets PROVE AtMost(n * PSize, Packets * PSize) = n * PSize
    BY <1>1, <1>2 DEF AtMost
<1>4. AtMost(Len(file), Packets * PSize) = Packets * PSize
    BY <1>1 DEF AtMost
<1> QED BY <1>2, <1>3, <1>4

(* A returned packet has its own number.                                   *)
LEMMA PacketNumber ==
    ASSUME Clean, NEW k \in 1 .. Packets
    PROVE  Number(PacketAt(k)) = k
<1>1. PSize \in Nat /\ PSize > 1 /\ Packets \in Nat
    BY Sizes
<1>2. ASSUME NEW i \in 1 .. Packets
      PROVE  PacketAt(i)[1] = ((i - 1) * PSize) + 1 /\ (i - 1) * PSize \in Nat
    BY <1>1, <1>2 DEF PacketAt
<1>3. ASSUME NEW i \in 1 .. Packets, PacketAt(i) = PacketAt(k)
      PROVE  i = k
    <2>1. i - 1 \in Nat /\ k - 1 \in Nat
        BY <1>1
    <2>2. /\ i - 1 < k - 1 => ((i - 1) * PSize) + PSize <= (k - 1) * PSize
          /\ k - 1 < i - 1 => ((k - 1) * PSize) + PSize <= (i - 1) * PSize
        BY <2>1, Multiples
    <2>3. (i - 1) * PSize = (k - 1) * PSize /\ (i - 1) * PSize \in Nat
        BY <1>2, <1>3
    <2> QED BY <2>1, <2>2, <2>3, <1>1
<1> QED BY <1>3 DEF Number

(* Which packets a position is behind.                                     *)
LEMMA Reached ==
    ASSUME Clean, NEW n \in 0 .. Packets, NEW p \in Nat,
           p = n * PSize \/ (n = Packets /\ p >= n * PSize)
    PROVE  \A k \in 1 .. Packets : (k - 1) * PSize < p <=> k <= n
<1> SUFFICES ASSUME NEW k \in 1 .. Packets PROVE (k - 1) * PSize < p <=> k <= n
    OBVIOUS
<1>1. /\ PSize \in Nat /\ PSize > 1 /\ Packets \in Nat /\ k - 1 \in Nat /\ n \in Nat /\ k \in Nat
    BY Sizes
<1>2. (k - 1) * PSize \in Nat /\ n * PSize \in Nat
    BY <1>1
<1>3. k - 1 < n => ((k - 1) * PSize) + PSize <= n * PSize
    BY <1>1, Multiples
<1>4. n < k - 1 => (n * PSize) + PSize <= (k - 1) * PSize
    BY <1>1, Multiples
<1>5. k - 1 = n => (k - 1) * PSize = n * PSize
    BY <1>1
<1>6. n < k => n # Packets
    BY <1>1
<1> QED BY <1>1, <1>2, <1>3, <1>4, <1>5, <1>6

(* What a step hands on: nothing, or the packet the reader is at.          *)
Behind(k) == (k - 1) * PSize < Position

(* Packet k is handed on: it was the first sound one ahead of the reader.  *)
Hands(k) ==
    /\ log' = Append(log, PacketAt(k))
    /\ \A j \in sound : (Behind(j) <=> j < k) /\ (Behind(j)' <=> j <= k)

(* Nothing is handed on, and no sound packet is passed over.               *)
Passes ==
    /\ log' \in {log, Append(log, Err)}
    /\ \A j \in sound : Behind(j)' <=> Behind(j)

(* What a step does for Delivery.                                          *)
Effect == Passes \/ \E k \in sound : Hands(k)

(* The packets behind the reader, by their numbers.                        *)
LEMMA BehindNow ==
    ASSUME Clean, FileOK, TypesOK, PutbackOK, NEW n, Passed(n)
    PROVE  \A j \in sound : Behind(j) <=> j <= n
<1>1. \A k \in 1 .. Packets : (k - 1) * PSize < Position <=> k <= n
    BY PlaceIsKnown
<1>2. sound \subseteq 1 .. Packets
    BY DEF FileOK
<1> QED BY <1>1, <1>2 DEF Behind

(* The packets behind the reader after the step.                           *)
LEMMA BehindNext ==
    ASSUME Clean, FileOK, NEW m \in 0 .. Packets,
           Position' = m * PSize \/ (m = Packets /\ Position' = Len(file))
    PROVE  \A j \in sound : Behind(j)' <=> j <= m
<1>1. Position' \in Nat /\ (Position' = m * PSize \/ (m = Packets /\ Position' >= m * PSize))
    BY FileLength, LimitOfPlace
<1>2. \A k \in 1 .. Packets : (k - 1) * PSize < Position' <=> k <= m
    BY <1>1, Reached
<1>3. sound \subseteq 1 .. Packets
    BY DEF FileOK
<1> QED BY <1>2, <1>3 DEF Behind

(* The types after a step, from those of its parts.                        *)
LEMMA TypesNext ==
    ASSUME Clean, TypesOK, UNCHANGED <<file, opened>>, cursor' \in 0 .. Len(file),
           bytesRead' \in Nat, pc' \in {"ready", "resync"},
           tries' \in 0 .. ResyncLimit, eof' \in BOOLEAN
    PROVE  TypesOK'
    BY DEF TypesOK

(* The facts about the log are about the file and the log.                 *)
LEMMA LogStays ==
    ASSUME LogOK, GapsOnGrid, UNCHANGED <<log, sound>>
    PROVE  LogOK' /\ GapsOnGrid'
    BY DEF LogOK, GapsOnGrid

(* Between packets the reader is where the last one ended.                 *)
LEMMA LastEndIsHere ==
    ASSUME Clean, FileOK, LogOK, Gap, ~AtEnd, NEW e, LastPacketEnds(e)
    PROVE  /\ e \in Nat
           /\ pc = "ready" => Position = e
           /\ pc = "resync" => Position = e + ((1 + tries) * PSize)
<1>1. e \in Nat
    BY LastEndIsNat
<1>2. Position = e + (IF pc = "resync" THEN (1 + tries) * PSize ELSE 0)
    BY DEF Gap, LastPacketEnds
<1> QED BY <1>1, <1>2

(* read_one_packet keeps the invariant.                                    *)
LEMMA ReadKeeps ==
    ASSUME Clean, ReaderInvariant, ReadOnePacket
    PROVE  ReaderInvariant' /\ Effect
<1> DEFINE left == Len(file) - Position
           size == AtMost(PSize, left)
           buf  == putback \o Input(PSize - Len(putback))
<1>1. PICK n \in 0 .. Packets : Passed(n)
    BY DEF ReaderInvariant
<1>2. FileOK /\ TypesOK /\ PutbackOK /\ LogOK /\ GapsOnGrid
    BY DEF ReaderInvariant
<1>3. /\ n \in Nat /\ n * PSize \in Nat
      /\ Len(file) \in Nat /\ Packets * PSize \in Nat /\ PSize \in Nat
      /\ Position \in 0 .. Len(file) /\ n * PSize <= Position
      /\ Position # n * PSize => n = Packets /\ AtEnd
      /\ AtEnd => n = Packets /\ Position = Len(file)
      /\ Position + PSize <= Len(file) <=> n < Packets
      /\ AtMost(Position, Packets * PSize) = n * PSize
      /\ \A k \in 1 .. Packets : (k - 1) * PSize < Position <=> k <= n
    BY <1>1, <1>2, PlaceIsKnown
<1>4. /\ PSize > 1 /\ Packets \in Nat /\ ResyncLimit \in Nat /\ ResyncLimit > 0
      /\ Packets * PSize <= Len(file)
    BY <1>2, Sizes, FileLength
<1>5. pc = "ready" /\ UNCHANGED <<file, sound, opened>>
    BY DEF ReadOnePacket
<1>6. buf = Bytes(Position, size) /\ size \in Nat /\ Len(buf) = size
      /\ (buf = <<>> <=> size = 0)
    <2>1. buf = Bytes(Position, size)
        BY <1>1, <1>2, <1>3, PositionRange, ReadBuffer DEF TypesOK
    <2>2. size \in Nat /\ Position \in Nat
        BY <1>3 DEF AtMost
    <2> HIDE DEF size, buf
    <2> QED BY <2>1, <2>2, BytesProperties
<1>7. cursor' = Position + size /\ putback' = <<>> /\ Position' = Position + size
    <2>1. cursor' = cursor + Len(buf) - Len(putback) /\ putback' = <<>>
        BY DEF ReadOnePacket
    <2>2. cursor = Position + Len(putback) /\ Len(putback) \in Int
        BY <1>1, <1>2, PositionRange, Sizes
    <2>3. cursor' = Position + size
        BY <2>1, <2>2, <1>3, <1>6
    <2> QED BY <2>1, <2>3, <1>3, <1>6 DEF Position
<1>8. FileOK' /\ PutbackOK'
    BY <1>2, <1>5, <1>7, FileStays DEF PutbackOK
<1>9. AllSoundBehind' => AllSoundBehind
    BY <1>3, <1>5, <1>6, <1>7 DEF AllSoundBehind
<1>10. CASE size = 0
    <2>1. UNCHANGED <<pc, tries, log, bytesRead>> /\ eof' = TRUE
        BY <1>6, <1>10 DEF ReadOnePacket
    <2>2. Position = Len(file) /\ Position' = Position /\ cursor' = Len(file) /\ n = Packets
        BY <1>3, <1>4, <1>7, <1>10 DEF AtMost
    <2>3. AtEnd'
        BY <2>1, <2>2, <1>5, <1>7 DEF AtEnd
    <2>4. (\E m \in 0 .. Packets : Passed(m))'
        BY <2>1, <2>2, <2>3, <1>1, <1>5 DEF Passed
    <2>5. Counted'
        <3>1. Len(putback) = 0 => putback' = putback /\ AllSoundBehind = AllSoundBehind'
            BY <1>5, <1>7, <2>2, PositionRange, <1>1, <1>2 DEF AllSoundBehind
        <3> QED BY <2>1, <2>2, <1>5, <1>7, <1>9 DEF ReaderInvariant, Counted
    <2>6. Gap'
        BY <2>1, <2>2, <2>3, <1>5 DEF ReaderInvariant, Gap, AtEnd
    <2>7. TypesOK' /\ LogOK' /\ GapsOnGrid'
        BY <2>1, <2>2, <1>2, <1>3, <1>5 DEF TypesOK, LogOK, GapsOnGrid
    <2>8. NotAhead'
        BY <2>1, <2>2 DEF ReaderInvariant, NotAhead
    <2>9. Effect
        BY <2>1, <2>2 DEF Effect, Passes, Behind
    <2> QED BY <2>4, <2>5, <2>6, <2>7, <2>8, <2>9, <1>8 DEF ReaderInvariant
<1>11. CASE 0 < size /\ size < PSize
    <2>1. Return(Err) /\ eof' = FALSE
        BY <1>6, <1>11 DEF ReadOnePacket
    <2>2. n = Packets /\ cursor' = Len(file) /\ Position' = Len(file)
        <3>1. size = Len(file) - Position /\ Len(file) - Position < PSize
            BY <1>3, <1>11 DEF AtMost
        <3> HIDE DEF size, left, buf
        <3>2. n = Packets
            BY <3>1, <1>3, <1>4
        <3> QED BY <3>1, <3>2, <1>3, <1>7
    <2>3. AtEnd'
        BY <2>1, <2>2, <1>5, <1>7 DEF AtEnd, Return
    <2>4. (\E m \in 0 .. Packets : Passed(m))'
        BY <2>2, <2>3, <1>1, <1>5 DEF Passed, AtEnd
    <2>5. LogOK' /\ GapsOnGrid' /\ log'[Len(log')] = Err
        BY <2>1, <1>2, <1>5, ReturnKeepsLog DEF Return, Results
    <2>6. Gap'
        BY <2>5 DEF Gap
    <2>7. Counted'
        <3>1. AtMost(Len(file), Packets * PSize) = Packets * PSize
            BY <1>3, <1>4 DEF AtMost
        <3>2. bytesRead' = bytesRead
            BY <2>1 DEF Return
        <3> QED BY <3>1, <3>2, <2>2, <1>3, <1>5, <1>7, <1>9 DEF ReaderInvariant, Counted
    <2>8. TypesOK'
        <3>1. /\ cursor' \in 0 .. Len(file) /\ eof' \in BOOLEAN
              /\ pc' \in {"ready", "resync"} /\ tries' \in 0 .. ResyncLimit
            <4> HIDE DEF buf, size, left
            <4>1. pc' = "ready" /\ tries' = 0 /\ eof' = FALSE
                BY <2>1 DEF Return
            <4>2. cursor' \in 0 .. Len(file)
                BY <2>2, <1>3
            <4>3. 0 \in 0 .. ResyncLimit
                BY <1>4
            <4>4. pc' \in {"ready", "resync"} /\ eof' \in BOOLEAN
                BY <4>1
            <4>5. tries' \in 0 .. ResyncLimit
                BY <4>1, <4>3
            <4> QED BY <4>2, <4>4, <4>5, Zenon
        <3>2. bytesRead' \in Nat
            BY <2>1, <1>2 DEF Return, TypesOK
        <3> QED BY <3>1, <3>2, <1>2, <1>5, TypesNext
    <2>9. NotAhead'
        <3>1. bytesRead' = bytesRead /\ bytesRead \in Nat /\ bytesRead <= n * PSize
            BY <2>1, <1>2, <1>3 DEF Return, ReaderInvariant, NotAhead, TypesOK
        <3>2. AtMost(Position', Packets * PSize) = n * PSize
            BY <2>2, <1>2, LimitOfPlace
        <3> QED BY <3>1, <3>2, <2>2 DEF NotAhead
    <2>10. Effect
        <3>1. \A j \in sound : (Behind(j)' <=> j <= n) /\ (Behind(j) <=> j <= n)
            BY <2>2, <1>1, <1>2, BehindNow, BehindNext
        <3>2. log' = Append(log, Err)
            BY <2>1 DEF Return
        <3> QED BY <3>1, <3>2 DEF Effect, Passes
    <2> QED BY <2>4, <2>5, <2>6, <2>7, <2>8, <2>9, <2>10, <1>8 DEF ReaderInvariant
<1>12. CASE size = PSize
    <2>1. n < Packets /\ Position = n * PSize /\ ~AtEnd /\ n \in 0 .. Packets - 1
        BY <1>3, <1>4, <1>12 DEF AtMost
    <2>2. Position' = (n + 1) * PSize /\ cursor' = (n + 1) * PSize
        BY <2>1, <1>3, <1>7, <1>12, Multiples
    <2>3. /\ buf = PacketAt(n + 1) /\ n + 1 \in 1 .. Packets /\ buf # Err
          /\ buf[1] = (n * PSize) + 1 /\ buf[PSize] = (n + 1) * PSize
          /\ IsSync(buf) <=> n + 1 \in sound
        BY <2>1, <1>2, <1>6, <1>12, WholePacket, ZenonT(30)
    <2>4. (n + 1) * PSize \in 0 .. Len(file)
        BY <2>2, <1>3, <1>7, <1>12, <2>1
    <2>5. \A e : LastPacketEnds(e) => e = Position
        BY <2>1, <1>2, <1>5, LastEndIsHere DEF ReaderInvariant
    <2>10. \A j \in sound : (Behind(j) <=> j <= n) /\ (Behind(j)' <=> j <= n + 1) /\ j \in Nat
        <3>1. \A j \in sound : Behind(j) <=> j <= n
            BY <1>1, <1>2, BehindNow
        <3> DEFINE m == n + 1
        <3>2. m \in 0 .. Packets /\ Position' = m * PSize
            BY <2>1, <2>2, <1>3, <1>4
        <3> HIDE DEF m
        <3>3. \A j \in sound : Behind(j)' <=> j <= m
            BY <3>2, <1>2, BehindNext
        <3>4. \A j \in sound : j \in Nat
            BY <1>2, <1>4 DEF FileOK
        <3> QED BY <3>1, <3>3, <3>4 DEF m
    <2>6. CASE n + 1 \in sound
        <3>1. Return(buf) /\ eof' = FALSE
            BY <2>3, <2>6, <1>4, <1>6, <1>12, SMTT(30) DEF ReadOnePacket
        <3>2. /\ LogOK' /\ GapsOnGrid'
              /\ log' # <<>> /\ log'[Len(log')] = buf
            <4>1. buf \in Results
                BY <2>3, <2>6 DEF Results
            <4>2. \A e : LastPacketEnds(e) => buf[1] - e - 1 <= ResyncLimit * PSize
                <5>1. ResyncLimit * PSize \in Nat
                    BY <1>3, <1>4
                <5> HIDE DEF buf, size, left
                <5>2. buf[1] - Position - 1 = 0
                    BY <2>1, <2>3, <1>3
                <5> QED BY <5>1, <5>2, <2>5
            <4> HIDE DEF buf
            <4> QED BY <3>1, <4>1, <4>2, <1>2, <1>5, ReturnKeepsLog DEF Return
        <3>3. pc' = "ready" /\ tries' = 0 /\ bytesRead' = bytesRead + PSize
            BY <3>1, <2>3 DEF Return
        <3>4. (\E m \in 0 .. Packets : Passed(m))'
            BY <2>2, <2>3, <3>3, <1>2, <1>5, BehindPacket
        <3>5. Gap'
            <4> HIDE DEF buf, size, left
            <4>1. Position' = log'[Len(log')][PSize] /\ Position' \in Nat
                BY <2>2, <2>3, <2>4, <3>2, <1>7
            <4>2. Position' = log'[Len(log')][PSize]
                                  + (IF pc' = "resync" THEN (1 + tries') * PSize ELSE 0)
                BY <4>1, <3>3
            <4> QED BY <4>2 DEF Gap
        <3>6. Counted'
            <4>1. AtMost((n + 1) * PSize, Packets * PSize) = (n + 1) * PSize
                <5>1. n + 1 < Packets => ((n + 1) * PSize) + PSize <= Packets * PSize
                    BY <1>3, <1>4, Multiples
                <5>2. n + 1 = Packets => (n + 1) * PSize = Packets * PSize
                    BY <1>3, <1>4
                <5> QED BY <5>1, <5>2, <2>1, <2>4, <1>3, <1>4 DEF AtMost
            <4>2. (n + 1) * PSize = (n * PSize) + PSize
                BY <1>3, Multiples
            <4> QED
                BY <4>1, <4>2, <2>1, <2>2, <3>3, <1>3, <1>5, <1>7, <1>9
                DEF ReaderInvariant, Counted
        <3>7. TypesOK'
            <4>1. tries' \in 0 .. ResyncLimit
                BY <3>3, <1>4
            <4>2. bytesRead' \in Nat
                BY <3>3, <1>2, <1>3 DEF TypesOK
            <4> QED BY <4>1, <4>2, <2>2, <2>4, <3>1, <3>3, <1>2, <1>5, TypesNext
        <3>8. NotAhead'
            <4>1. AtMost(Position', Packets * PSize) = (n + 1) * PSize
                BY <2>2, <2>3, <1>2, LimitOfPlace
            <4>2. (n + 1) * PSize = (n * PSize) + PSize
                BY <1>3, Multiples
            <4>3. bytesRead \in Nat /\ bytesRead <= n * PSize
                BY <1>2, <1>3 DEF ReaderInvariant, NotAhead, TypesOK
            <4> QED BY <4>1, <4>2, <4>3, <3>3, <1>3 DEF NotAhead
        <3>9. Hands(n + 1)
            <4>1. \A j \in sound : j <= n <=> j < n + 1
                BY <2>10, <1>3
            <4>2. log' = Append(log, PacketAt(n + 1))
                BY <3>1, <2>3 DEF Return
            <4> QED BY <4>1, <4>2, <2>10 DEF Hands
        <3> QED BY <3>2, <3>4, <3>5, <3>6, <3>7, <3>8, <3>9, <2>6, <1>8
                DEF ReaderInvariant, Effect
    <2>7. CASE n + 1 \notin sound
        <3>1. /\ pc' = "resync" /\ tries' = 0 /\ UNCHANGED <<log, bytesRead>>
              /\ eof' = FALSE
            BY <2>3, <2>7, <1>4, <1>6, <1>12, SMTT(30) DEF ReadOnePacket
        <3>2. (\E m \in 0 .. Packets : Passed(m))'
            BY <2>2, <2>3, <2>7, <1>2, <1>5, <1>7, BehindPacket
        <3>3. Gap'
            <4>1. (1 + 0) * PSize = PSize
                BY <1>3
            <4> QED
                BY <4>1, <2>1, <2>5, <3>1, <1>3, <1>7, <1>12 DEF Gap, LastPacketEnds
        <3>4. ~AllSoundBehind'
            <4>1. ((n + 1) - 1) * PSize < (n + 1) * PSize
                BY <1>3, <1>4, Multiples
            <4> QED BY <4>1, <2>2, <2>3, <2>7, <1>5 DEF AllSoundBehind
        <3>5. Counted'
            BY <3>4 DEF Counted
        <3>6. TypesOK' /\ LogOK' /\ GapsOnGrid'
            <4>1. tries' \in 0 .. ResyncLimit
                BY <3>1, <1>4
            <4>2. bytesRead' \in Nat
                BY <3>1, <1>2 DEF TypesOK
            <4>3. TypesOK'
                BY <4>1, <4>2, <2>2, <2>4, <3>1, <1>2, <1>5, TypesNext
            <4> QED BY <4>3, <3>1, <1>2, <1>5, LogStays
        <3>7. NotAhead'
            <4>1. AtMost(Position', Packets * PSize) = (n + 1) * PSize
                BY <2>2, <2>3, <1>2, LimitOfPlace
            <4>2. (n + 1) * PSize = (n * PSize) + PSize
                BY <1>3, Multiples
            <4>3. bytesRead \in Nat /\ bytesRead <= n * PSize
                BY <1>2, <1>3 DEF ReaderInvariant, NotAhead, TypesOK
            <4> QED BY <4>1, <4>2, <4>3, <3>1, <1>3 DEF NotAhead
        <3>8. Passes
            <4>1. \A j \in sound : j <= n <=> j <= n + 1
                BY <2>7, <2>10, <1>3
            <4> QED BY <4>1, <3>1, <2>10 DEF Passes
        <3> QED BY <3>2, <3>3, <3>5, <3>6, <3>7, <3>8, <1>8 DEF ReaderInvariant, Effect
    <2> QED BY <2>6, <2>7
<1> QED BY <1>3, <1>4, <1>6, <1>10, <1>11, <1>12 DEF AtMost

(* One chunk of resync keeps the invariant: rejected, too short, or the    *)
(* packet that is handed on.                                               *)
LEMMA ResyncKeeps ==
    ASSUME Clean, ReaderInvariant, ResyncChunk
    PROVE  ReaderInvariant' /\ Effect
<1> DEFINE left  == Len(file) - Position
           chunk == Input(PSize)
           ahead == Input(PSize + ProbeLen)
           probe == SubSeq(ahead, PSize + 1, Len(ahead))
           candidate == Len(chunk) = PSize /\ IsSync(chunk)
           confirmed == Len(probe) = ProbeLen /\ file[probe[ProbeLen]]
<1>1. PICK n \in 0 .. Packets : Passed(n)
    BY DEF ReaderInvariant
<1>2. FileOK /\ TypesOK /\ PutbackOK /\ LogOK /\ Gap /\ GapsOnGrid
    BY DEF ReaderInvariant
<1>3. /\ n \in Nat /\ n * PSize \in Nat
      /\ Len(file) \in Nat /\ Packets * PSize \in Nat /\ PSize \in Nat
      /\ Position \in 0 .. Len(file)
      /\ Position # n * PSize => n = Packets /\ AtEnd
      /\ Position + PSize <= Len(file) <=> n < Packets
      /\ AtMost(Position, Packets * PSize) = n * PSize
    BY <1>1, <1>2, PlaceIsKnown
<1>4. /\ PSize > 1 /\ Packets \in Nat /\ ResyncLimit \in Nat
      /\ ProbeLen \in Nat /\ ProbeLen >= 1 /\ ProbeLen < PSize /\ ProbeLen = SyncOffset + 1
      /\ Packets * PSize <= Len(file) /\ Len(file) < (Packets * PSize) + PSize
    BY <1>2, Sizes, FileLength
<1>5. /\ pc = "resync" /\ tries < ResyncLimit /\ tries \in Nat
      /\ UNCHANGED <<file, sound, opened, eof>> /\ eof \in BOOLEAN
    BY <1>2, <1>4 DEF ResyncChunk, TypesOK
<1>6. /\ n \in (1 .. Packets) \ sound /\ putback = <<>> /\ cursor = Position
      /\ Position = n * PSize /\ ~AtEnd
    BY <1>1, <1>3, <1>5, PositionRange, <1>2 DEF Passed, AtEnd
<1>7. /\ cursor' = cursor + (IF candidate THEN Len(ahead) ELSE Len(chunk))
      /\ putback' = IF candidate /\ confirmed THEN PushBack(probe) ELSE <<>>
      /\ IF Len(chunk) < PSize THEN Return(Err)
         ELSE IF ~candidate THEN Reject
         ELSE IF confirmed \/ Len(probe) < ProbeLen THEN Return(chunk)
         ELSE Reject
    BY DEF ResyncChunk
<1>8. /\ chunk = Bytes(Position, AtMost(PSize, left)) /\ Len(chunk) = AtMost(PSize, left)
      /\ ahead = Bytes(Position, AtMost(PSize + ProbeLen, left))
      /\ Len(ahead) = AtMost(PSize + ProbeLen, left)
    <2>1. /\ AtMost(PSize, left) \in Nat /\ AtMost(PSize + ProbeLen, left) \in Nat
          /\ Position \in Nat /\ PSize + ProbeLen \in Nat
        BY <1>3, <1>4 DEF AtMost
    <2> DEFINE a == AtMost(PSize, left)  b == AtMost(PSize + ProbeLen, left)
    <2>2. chunk = Bytes(Position, a) /\ ahead = Bytes(Position, b)
        BY <2>1, <1>2, <1>3, <1>6, InputIsBytes
    <2> HIDE DEF a, b, chunk, ahead
    <2>3. Len(chunk) = a /\ Len(ahead) = b
        BY <2>1, <2>2, BytesProperties DEF a, b
    <2> QED BY <2>2, <2>3 DEF a, b
<1>9. bytesRead \in Nat /\ bytesRead <= n * PSize
    BY <1>2, <1>3 DEF ReaderInvariant, NotAhead, TypesOK
<1>10. FileOK'
    BY <1>2, <1>5, FileStays
<1> HIDE DEF left, chunk, ahead, probe, candidate, confirmed
<1>11. ASSUME Position' >= Position, Position' \in Nat PROVE Counted'
    <2>1. (n - 1) * PSize < n * PSize
        <3>1. n - 1 \in Nat /\ (n - 1) + 1 = n
            BY <1>6, <1>3, <1>4
        <3>2. n * PSize = ((n - 1) * PSize) + PSize /\ (n - 1) * PSize \in Nat
            BY <3>1, Multiples
        <3> QED BY <3>2, <1>3, <1>4
    <2>2. (n - 1) * PSize < Position' /\ n \in 1 .. Packets /\ n \notin sound
        <3>1. (n - 1) * PSize \in Int
            BY <1>3, <1>4
        <3> QED BY <3>1, <2>1, <1>3, <1>6, <1>11
    <2>3. ~AllSoundBehind'
        BY <2>2, <1>5 DEF AllSoundBehind
    <2> QED BY <2>3 DEF Counted
<1>12. \A e : LastPacketEnds(e) => e \in Nat /\ Position = e + ((1 + tries) * PSize)
    BY <1>2, <1>5, <1>6, LastEndIsHere
<1>13. CASE n = Packets
    <2>1. left < PSize /\ left \in Nat /\ Position + left = Len(file)
        BY <1>3, <1>13 DEF left
    <2>2. Len(chunk) = left /\ Len(chunk) < PSize
        BY <2>1, <1>3, <1>8 DEF AtMost
    <2>3. ~candidate
        BY <2>2, <2>1, <1>3 DEF candidate
    <2>4. cursor' = Len(file) /\ putback' = <<>> /\ Return(Err)
        BY <2>1, <2>2, <2>3, <1>6, <1>7
    <2>5. Position' = Len(file) /\ pc' = "ready" /\ tries' = 0 /\ bytesRead' = bytesRead
        BY <2>4, <1>3, <1>5 DEF Position, Return
    <2>6. AtEnd'
        BY <2>4, <2>5, <1>5 DEF AtEnd
    <2>7. (\E m \in 0 .. Packets : Passed(m))'
        BY <2>5, <2>6, <1>1, <1>13 DEF Passed
    <2>8. LogOK' /\ GapsOnGrid' /\ log'[Len(log')] = Err
        BY <2>4, <1>2, <1>5, ReturnKeepsLog DEF Return, Results
    <2>9. Gap'
        BY <2>8 DEF Gap
    <2>10. Counted'
        BY <2>5, <1>3, <1>11
    <2>11. NotAhead'
        <3>1. AtMost(Position', Packets * PSize) = Packets * PSize
            BY <2>5, <1>2, LimitOfPlace
        <3> QED BY <3>1, <2>5, <1>3, <1>9, <1>13 DEF NotAhead
    <2>12. TypesOK'
        <3>1. cursor' \in 0 .. Len(file) /\ tries' \in 0 .. ResyncLimit
            BY <2>4, <2>5, <1>3, <1>4
        <3> QED BY <3>1, <2>5, <1>2, <1>5, <1>9, TypesNext
    <2>13. Passes
        <3>1. \A j \in sound : (Behind(j)' <=> j <= n) /\ (Behind(j) <=> j <= n)
            BY <2>5, <1>1, <1>2, <1>13, BehindNow, BehindNext
        <3>2. log' = Append(log, Err)
            BY <2>4 DEF Return
        <3> QED BY <3>1, <3>2 DEF Passes
    <2> QED BY <2>4, <2>7, <2>8, <2>9, <2>10, <2>11, <2>12, <2>13, <1>10
            DEF ReaderInvariant, PutbackOK, Effect
<1>14. CASE n < Packets
    <2>1. PSize <= left /\ left \in Nat /\ n \in 0 .. Packets - 1 /\ n + 1 \in 1 .. Packets
        BY <1>3, <1>4, <1>14 DEF left
    <2>2. Len(chunk) = PSize /\ chunk = Bytes(n * PSize, PSize)
        BY <2>1, <1>3, <1>6, <1>8 DEF AtMost
    <2>3. /\ chunk = PacketAt(n + 1) /\ chunk # Err
          /\ chunk[1] = (n * PSize) + 1 /\ chunk[PSize] = (n + 1) * PSize
          /\ IsSync(chunk) <=> n + 1 \in sound
        BY <2>1, <2>2, <1>2, WholePacket
    <2>4. candidate <=> n + 1 \in sound
        BY <2>2, <2>3 DEF candidate
    <2>5. /\ (n + 1) * PSize = (n * PSize) + PSize /\ (n + 1) * PSize \in Nat
          /\ (n + 1) * PSize <= Len(file)
        BY <1>3, <1>14, Multiples, <1>6
    <2>8. (n + 1) * PSize = Position + PSize
        BY <2>5, <1>6
    <2>9. SyncAt(n + 1) = Position + PSize + ProbeLen /\ SyncAt(n + 1) \in Nat
        <3>1. SyncAt(n + 1) = ((n + 1) * PSize) + ProbeLen /\ SyncAt(n + 1) \in Nat
            <4> DEFINE m == n + 1
            <4>1. m \in Nat
                BY <1>3
            <4> HIDE DEF m
            <4>2. SyncAt(m) = (m * PSize) + ProbeLen /\ SyncAt(m) \in Nat
                BY <4>1, SyncAtEnds
            <4> QED BY <4>2 DEF m
        <3> QED BY <3>1, <2>8
    <2>10. ASSUME Position' = (n + 1) * PSize \/ (n + 1 = Packets /\ Position' = Len(file))
           PROVE  \A j \in sound :
                      (Behind(j) <=> j <= n) /\ (Behind(j)' <=> j <= n + 1) /\ j \in Nat
        <3>1. \A j \in sound : Behind(j) <=> j <= n
            BY <1>1, <1>2, BehindNow
        <3> DEFINE m == n + 1
        <3>2. m \in 0 .. Packets /\ (Position' = m * PSize \/ (m = Packets /\ Position' = Len(file)))
            BY <2>1, <2>10, <1>3, <1>4
        <3> HIDE DEF m
        <3>3. \A j \in sound : Behind(j)' <=> j <= m
            BY <3>2, <1>2, BehindNext
        <3>4. \A j \in sound : j \in Nat
            BY <1>2, <1>4 DEF FileOK
        <3> QED BY <3>1, <3>3, <3>4 DEF m
    <2>6. CASE n + 1 \notin sound
        <3>1. cursor' = (n + 1) * PSize /\ putback' = <<>> /\ Reject
            BY <2>2, <2>4, <2>5, <2>6, <1>6, <1>7, <1>3
        <3>2. Position' = (n + 1) * PSize
            BY <3>1, <2>5 DEF Position
        <3>3. pc' = "resync" /\ tries' = tries + 1 /\ UNCHANGED <<log, bytesRead>>
            BY <3>1 DEF Reject
        <3>4. (\E m \in 0 .. Packets : Passed(m))'
            BY <3>1, <3>2, <2>1, <2>6, <1>2, <1>5, BehindPacket
        <3>5. Gap'
            <4>1. SUFFICES ASSUME log # <<>>, log[Len(log)] # Err
                           PROVE  Position' = log[Len(log)][PSize] + (1 + tries') * PSize
                BY <3>3 DEF Gap
            <4>2. PICK e \in Nat : e = log[Len(log)][PSize] /\ Position = e + ((1 + tries) * PSize)
                BY <4>1, <1>12 DEF LastPacketEnds
            <4>3. 1 + tries \in Nat /\ (1 + tries) * PSize \in Nat
                  /\ ((1 + tries) + 1) * PSize = ((1 + tries) * PSize) + PSize
                BY <1>3, <1>5, Multiples
            <4>4. 1 + tries' = (1 + tries) + 1
                BY <3>3, <1>5
            <4> DEFINE past == (1 + tries) * PSize  next == (1 + tries') * PSize
            <4>5. /\ Position = e + past /\ past \in Nat /\ next = past + PSize
                  /\ Position' = Position + PSize /\ e = log[Len(log)][PSize] /\ e \in Nat
                BY <4>2, <4>3, <4>4, <3>2, <2>5, <1>6
            <4> HIDE DEF past, next
            <4>6. Position' = e + next
                BY <4>5, <1>3, SMTT(30)
            <4> QED BY <4>5, <4>6 DEF next
        <3>6. Counted'
            BY <3>2, <2>5, <1>3, <1>6, <1>11
        <3>7. NotAhead'
            <4>1. AtMost(Position', Packets * PSize) = (n + 1) * PSize
                BY <3>2, <2>1, <1>2, LimitOfPlace
            <4> QED BY <4>1, <3>3, <2>5, <1>3, <1>9 DEF NotAhead
        <3>8. TypesOK'
            <4>1. cursor' \in 0 .. Len(file) /\ tries' \in 0 .. ResyncLimit
                BY <3>1, <3>3, <2>5, <1>3, <1>4, <1>5
            <4> QED BY <4>1, <3>3, <1>2, <1>5, <1>9, TypesNext
        <3>9. LogOK' /\ GapsOnGrid'
            BY <3>3, <1>2, <1>5, LogStays
        <3>10. Passes
            <4>1. \A j \in sound : j <= n <=> j <= n + 1
                BY <3>2, <2>6, <2>10, <1>3
            <4> QED BY <4>1, <3>2, <3>3, <2>10 DEF Passes
        <3> QED BY <3>1, <3>4, <3>5, <3>6, <3>7, <3>8, <3>9, <3>10, <1>10
                DEF ReaderInvariant, PutbackOK, Effect
    <2>7. CASE n + 1 \in sound
        <3>1. chunk \in Results
            BY <2>3, <2>7 DEF Results
        <3>2. \A e : LastPacketEnds(e) => chunk[1] - e - 1 <= ResyncLimit * PSize
            <4> SUFFICES ASSUME NEW e, LastPacketEnds(e)
                         PROVE  chunk[1] - e - 1 <= ResyncLimit * PSize
                OBVIOUS
            <4>1. e \in Nat /\ Position = e + ((1 + tries) * PSize)
                BY <1>12
            <4>2. 1 + tries \in Nat /\ (1 + tries) * PSize \in Nat /\ 1 + tries <= ResyncLimit
                BY <1>3, <1>4, <1>5
            <4>3. (1 + tries) * PSize <= ResyncLimit * PSize /\ ResyncLimit * PSize \in Nat
                <5>1. 1 + tries < ResyncLimit =>
                          ((1 + tries) * PSize) + PSize <= ResyncLimit * PSize
                    BY <4>2, <1>4, Multiples
                <5>2. 1 + tries = ResyncLimit => (1 + tries) * PSize = ResyncLimit * PSize
                    OBVIOUS
                <5>3. ResyncLimit * PSize \in Nat
                    BY <1>3, <1>4
                <5> QED BY <5>1, <5>2, <5>3, <4>2, <1>3, <1>4
            <4> DEFINE past == (1 + tries) * PSize  limit == ResyncLimit * PSize
            <4>4. /\ Position = e + past /\ past <= limit /\ past \in Nat /\ limit \in Nat
                  /\ chunk[1] = Position + 1
                BY <4>1, <4>2, <4>3, <2>3, <1>6
            <4> HIDE DEF past, limit
            <4>5. chunk[1] - e - 1 <= limit
                BY <4>1, <4>4
            <4> QED BY <4>5 DEF limit
        <3>4. ASSUME SyncAt(n + 1) <= Len(file)
              PROVE  /\ confirmed /\ probe = Bytes((n + 1) * PSize, ProbeLen)
                     /\ Len(ahead) = PSize + ProbeLen
            <4>1. /\ Len(ahead) = PSize + ProbeLen
                  /\ ahead = Bytes(n * PSize, PSize + ProbeLen)
                <5>1. PSize + ProbeLen <= left /\ left \in Nat
                    BY <3>4, <2>9, <1>3, <1>4 DEF left
                <5>2. AtMost(PSize + ProbeLen, left) = PSize + ProbeLen
                    BY <5>1, <1>3, <1>4 DEF AtMost
                <5> QED BY <5>2, <1>6, <1>8
            <4>2. probe = Bytes((n + 1) * PSize, ProbeLen)
                <5>1. SubSeq(Bytes(n * PSize, PSize + ProbeLen), PSize + 1, PSize + ProbeLen)
                          = Bytes((n * PSize) + PSize, ProbeLen)
                    <6> DEFINE p == n * PSize
                    <6>1. p \in Nat
                        BY <1>3
                    <6> HIDE DEF p
                    <6>2. SubSeq(Bytes(p, PSize + ProbeLen), PSize + 1, PSize + ProbeLen)
                              = Bytes(p + PSize, ProbeLen)
                        BY <6>1, <1>3, <1>4, BytesTail
                    <6> QED BY <6>2 DEF p
                <5> QED BY <5>1, <4>1, <2>5 DEF probe
            <4>3. Len(probe) = ProbeLen /\ probe[ProbeLen] = SyncAt(n + 1)
                <5>1. /\ Len(probe) = ProbeLen
                      /\ \A j \in 1 .. ProbeLen : probe[j] = (n + 1) * PSize + j
                    BY <4>2, <2>5, <1>4, BytesProperties
                <5>2. probe[ProbeLen] = (n + 1) * PSize + ProbeLen
                    BY <5>1, <1>4
                <5>3. SyncAt(n + 1) = ((n + 1) * PSize) + ProbeLen
                    BY <1>3, SyncAtEnds
                <5> QED BY <5>1, <5>2, <5>3
            <4>4. file[SyncAt(n + 1)]
                <5>1. CASE n + 1 = Packets
                    BY <5>1, <3>4, <1>2 DEF FileOK
                <5>2. CASE n + 1 # Packets
                    <6>1. /\ n + 1 \in 0 .. Packets - 1 /\ (n + 1) + 1 \in 1 .. Packets
                          /\ (n + 1) - 1 = n
                        BY <5>2, <2>1, <1>3, <1>4
                    <6>2. ~Lone(n + 1)
                        BY <2>7, <1>2 DEF FileOK
                    <6>3. (n + 1) + 1 \in sound
                        BY <6>1, <6>2, <2>7, <1>6 DEF Lone
                    <6> QED BY <6>1, <6>3, <1>2 DEF FileOK
                <5> QED BY <5>1, <5>2
            <4> QED BY <4>1, <4>2, <4>3, <4>4 DEF confirmed
        <3>5. ASSUME Len(file) < SyncAt(n + 1)
              PROVE  /\ n + 1 = Packets /\ Len(probe) < ProbeLen /\ ~confirmed
                     /\ cursor + Len(ahead) = Len(file)
            <4>1. n + 1 = Packets
                <5>1. SyncAt(n + 1) < ((n + 1) * PSize) + PSize /\ SyncAt(n + 1) \in Nat
                    <6>1. (n + 1) * PSize \in Nat
                        BY <2>5
                    <6>2. SyncAt(n + 1) = ((n + 1) * PSize) + ProbeLen
                        BY <1>3, SyncAtEnds
                    <6> HIDE DEF SyncAt
                    <6> QED BY <6>1, <6>2, <1>3, <1>4
                <5>2. n + 1 < Packets => ((n + 1) * PSize) + PSize <= Packets * PSize
                    BY <1>3, <1>4, Multiples
                <5>3. ~(n + 1 < Packets)
                    BY <5>1, <5>2, <3>5, <2>5, <1>3, <1>4
                <5> QED BY <5>3, <2>1, <1>3, <1>4
            <4>2. left < PSize + ProbeLen /\ left \in Nat /\ cursor + left = Len(file)
                BY <3>5, <2>9, <1>3, <1>4, <1>6 DEF left
            <4>3. Len(ahead) = left /\ ahead = Bytes(n * PSize, left)
                BY <4>2, <1>3, <1>4, <1>6, <1>8 DEF AtMost
            <4>4. left = PSize + (left - PSize) /\ left - PSize \in Nat /\ left - PSize < ProbeLen
                BY <4>2, <2>1, <1>3, <1>4
            <4>5. probe = Bytes((n * PSize) + PSize, left - PSize)
                <5> DEFINE more == left - PSize
                <5>1. more \in Nat /\ PSize + more = left
                    BY <4>4
                <5> HIDE DEF more
                <5>2. SubSeq(Bytes(n * PSize, PSize + more), PSize + 1, PSize + more)
                          = Bytes((n * PSize) + PSize, more)
                    BY <5>1, <1>3, BytesTail
                <5> QED BY <5>1, <5>2, <4>3 DEF probe, more
            <4>6. Len(probe) = left - PSize
                BY <4>4, <4>5, <1>3, BytesProperties
            <4> QED BY <4>1, <4>2, <4>3, <4>4, <4>6, <1>4 DEF confirmed
        <3>3. Len(probe) < ProbeLen \/ confirmed
            <4>1. CASE SyncAt(n + 1) <= Len(file)
                BY <4>1, <3>4
            <4>2. CASE Len(file) < SyncAt(n + 1)
                BY <4>2, <3>5
            <4> QED BY <4>1, <4>2, <2>9, <1>3
        <3>6. Return(chunk)
            BY <3>3, <2>2, <2>4, <2>7, <1>3, <1>4, <1>7
        <3>7. /\ LogOK' /\ GapsOnGrid'
              /\ log' # <<>> /\ log'[Len(log')] = chunk
            BY <3>1, <3>2, <3>6, <1>2, <1>5, ReturnKeepsLog DEF Return
        <3>8. pc' = "ready" /\ tries' = 0 /\ bytesRead' = bytesRead + PSize
            BY <3>6, <2>3 DEF Return
        <3>9. bytesRead' \in Nat /\ bytesRead' <= (n + 1) * PSize
            BY <3>8, <2>5, <1>3, <1>9
        <3>12. ASSUME Position' = (n + 1) * PSize \/ (n + 1 = Packets /\ Position' = Len(file))
               PROVE  Effect
            <4>1. \A j \in sound : j <= n <=> j < n + 1
                BY <3>12, <2>10, <1>3
            <4>2. log' = Append(log, PacketAt(n + 1))
                BY <3>6, <2>3 DEF Return
            <4> QED BY <4>1, <4>2, <3>12, <2>7, <2>10 DEF Hands, Effect
        <3>10. CASE SyncAt(n + 1) <= Len(file)
            <4>1. /\ cursor' = (n + 1) * PSize + ProbeLen
                  /\ putback' = Bytes((n + 1) * PSize, ProbeLen) /\ Len(putback') = ProbeLen
                <5>1. cursor' = cursor + Len(ahead) /\ putback' = probe
                    BY <3>4, <3>10, <2>4, <2>7, <1>7 DEF PushBack
                <5>2. cursor' = (n + 1) * PSize + ProbeLen
                    <6>1. cursor' = Position + (PSize + ProbeLen)
                        BY <5>1, <3>4, <3>10, <1>6
                    <6>2. (Position + PSize) + ProbeLen = Position + (PSize + ProbeLen)
                        BY <1>3, <1>4
                    <6> QED BY <6>1, <6>2, <2>8
                <5>3. Len(putback') = ProbeLen
                    BY <5>1, <3>4, <3>10, <2>5, <1>4, BytesProperties
                <5> QED BY <5>1, <5>2, <5>3, <3>4, <3>10
            <4>2. Position' = (n + 1) * PSize
                BY <4>1, <2>5, <1>4 DEF Position
            <4>3. PutbackOK'
                BY <4>1, <4>2, <3>8 DEF PutbackOK
            <4>4. (\E m \in 0 .. Packets : Passed(m))'
                BY <4>2, <3>8, <2>1, <1>2, <1>5, BehindPacket
            <4>5. Gap'
                <5>1. Position' = log'[Len(log')][PSize] /\ Position' \in Nat
                    BY <4>2, <3>7, <2>3, <2>5
                <5>2. Position' = log'[Len(log')][PSize]
                                      + (IF pc' = "resync" THEN (1 + tries') * PSize ELSE 0)
                    BY <5>1, <3>8
                <5> QED BY <5>2 DEF Gap
            <4>6. Counted'
                BY <4>2, <2>5, <1>3, <1>6, <1>11
            <4>7. NotAhead'
                <5>1. AtMost(Position', Packets * PSize) = (n + 1) * PSize
                    BY <4>2, <2>1, <1>2, LimitOfPlace
                <5> QED BY <5>1, <3>9 DEF NotAhead
            <4>8. TypesOK'
                <5>1. cursor' \in 0 .. Len(file) /\ 0 \in 0 .. ResyncLimit
                    BY <4>1, <3>10, <2>8, <2>9, <1>3, <1>4
                <5> QED BY <5>1, <3>8, <3>9, <1>2, <1>5, TypesNext
            <4> QED BY <4>2, <4>3, <4>4, <4>5, <4>6, <4>7, <4>8, <3>7, <3>12, <1>10
                    DEF ReaderInvariant
        <3>11. CASE Len(file) < SyncAt(n + 1)
            <4>1. n + 1 = Packets /\ cursor' = Len(file) /\ putback' = <<>>
                BY <3>5, <3>11, <2>4, <2>7, <1>7
            <4>2. Position' = Len(file)
                BY <4>1, <1>3 DEF Position
            <4>3. AtEnd'
                BY <4>1, <3>8, <1>5 DEF AtEnd
            <4>4. (\E m \in 0 .. Packets : Passed(m))'
                <5>1. Passed(Packets)'
                    BY <4>3, <3>8, <1>4 DEF Passed
                <5>2. Packets \in 0 .. Packets
                    BY <1>4
                <5> QED BY <5>1, <5>2
            <4>5. Gap'
                BY <4>3, <1>5, <1>6 DEF Gap
            <4>6. Counted'
                BY <4>2, <1>3, <1>11
            <4>7. NotAhead'
                <5>1. AtMost(Position', Packets * PSize) = (n + 1) * PSize
                    BY <4>1, <4>2, <1>2, LimitOfPlace
                <5> QED BY <5>1, <3>9 DEF NotAhead
            <4>8. TypesOK'
                <5>1. cursor' \in 0 .. Len(file) /\ 0 \in 0 .. ResyncLimit
                    BY <4>1, <1>3, <1>4
                <5> QED BY <5>1, <3>8, <3>9, <1>2, <1>5, TypesNext
            <4> QED BY <4>1, <4>2, <4>4, <4>5, <4>6, <4>7, <4>8, <3>7, <3>12, <1>10
                    DEF ReaderInvariant, PutbackOK
        <3> QED BY <3>10, <3>11, <2>9, <1>3
    <2> QED BY <2>6, <2>7
<1> QED BY <1>3, <1>4, <1>13, <1>14

(* A resync that gives up keeps the invariant.                             *)
LEMMA ResyncFailsKeeps ==
    ASSUME Clean, ReaderInvariant, ResyncFails
    PROVE  ReaderInvariant' /\ Effect
<1>1. PICK n \in 0 .. Packets : Passed(n)
    BY DEF ReaderInvariant
<1>2. FileOK /\ TypesOK /\ PutbackOK /\ LogOK /\ GapsOnGrid
    BY DEF ReaderInvariant
<1>3. /\ pc = "resync" /\ pc' = "ready" /\ tries' = 0 /\ log' = Append(log, Err)
      /\ UNCHANGED <<file, sound, cursor, putback, bytesRead, opened, eof>>
    BY DEF ResyncFails, Return
<1>4. Position' = Position
    BY <1>3 DEF Position
<1>5. FileOK' /\ NotAhead'
    BY <1>2, <1>3, <1>4, FileStays DEF ReaderInvariant, NotAhead
<1>6. (\E m \in 0 .. Packets : Passed(m))'
    BY <1>1, <1>2, <1>3, <1>4, BehindPacket DEF Passed, AtEnd
<1>7. LogOK' /\ GapsOnGrid' /\ log'[Len(log')] = Err
    BY <1>2, <1>3, ReturnKeepsLog DEF Results
<1>8. Gap'
    BY <1>7 DEF Gap
<1>9. Counted'
    BY <1>3, <1>4 DEF ReaderInvariant, Counted, AllSoundBehind
<1>10. PutbackOK'
    BY <1>2, <1>3, <1>4 DEF PutbackOK
<1>11. TypesOK'
    <2>1. ResyncLimit \in Nat
        BY Sizes
    <2>2. /\ cursor' \in 0 .. Len(file) /\ bytesRead' \in Nat
          /\ tries' \in 0 .. ResyncLimit /\ eof' \in BOOLEAN
        BY <2>1, <1>2, <1>3 DEF TypesOK
    <2> QED BY <2>2, <1>2, <1>3, TypesNext
<1>12. Passes
    BY <1>3, <1>4 DEF Passes, Behind
<1> QED BY <1>5, <1>6, <1>7, <1>8, <1>9, <1>10, <1>11, <1>12 DEF ReaderInvariant, Effect

(* Where open() puts the input back is where the reader is, since it has   *)
(* only met sound packets.                                                 *)
LEMMA FinishOpenKeeps ==
    ASSUME Clean, ReaderInvariant, FinishOpen
    PROVE  ReaderInvariant' /\ Effect
<1>1. PICK n \in 0 .. Packets : Passed(n)
    BY DEF ReaderInvariant
<1>2. FileOK /\ TypesOK /\ PutbackOK /\ LogOK /\ Gap /\ GapsOnGrid
    BY DEF ReaderInvariant
<1>3. /\ ~opened /\ pc = "ready" /\ opened' = TRUE /\ cursor' = bytesRead
      /\ UNCHANGED <<file, sound, putback, bytesRead, pc, tries, log, eof>>
    BY DEF FinishOpen
<1>4. AllSoundBehind
    BY DEF FinishOpen, AllSoundBehind, Clean
<1>5. /\ n \in Nat /\ n * PSize \in Nat /\ Len(file) \in Nat /\ Packets * PSize \in Nat
      /\ Position \in 0 .. Len(file)
      /\ Position # n * PSize => n = Packets /\ AtEnd
      /\ AtEnd => n = Packets /\ Position = Len(file)
      /\ AtMost(Position, Packets * PSize) = n * PSize
      /\ \A k \in 1 .. Packets : (k - 1) * PSize < Position <=> k <= n
      /\ Packets * PSize <= Len(file) /\ n * PSize <= Packets * PSize
    BY <1>1, <1>2, PlaceIsKnown, FileLength, LimitOfPlace
<1>6. putback = <<>> /\ bytesRead = n * PSize
    BY <1>3, <1>4, <1>5 DEF ReaderInvariant, Counted
<1>7. cursor' = n * PSize /\ Position' = n * PSize
    BY <1>3, <1>5, <1>6 DEF Position
<1>8. FileOK' /\ PutbackOK'
    BY <1>2, <1>3, <1>6, FileStays DEF PutbackOK
<1>9. (\E m \in 0 .. Packets : Passed(m))'
    BY <1>2, <1>3, <1>7, BehindPacket
<1>10. Gap'
    <2> SUFFICES ASSUME log # <<>>, log[Len(log)] # Err
                 PROVE  Position' = log[Len(log)][PSize]
        <3>1. pc' = "ready" /\ log' = log /\ Position' \in Int
            BY <1>3, <1>5, <1>7
        <3>2. Position' = log'[Len(log')][PSize] =>
                  Position' = log'[Len(log')][PSize]
                                  + (IF pc' = "resync" THEN (1 + tries') * PSize ELSE 0)
            BY <3>1
        <3> QED BY <3>1, <3>2 DEF Gap
    <2> DEFINE e == log[Len(log)][PSize]
    <2>1. LastPacketEnds(e)
        BY DEF LastPacketEnds
    <2>2. e \in Nat /\ e <= Packets * PSize
        BY <2>1, <1>2, LastEndIsNat
    <2>3. \A k \in 1 .. Packets : k <= n => k \in sound
        BY <1>4, <1>5 DEF AllSoundBehind
    <2>4. ~(AtEnd /\ \E k \in 1 .. Packets : k \notin sound)
        BY <2>3, <1>5, Sizes
    <2>5. Position = e + 0
        BY <2>4, <1>2, <1>3 DEF Gap
    <2> HIDE DEF e
    <2>6. Position = e
        BY <2>2, <2>5
    <2>7. Position = n * PSize
        BY <2>2, <2>6, <1>5
    <2> QED BY <2>6, <2>7, <1>7 DEF e
<1>11. Counted'
    BY <1>3 DEF Counted
<1>12. NotAhead'
    <2>1. AtMost(Position', Packets * PSize) = n * PSize
        BY <1>2, <1>7, LimitOfPlace
    <2> QED BY <2>1, <1>3, <1>5, <1>6 DEF NotAhead
<1>13. TypesOK'
    <2>1. cursor' \in 0 .. Len(file)
        BY <1>5, <1>7
    <2>2. opened' \in BOOLEAN
        BY <1>3
    <2> QED BY <2>1, <2>2, <1>2, <1>3 DEF TypesOK
<1>14. LogOK' /\ GapsOnGrid'
    BY <1>2, <1>3, LogStays
<1>15. Passes
    BY <1>1, <1>2, <1>3, <1>7, BehindNow, BehindNext DEF Passes
<1> QED BY <1>8, <1>9, <1>10, <1>11, <1>12, <1>13, <1>14, <1>15 DEF ReaderInvariant, Effect

(* The invariant holds of a file just opened.                              *)
LEMMA InitialInvariant ==
    ASSUME Clean, Init, Clear
    PROVE  ReaderInvariant
<1>1. /\ cursor = 0 /\ putback = <<>> /\ bytesRead = 0 /\ pc = "ready" /\ tries = 0
      /\ log = <<>> /\ opened = FALSE /\ eof = FALSE
    BY DEF Init
<1>2. FileOK
    BY InitialFile
<1>3. Len(file) \in Nat /\ PSize \in Nat /\ Packets \in Nat /\ ResyncLimit \in Nat
      /\ Packets * PSize \in Nat
    <2>1. PSize \in Nat /\ Packets \in Nat /\ ResyncLimit \in Nat
        BY Sizes
    <2>2. Packets * PSize \in Nat
        BY <2>1
    <2> QED BY <2>1, <2>2, <1>2, FileLength
<1>4. Position = 0
    <2>1. Len(putback) = 0 /\ cursor = 0
        BY <1>1
    <2> HIDE <1>1
    <2> QED BY <2>1 DEF Position
<1>5. TypesOK
    <2>1. cursor \in 0 .. Len(file) /\ bytesRead \in Nat /\ tries \in 0 .. ResyncLimit
        BY <1>1, <1>3
    <2> QED BY <2>1, <1>1 DEF TypesOK
<1>6. LogOK /\ GapsOnGrid
    <2>1. log \in Seq({Err} \cup {PacketAt(k) : k \in sound})
        BY <1>1, EmptySeq
    <2>2. 1 .. Len(log) - 1 = {}
        BY <1>1
    <2> QED BY <2>1, <2>2 DEF LogOK, GapsOnGrid
<1>7. PutbackOK /\ Gap
    BY <1>1 DEF PutbackOK, Gap
<1>8. AtMost(0, Packets * PSize) = 0
    BY <1>3 DEF AtMost
<1>9. Counted /\ NotAhead
    BY <1>1, <1>4, <1>8 DEF Counted, NotAhead
<1>10. Passed(0) /\ 0 \in 0 .. Packets
    <2>1. 0 * PSize = 0 /\ 0 \in 0 .. Packets
        BY <1>3
    <2> QED BY <2>1, <1>1, <1>4 DEF Passed
<1> QED BY <1>2, <1>5, <1>6, <1>7, <1>9, <1>10 DEF ReaderInvariant

(* The invariant is inductive.                                             *)
LEMMA StepKeepsInvariant ==
    ASSUME Clean, ReaderInvariant, [Next]_vars
    PROVE  ReaderInvariant'
<1>1. CASE Next
    BY <1>1, ReadKeeps, ResyncKeeps, ResyncFailsKeeps, FinishOpenKeeps DEF Next
<1>2. CASE UNCHANGED vars
    <2>1. /\ UNCHANGED <<file, sound, cursor, putback, bytesRead>>
          /\ UNCHANGED <<pc, tries, log, opened, eof>>
        BY <1>2 DEF vars
    <2>2. FileOK' /\ LogOK' /\ GapsOnGrid' /\ Position' = Position
        BY <2>1, FileStays, LogStays DEF ReaderInvariant, Position
    <2>3. TypesOK' /\ PutbackOK' /\ NotAhead' /\ Counted'
        BY <2>1, <2>2
        DEF ReaderInvariant, TypesOK, PutbackOK, NotAhead, Counted, AllSoundBehind
    <2>4. (\E m \in 0 .. Packets : Passed(m))'
        BY <2>1, <2>2 DEF ReaderInvariant, Passed, AtEnd
    <2>5. Gap'
        BY <2>1, <2>2 DEF ReaderInvariant, Gap, AtEnd
    <2> QED BY <2>2, <2>3, <2>4, <2>5 DEF ReaderInvariant
<1> QED BY <1>1, <1>2

------------------------------------------------------------------------------
(* The packets handed on are numbered as Delivery numbers its items.  What *)
(* the recursion over the log computes is known by two facts: there is     *)
(* such a function, and two of them agree where their logs do.             *)
Tally(g, s, m) ==
    g = [i \in 0 .. m |-> IF i = 0 THEN <<>>
                          ELSE IF s[i] = Err THEN g[i - 1]
                          ELSE Append(g[i - 1], Number(s[i]))]

(* The numbers of the packets of a log.                                    *)
NumbersOf(s) == (CHOOSE g : Tally(g, s, Len(s)))[Len(s)]

(* The model's numbers are those of its log, before and after a step.      *)
LEMMA NumbersAreOfLog ==
    Numbers = NumbersOf(log) /\ Numbers' = NumbersOf(log')
    BY DEF Numbers, NumbersOf, Tally

(* There is a tally of every log, by induction over its length.            *)
LEMMA TallyExists ==
    ASSUME NEW s, NEW m \in Nat
    PROVE  \E g : Tally(g, s, m)
<1> DEFINE Bad == {k \in Nat : ~ \E g : Tally(g, s, k)}
<1>1. SUFFICES ASSUME Bad # {} PROVE FALSE
    OBVIOUS
<1>2. PICK k \in Bad : \A y \in Bad : k <= y
    BY <1>1, LeastElement
<1>3. CASE k = 0
    <2> DEFINE g == [i \in 0 .. 0 |-> <<>>]
    <2>1. Tally(g, s, 0)
        BY DEF Tally
    <2> QED BY <2>1, <1>2, <1>3
<1>4. CASE k # 0
    <2>1. k - 1 \in Nat /\ k \in Nat /\ ~ (k <= k - 1)
        BY <1>2, <1>4
    <2>2. PICK g : Tally(g, s, k - 1)
        BY <2>1, <1>2
    <2> DEFINE last == IF s[k] = Err THEN g[k - 1] ELSE Append(g[k - 1], Number(s[k]))
               h == [i \in 0 .. k |-> IF i = k THEN last ELSE g[i]]
    <2>3. ASSUME NEW i \in 0 .. k
          PROVE  h[i] = IF i = 0 THEN <<>>
                        ELSE IF s[i] = Err THEN h[i - 1]
                        ELSE Append(h[i - 1], Number(s[i]))
        <3>1. CASE i = k
            <4>1. i - 1 \in 0 .. k /\ i - 1 # k /\ i # 0
                BY <3>1, <2>1, <1>4
            <4> QED BY <4>1, <3>1
        <3>2. CASE i # k /\ i # 0
            <4>1. i - 1 \in 0 .. k /\ i - 1 # k /\ i \in 0 .. k - 1
                BY <3>2, <2>1
            <4>2. g[i] = IF s[i] = Err THEN g[i - 1] ELSE Append(g[i - 1], Number(s[i]))
                BY <4>1, <3>2, <2>2 DEF Tally
            <4>3. h[i] = g[i] /\ h[i - 1] = g[i - 1]
                BY <4>1, <3>2
            <4> QED BY <4>2, <4>3, <3>2, Zenon
        <3>3. CASE i # k /\ i = 0
            <4>1. 0 \in 0 .. k - 1
                BY <2>1
            <4> QED BY <4>1, <3>3, <2>2 DEF Tally
        <3> QED BY <3>1, <3>2, <3>3
    <2>4. Tally(h, s, k)
        BY <2>3, Zenon DEF Tally
    <2> QED BY <2>4, <1>2
<1> QED BY <1>3, <1>4

(* Two tallies agree as far as their logs do.                              *)
LEMMA TallyAgrees ==
    ASSUME NEW s, NEW t, NEW n \in Nat, NEW m \in Nat, n <= m,
           \A i \in 1 .. n : s[i] = t[i],
           NEW g, NEW h, Tally(g, s, n), Tally(h, t, m)
    PROVE  g[n] = h[n]
<1> DEFINE Bad == {k \in 0 .. n : g[k] # h[k]}
<1>1. SUFFICES ASSUME Bad # {} PROVE FALSE
    BY n \in 0 .. n
<1>2. PICK k \in Bad : \A y \in Bad : k <= y
    <2>1. Bad \subseteq Nat
        OBVIOUS
    <2> HIDE DEF Bad
    <2> QED BY <1>1, <2>1, LeastElement
<1>3. k \in 0 .. n /\ k \in 0 .. m
    BY <1>2
<1>4. CASE k = 0
    BY <1>2, <1>3, <1>4 DEF Tally
<1>5. CASE k # 0
    <2>1. k - 1 \in 0 .. n /\ k \in 1 .. n /\ ~ (k <= k - 1)
        BY <1>3, <1>5
    <2>2. g[k - 1] = h[k - 1] /\ s[k] = t[k]
        BY <2>1, <1>2
    <2>3. g[k] = IF s[k] = Err THEN g[k - 1] ELSE Append(g[k - 1], Number(s[k]))
        BY <1>3, <1>5, Zenon DEF Tally
    <2>4. h[k] = IF t[k] = Err THEN h[k - 1] ELSE Append(h[k - 1], Number(t[k]))
        BY <1>3, <1>5, Zenon DEF Tally
    <2> QED BY <2>2, <2>3, <2>4, <1>2
<1> QED BY <1>4, <1>5

(* What a tally makes of one entry.                                        *)
LEMMA TallyStep ==
    ASSUME NEW s, NEW m, NEW g, Tally(g, s, m), NEW i \in 0 .. m, i # 0
    PROVE  g[i] = IF s[i] = Err THEN g[i - 1] ELSE Append(g[i - 1], Number(s[i]))
    BY Zenon DEF Tally

(* One more call adds its packet's number, or nothing if it failed.        *)
LEMMA NumbersOfAppend ==
    ASSUME NEW S, NEW s \in Seq(S), NEW r \in S
    PROVE  NumbersOf(Append(s, r))
               = IF r = Err THEN NumbersOf(s) ELSE Append(NumbersOf(s), Number(r))
<1> DEFINE t == Append(s, r)
           n == Len(s)
           g == CHOOSE f : Tally(f, s, n)
           h == CHOOSE f : Tally(f, t, n + 1)
<1>1. /\ n \in Nat /\ n + 1 \in Nat /\ n + 1 # 0 /\ n + 1 \in 0 .. n + 1
      /\ Len(t) = n + 1 /\ t[n + 1] = r
      /\ \A i \in 1 .. n : s[i] = t[i]
    BY LenProperties, AppendProperties
<1> HIDE DEF n, t
<1>2. Tally(g, s, n)
    BY <1>1, TallyExists
<1>3. Tally(h, t, n + 1)
    BY <1>1, TallyExists
<1> HIDE DEF g, h
<1>4. g[n] = h[n]
    BY <1>1, <1>2, <1>3, TallyAgrees
<1>5. h[n + 1] = IF r = Err THEN g[n] ELSE Append(g[n], Number(r))
    <2> DEFINE m == n + 1
    <2>1. m \in 0 .. m /\ m # 0 /\ Tally(h, t, m) /\ t[m] = r /\ m - 1 = n
        BY <1>1, <1>3
    <2> HIDE DEF m
    <2>2. h[m] = IF t[m] = Err THEN h[m - 1] ELSE Append(h[m - 1], Number(t[m]))
        BY <2>1, TallyStep
    <2>3. h[m] = IF r = Err THEN g[n] ELSE Append(g[n], Number(r))
        BY <2>1, <2>2, <1>4
    <2> QED BY <2>3 DEF m
<1>7. NumbersOf(s) = g[n] /\ NumbersOf(t) = h[n + 1]
    <2>1. NumbersOf(s) = g[n]
        BY DEF NumbersOf, g, n
    <2>2. NumbersOf(t) = h[Len(t)]
        BY <1>1, Zenon DEF NumbersOf, h
    <2> QED BY <2>1, <2>2, <1>1
<1> QED BY <1>5, <1>7 DEF t

(* What the reader promises.                                               *)
D == INSTANCE Delivery WITH owed <- sound, delivered <- Numbers

(* What is delivered: the sound packets the reader is behind.              *)
DeliveredOK ==
    /\ Numbers \in Seq(1 .. Packets)
    /\ Range(Numbers) = {k \in sound : Behind(k)}

(* A step with such an effect is a step of Delivery, or none.              *)
LEMMA DeliveryStep ==
    ASSUME Clean, FileOK, LogOK, DeliveredOK, UNCHANGED sound,
           Effect
    PROVE  DeliveredOK' /\ [D!Deliver]_<<sound, Numbers>>
<1>1. log \in Seq(Results) /\ Err \in Results /\ sound \subseteq 1 .. Packets
    BY DEF LogOK, Results, FileOK
<1>2. CASE Passes
    <2>1. Numbers' = Numbers
        <3>1. CASE log' = log
            BY <3>1 DEF Numbers
        <3>2. CASE log' = Append(log, Err)
            <4>1. NumbersOf(Append(log, Err)) = NumbersOf(log)
                BY <1>1, NumbersOfAppend
            <4> QED BY <3>2, <4>1, NumbersAreOfLog
        <3> QED BY <3>1, <3>2, <1>2 DEF Passes
    <2>2. {k \in sound : Behind(k)}' = {k \in sound : Behind(k)}
        BY <1>2 DEF Passes
    <2> QED BY <2>1, <2>2 DEF DeliveredOK
<1>3. ASSUME NEW k \in sound, Hands(k) PROVE DeliveredOK' /\ D!Deliver
    <2>1. Numbers' = Append(Numbers, k) /\ k \in 1 .. Packets
        <3>1. PacketAt(k) \in Results /\ Number(PacketAt(k)) = k
            BY <1>1, PacketNumber DEF Results
        <3>2. PacketAt(k) # Err
            BY <1>1, Sizes DEF PacketAt, Err
        <3>3. NumbersOf(Append(log, PacketAt(k)))
                  = Append(NumbersOf(log), Number(PacketAt(k)))
            BY <3>1, <3>2, <1>1, NumbersOfAppend
        <3> QED BY <3>1, <3>3, <1>1, <1>3, NumbersAreOfLog DEF Hands
    <2>2. Range(Numbers') = Range(Numbers) \cup {k} /\ Numbers' \in Seq(1 .. Packets)
        <3>1. /\ Numbers \in Seq(1 .. Packets) /\ Len(Numbers) \in Nat
              /\ DOMAIN Numbers = 1 .. Len(Numbers)
            BY LenProperties DEF DeliveredOK
        <3>2. /\ Numbers' \in Seq(1 .. Packets) /\ Len(Numbers') = Len(Numbers) + 1
              /\ \A i \in 1 .. Len(Numbers) : Numbers'[i] = Numbers[i]
              /\ Numbers'[Len(Numbers) + 1] = k
            BY <2>1, <3>1, AppendProperties
        <3>3. DOMAIN Numbers' = 1 .. Len(Numbers) + 1
            BY <3>2, LenProperties
        <3> DEFINE n == Len(Numbers)
        <3> HIDE DEF n
        <3> QED BY <3>1, <3>2, <3>3 DEF Range
    <2>3. Range(Numbers) = {j \in sound : j < k}
        BY <1>3 DEF DeliveredOK, Hands
    <2>4. {j \in sound : Behind(j)}' = {j \in sound : j <= k}
        BY <1>3 DEF Hands
    <2>5. DeliveredOK'
        <3>1. {j \in sound : j <= k} = {j \in sound : j < k} \cup {k}
            <4>1. \A j \in sound : j \in Nat
                BY <1>1, Sizes
            <4> QED BY <4>1
        <3> QED BY <3>1, <2>2, <2>3, <2>4 DEF DeliveredOK
    <2>6. D!Left = {j \in sound : k <= j} /\ D!Left # {}
        <3>1. \A j \in sound : j \in Nat
            BY <1>1, Sizes
        <3>2. D!Left = sound \ Range(Numbers)
            BY Zenon DEF D!Left, D!Range, Range
        <3> QED BY <3>1, <3>2, <2>3
    <2>7. D!Min(D!Left) = k
        <3>1. k \in D!Left /\ \A j \in D!Left : k <= j
            BY <2>6, <1>1, Sizes
        <3>2. ASSUME NEW i \in D!Left, \A j \in D!Left : i <= j PROVE i = k
            BY <3>1, <3>2, <2>6, <1>1, Sizes
        <3> QED BY <3>1, <3>2 DEF D!Min
    <2> QED BY <2>1, <2>5, <2>6, <2>7 DEF D!Deliver
<1> QED BY <1>2, <1>3 DEF Effect

(* Nothing is delivered at first.                                          *)
LEMMA DeliveryBegins ==
    ASSUME Clean, Init, Clear
    PROVE  DeliveredOK /\ D!Init
<1>1. log = <<>> /\ cursor = 0 /\ putback = <<>> /\ FileOK
    BY InitialFile DEF Init
<1>2. Numbers = <<>>
    <2>1. Len(<<>>) = 0 /\ 0 \in 0 .. 0
        BY EmptySeq
    <2>2. PICK g : Tally(g, <<>>, 0)
        BY TallyExists
    <2>3. \A any : Tally(any, <<>>, 0) => any[0] = <<>>
        BY <2>1 DEF Tally
    <2>4. NumbersOf(<<>>) = <<>>
        BY <2>1, <2>2, <2>3 DEF NumbersOf
    <2> QED BY <2>4, <1>1, NumbersAreOfLog
<1>3. \A k \in sound : ~Behind(k)
    <2>1. \A k \in sound : k \in 1 .. Packets
        BY <1>1 DEF FileOK
    <2>2. Len(putback) = 0 /\ cursor = 0
        BY <1>1
    <2>3. Position = 0
        BY <2>2 DEF Position
    <2>4. \A k \in sound : (k - 1) * PSize \in Nat
        BY <2>1, Sizes
    <2> QED BY <2>3, <2>4 DEF Behind
<1>4. DeliveredOK
    <2>1. Range(Numbers) = {}
        BY <1>2 DEF Range
    <2> QED BY <2>1, <1>2, <1>3, EmptySeq DEF DeliveredOK
<1>5. D!Init
    BY <1>1, <1>2, Sizes DEF D!Init, FileOK
<1> QED BY <1>4, <1>5

(* Every step of the reader is a step of Delivery, or none.                *)
LEMMA StepDelivers ==
    ASSUME Clean, ReaderInvariant, DeliveredOK, [Next]_vars
    PROVE  DeliveredOK' /\ [D!Deliver]_<<sound, Numbers>>
<1>1. CASE UNCHANGED vars
    <2>1. UNCHANGED <<sound, log, cursor, putback>>
        BY <1>1 DEF vars
    <2>2. Numbers' = Numbers /\ {k \in sound : Behind(k)}' = {k \in sound : Behind(k)}
        BY <2>1, NumbersAreOfLog DEF Behind, Position
    <2> QED BY <2>1, <2>2 DEF DeliveredOK
<1>2. CASE Next
    <2>1. Effect
        BY <1>2, ReadKeeps, ResyncKeeps, ResyncFailsKeeps, FinishOpenKeeps DEF Next
    <2>2. UNCHANGED sound
        BY <1>2 DEF Next, ReadOnePacket, ResyncChunk, ResyncFails, FinishOpen
    <2>3. FileOK /\ LogOK
        BY DEF ReaderInvariant
    <2> QED BY <2>1, <2>2, <2>3, DeliveryStep
<1> QED BY <1>1, <1>2

------------------------------------------------------------------------------
(* Any file.  A byte that is 0x47 by coincidence can make the reader take  *)
(* a chunk for a packet, or leave the grid with the probed bytes it drops. *)

(* Nothing is put back, or the bytes of one probe.                         *)
PutbackFits ==
    \/ putback = <<>>
    \/ pc = "ready" /\ ProbeLen <= cursor /\ putback = Bytes(cursor - ProbeLen, ProbeLen)

(* The calls returned errors, and as many bytes as a packet has.           *)
Chunks == {Bytes(p, PSize) : p \in Nat}
LogFits == log \in Seq({Err} \cup Chunks)

(* How far behind the end of the last packet the reader is.                *)
GapFits ==
    \A e : LastPacketEnds(e) =>
        \/ pc = "ready" /\ Position = e
        \/ /\ pc = "resync" /\ e + PSize <= Position
           /\ Position <= e + PSize + (tries * (PSize + ProbeLen))
        \/ AtEnd /\ (opened \/ ~AllSoundBehind)

(* Until open() returns, a reader that only met sound packets is where the *)
(* count says, or past the tail with an error.                             *)
CountFits ==
    ~opened /\ AllSoundBehind =>
        /\ putback = <<>> /\ pc = "ready"
        /\ \E n \in 0 .. Packets :
               /\ bytesRead = n * PSize
               /\ \/ cursor = bytesRead
                  \/ /\ n = Packets /\ cursor = Len(file)
                     /\ log # <<>> /\ log[Len(log)] = Err

(* The most that is passed over between two packets without an error.      *)
Longest == PSize + ((ResyncLimit - 1) * (PSize + ProbeLen))
GapsFit ==
    \A i \in 1 .. Len(log) - 1 :
        log[i] # Err /\ log[i + 1] # Err =>
            /\ 0 <= log[i + 1][1] - log[i][PSize] - 1
            /\ log[i + 1][1] - log[i][PSize] - 1 <= Longest

(* The inductive invariant of any file.                                    *)
AnyFileInvariant ==
    /\ FileShape /\ TypesOK /\ PutbackFits /\ LogFits /\ GapFits /\ CountFits /\ GapsFit
    /\ bytesRead <= Position

(* What a chunk is.                                                        *)
LEMMA ChunkProperties ==
    ASSUME Clean, NEW p \in Nat
    PROVE  /\ Bytes(p, PSize) \in Chunks /\ Bytes(p, PSize) # Err
           /\ Bytes(p, PSize)[1] = p + 1 /\ Bytes(p, PSize)[PSize] = p + PSize
           /\ IsSync(Bytes(p, PSize)) <=> file[p + SyncOffset + 1]
<1>1. PSize \in Nat /\ PSize > 1 /\ SyncOffset + 1 \in 1 .. PSize /\ SyncOffset \in Nat
    BY DEF Clean, LayoutAssumption
<1>2. /\ \A j \in 1 .. PSize : Bytes(p, PSize)[j] = p + j
      /\ Bytes(p, PSize) # <<>>
    BY <1>1, BytesProperties
<1>3. Bytes(p, PSize)[1] = p + 1 /\ Bytes(p, PSize)[PSize] = p + PSize
    BY <1>1, <1>2
<1>4. Bytes(p, PSize)[SyncOffset + 1] = p + SyncOffset + 1
    BY <1>1, <1>2
<1> QED BY <1>2, <1>3, <1>4 DEF Chunks, Err, IsSync

(* The bound is a number, and grows by a packet and a probe at a time.     *)
LEMMA LongestBounds ==
    ASSUME Clean, NEW n \in Nat, n < ResyncLimit
    PROVE  /\ n * (PSize + ProbeLen) \in Nat
           /\ (n + 1) * (PSize + ProbeLen) = (n * (PSize + ProbeLen)) + PSize + ProbeLen
           /\ PSize + (n * (PSize + ProbeLen)) <= Longest
           /\ Longest \in Nat
<1> DEFINE step == PSize + ProbeLen
           more == (ResyncLimit - 1) - n
<1>1. /\ PSize \in Nat /\ ProbeLen \in Nat /\ step \in Nat /\ ResyncLimit \in Nat
      /\ more \in Nat /\ ResyncLimit - 1 = n + more
    BY Sizes
<1>2. Longest = PSize + ((ResyncLimit - 1) * step)
    BY DEF Longest
<1>3. step = PSize + ProbeLen
    OBVIOUS
<1> HIDE DEF step, more
<1>4. /\ n * step \in Nat /\ more * step \in Nat /\ (n + 1) * step = (n * step) + step
      /\ (n + more) * step = (n * step) + (more * step)
    BY <1>1
<1>5. Longest = PSize + ((n * step) + (more * step))
    BY <1>1, <1>2, <1>4
<1> DEFINE a == n * step  b == more * step
<1>6. a \in Nat /\ b \in Nat /\ Longest = PSize + (a + b)
    BY <1>4, <1>5
<1> HIDE DEF a, b
<1>7. PSize + a <= Longest /\ Longest \in Nat
    BY <1>1, <1>6
<1>8. (n + 1) * step = a + PSize + ProbeLen
    BY <1>1, <1>3, <1>4, <1>6 DEF a
<1> QED BY <1>3, <1>6, <1>7, <1>8 DEF a

(* Where the reader is, as numbers.                                        *)
LEMMA PlaceFits ==
    ASSUME Clean, FileShape, TypesOK, PutbackFits
    PROVE  /\ Len(file) \in Nat /\ cursor \in 0 .. Len(file)
           /\ Position \in 0 .. Len(file) /\ cursor = Position + Len(putback)
           /\ putback = Bytes(Position, Len(putback)) /\ Len(putback) \in {0, ProbeLen}
<1>1. Len(file) \in Nat /\ ProbeLen \in Nat /\ cursor \in 0 .. Len(file)
    BY ShapeLength, Sizes DEF TypesOK
<1>2. CASE putback = <<>>
    <2>1. Len(putback) = 0 /\ Position = cursor
        BY <1>1, <1>2 DEF Position
    <2> QED BY <2>1, <1>1, <1>2, BytesProperties
<1>3. CASE ProbeLen <= cursor /\ putback = Bytes(cursor - ProbeLen, ProbeLen)
    <2>1. cursor - ProbeLen \in Nat
        BY <1>1, <1>3
    <2>2. Len(putback) = ProbeLen
        BY <2>1, <1>1, <1>3, BytesProperties
    <2>3. Position = cursor - ProbeLen
        BY <2>2 DEF Position
    <2> QED BY <2>1, <2>2, <2>3, <1>1, <1>3
<1> QED BY <1>2, <1>3 DEF PutbackFits

(* The end of a packet handed on is a position.                            *)
LEMMA EndIsNat ==
    ASSUME Clean, LogFits, NEW e, LastPacketEnds(e)
    PROVE  e \in Nat
<1>1. log \in Seq({Err} \cup Chunks) /\ Len(log) \in Nat
    BY LenProperties DEF LogFits
<1>2. log[Len(log)] \in {Err} \cup Chunks
    <2>1. Len(log) # 0
        BY <1>1, EmptySeq DEF LastPacketEnds
    <2> QED BY <1>1, <2>1, ElementOfSeq
<1>3. PICK p \in Nat : log[Len(log)] = Bytes(p, PSize)
    BY <1>2 DEF Chunks, LastPacketEnds
<1>4. e = p + PSize
    BY <1>3, ChunkProperties DEF LastPacketEnds
<1> QED BY <1>4, Sizes

(* A call that returns an error, or a chunk that begins close enough to    *)
(* the end of the last packet.                                             *)
LEMMA ReturnFits ==
    ASSUME Clean, LogFits, GapsFit,
           NEW result \in {Err} \cup Chunks, log' = Append(log, result),
           \A e : LastPacketEnds(e) /\ result # Err =>
                      0 <= result[1] - e - 1 /\ result[1] - e - 1 <= Longest
    PROVE  /\ LogFits' /\ GapsFit'
           /\ log' # <<>> /\ log'[Len(log')] = result
<1>1. /\ log \in Seq({Err} \cup Chunks) /\ Len(log) \in Nat
      /\ log' \in Seq({Err} \cup Chunks) /\ Len(log') = Len(log) + 1
      /\ \A i \in 1 .. Len(log) : log'[i] = log[i]
      /\ log'[Len(log) + 1] = result
      /\ log' # <<>>
    BY AppendProperties, LenProperties DEF LogFits
<1>2. LogFits'
    BY <1>1 DEF LogFits, Chunks, Bytes
<1>3. GapsFit'
    <2> SUFFICES ASSUME NEW i \in 1 .. Len(log') - 1, log'[i] # Err, log'[i + 1] # Err
                 PROVE  /\ 0 <= log'[i + 1][1] - log'[i][PSize] - 1
                        /\ log'[i + 1][1] - log'[i][PSize] - 1 <= Longest
        BY DEF GapsFit, Longest
    <2>1. CASE i = Len(log)
        <3>1. LastPacketEnds(log'[i][PSize])
            BY <2>1, <1>1 DEF LastPacketEnds
        <3> QED BY <2>1, <3>1, <1>1
    <2>2. CASE i \in 1 .. Len(log) - 1
        BY <2>2, <1>1 DEF GapsFit
    <2> QED BY <2>1, <2>2, <1>1
<1> QED BY <1>1, <1>2, <1>3

(* The facts about the file and the log are about nothing else.            *)
LEMMA ShapeStays ==
    ASSUME FileShape, UNCHANGED <<file, sound>>
    PROVE  FileShape'
    BY DEF FileShape, SyncAt

LEMMA LogFitsStays ==
    ASSUME LogFits, GapsFit, UNCHANGED log
    PROVE  LogFits' /\ GapsFit'
    BY DEF LogFits, GapsFit, Longest, Chunks, Bytes

(* A reader that goes on has no fewer packets behind it.                   *)
LEMMA BehindGrows ==
    ASSUME Clean, FileShape, UNCHANGED sound, Position \in Nat, Position' \in Nat,
           Position <= Position', AllSoundBehind'
    PROVE  AllSoundBehind
<1> SUFFICES ASSUME NEW k \in 1 .. Packets, (k - 1) * PSize < Position PROVE k \in sound
    BY DEF AllSoundBehind
<1>1. (k - 1) * PSize \in Int
    BY Sizes
<1>2. (k - 1) * PSize < Position'
    BY <1>1
<1> QED BY <1>2 DEF AllSoundBehind

(* After an error nothing is said of the gap.                              *)
LEMMA ErrorFits ==
    ASSUME log' # <<>>, log'[Len(log')] = Err
    PROVE  GapFits'
    BY DEF GapFits, LastPacketEnds

(* read_one_packet keeps the invariant of any file.                        *)
LEMMA AnyRead ==
    ASSUME Clean, AnyFileInvariant, ReadOnePacket
    PROVE  AnyFileInvariant'
<1> DEFINE left == Len(file) - Position
           size == AtMost(PSize, left)
           buf  == putback \o Input(PSize - Len(putback))
<1>1. /\ FileShape /\ TypesOK /\ PutbackFits /\ LogFits /\ GapFits /\ CountFits /\ GapsFit
      /\ bytesRead <= Position /\ bytesRead \in Nat
    BY DEF AnyFileInvariant, TypesOK
<1>2. /\ Len(file) \in Nat /\ cursor \in 0 .. Len(file)
      /\ Position \in 0 .. Len(file) /\ cursor = Position + Len(putback)
      /\ putback = Bytes(Position, Len(putback)) /\ Len(putback) \in {0, ProbeLen}
    BY <1>1, PlaceFits
<1>3. /\ PSize \in Nat /\ PSize > 1 /\ Packets \in Nat /\ ResyncLimit \in Nat /\ ResyncLimit > 0
      /\ ProbeLen \in Nat /\ SyncOffset \in Nat
      /\ Packets * PSize <= Len(file) /\ Len(file) < (Packets * PSize) + PSize
      /\ \A n \in Nat : (n * PSize) + PSize <= Len(file) <=> n < Packets
    BY <1>1, Sizes, ShapeLength
<1>4. pc = "ready" /\ UNCHANGED <<file, sound, opened>>
    BY DEF ReadOnePacket
<1>5. buf = Bytes(Position, size) /\ size \in Nat /\ Len(buf) = size
      /\ (buf = <<>> <=> size = 0)
    <2>1. buf = Bytes(Position, size)
        BY <1>2, ReadBuffer
    <2>2. size \in Nat /\ Position \in Nat
        BY <1>2, <1>3 DEF AtMost
    <2> HIDE DEF size, buf
    <2> QED BY <2>1, <2>2, BytesProperties
<1>6. /\ cursor' = Position + size /\ putback' = <<>> /\ Position' = Position + size
      /\ cursor' \in 0 .. Len(file) /\ size <= left
    <2>1. cursor' = cursor + Len(buf) - Len(putback) /\ putback' = <<>>
        BY DEF ReadOnePacket
    <2>2. Len(putback) \in Int
        BY <1>2, <1>3
    <2>3. size <= left /\ Position + size \in 0 .. Len(file)
        BY <1>2, <1>3 DEF AtMost
    <2> HIDE DEF size, left, buf
    <2>4. cursor' = Position + size
        BY <2>1, <2>2, <1>2, <1>5
    <2>5. Position' = cursor' - 0
        BY <2>1 DEF Position
    <2> QED BY <2>1, <2>3, <2>4, <2>5, <1>2, <1>5
<1>7. FileShape' /\ PutbackFits'
    BY <1>1, <1>4, <1>6, ShapeStays DEF PutbackFits
<1>8. AllSoundBehind' => AllSoundBehind
    <2> HIDE DEF size, left
    <2>1. Position \in Nat /\ Position' \in Nat /\ Position <= Position'
        BY <1>2, <1>5, <1>6
    <2> QED BY <2>1, <1>1, <1>4, BehindGrows
<1>9. 0 \in 0 .. ResyncLimit
    BY <1>3
<1> HIDE DEF size, left, buf
<1>10. CASE size = 0
    <2>1. UNCHANGED <<pc, tries, log, bytesRead>> /\ eof' = TRUE
        BY <1>5, <1>10 DEF ReadOnePacket, buf
    <2>2. Position = Len(file) /\ Position' = Position /\ cursor' = Len(file)
        BY <1>2, <1>3, <1>6, <1>10 DEF AtMost, size, left
    <2>3. AtEnd'
        BY <2>1, <2>2, <1>4, <1>6 DEF AtEnd
    <2>4. GapFits'
        <3> SUFFICES ASSUME NEW e, LastPacketEnds(e)'
                     PROVE  \/ pc' = "ready" /\ Position' = e
                            \/ AtEnd' /\ (opened' \/ ~AllSoundBehind')
            BY DEF GapFits
        <3>1. LastPacketEnds(e)
            BY <2>1 DEF LastPacketEnds
        <3>2. (pc = "ready" /\ Position = e) \/ (opened \/ ~AllSoundBehind)
            BY <3>1, <1>1, <1>4 DEF GapFits
        <3> QED BY <3>2, <2>1, <2>2, <2>3, <1>4, <1>8
    <2>5. CountFits'
        <3> SUFFICES ASSUME ~opened, AllSoundBehind'
                     PROVE  /\ pc' = "ready"
                            /\ \E n \in 0 .. Packets :
                                   /\ bytesRead' = n * PSize
                                   /\ \/ cursor' = bytesRead'
                                      \/ /\ n = Packets /\ cursor' = Len(file)
                                         /\ log' # <<>> /\ log'[Len(log')] = Err
            BY <1>4, <1>6 DEF CountFits
        <3>1. /\ putback = <<>>
              /\ \E n \in 0 .. Packets :
                     /\ bytesRead = n * PSize
                     /\ \/ cursor = bytesRead
                        \/ /\ n = Packets /\ cursor = Len(file)
                           /\ log # <<>> /\ log[Len(log)] = Err
            BY <1>1, <1>8 DEF CountFits
        <3>2. Len(putback) = 0
            BY <3>1
        <3>3. cursor' = cursor
            BY <3>2, <2>2, <1>2
        <3> QED BY <3>1, <3>3, <2>1, <1>4
    <2>6. TypesOK'
        BY <2>1, <1>1, <1>4, <1>6, TypesNext DEF TypesOK
    <2>7. LogFits' /\ GapsFit' /\ bytesRead' <= Position'
        BY <2>1, <2>2, <1>1, LogFitsStays
    <2> QED BY <2>4, <2>5, <2>6, <2>7, <1>7 DEF AnyFileInvariant
<1>11. CASE 0 < size /\ size < PSize
    <2>1. Return(Err) /\ eof' = FALSE
        BY <1>5, <1>11 DEF ReadOnePacket, buf
    <2>2. /\ pc' = "ready" /\ tries' = 0 /\ log' = Append(log, Err) /\ bytesRead' = bytesRead
        BY <2>1 DEF Return
    <2>3. cursor' = Len(file) /\ Position' = Len(file) /\ Len(file) - Position < PSize
        BY <1>2, <1>3, <1>6, <1>11 DEF AtMost, size, left
    <2>4. LogFits' /\ GapsFit' /\ log' # <<>> /\ log'[Len(log')] = Err
        BY <2>2, <1>1, ReturnFits
    <2>5. GapFits'
        BY <2>4, ErrorFits
    <2>6. CountFits'
        <3> SUFFICES ASSUME ~opened, AllSoundBehind'
                     PROVE  bytesRead' = Packets * PSize
            BY <2>2, <2>3, <2>4, <1>3, <1>4, <1>6 DEF CountFits
        <3>1. putback = <<>>
            BY <1>1, <1>8 DEF CountFits
        <3>2. PICK n \in 0 .. Packets : bytesRead = n * PSize /\ (cursor = bytesRead \/ n = Packets)
            BY <1>1, <1>8 DEF CountFits
        <3>3. Len(putback) = 0
            BY <3>1
        <3>4. Position = cursor
            BY <3>3, <1>2
        <3>5. CASE n # Packets
            <4>1. n \in Nat /\ n < Packets
                BY <3>5, <1>3
            <4>2. (n * PSize) + PSize <= Len(file)
                BY <4>1, <1>3
            <4>3. Position = n * PSize
                BY <3>2, <3>4, <3>5
            <4> QED BY <4>2, <4>3, <2>3, <1>2, <1>3
        <3> QED BY <3>2, <3>5, <2>2
    <2>7. TypesOK'
        BY <2>1, <2>2, <1>1, <1>4, <1>6, <1>9, TypesNext
    <2>8. bytesRead' <= Position'
        BY <2>2, <2>3, <1>1, <1>2
    <2> QED BY <2>4, <2>5, <2>6, <2>7, <2>8, <1>7 DEF AnyFileInvariant
<1>12. CASE size = PSize
    <2>1. Position + PSize <= Len(file) /\ Position' = Position + PSize /\ Position \in Nat
        BY <1>2, <1>3, <1>6, <1>12 DEF left
    <2>2. /\ buf \in Chunks /\ buf # Err /\ buf[1] = Position + 1 /\ buf[PSize] = Position + PSize
          /\ IsSync(buf) <=> file[Position + SyncOffset + 1]
        BY <2>1, <1>5, <1>12, ChunkProperties
    <2>3. ASSUME NEW e, LastPacketEnds(e) PROVE e = Position
        <3>1. ~AtEnd
            <4>1. AtEnd => Position = Len(file)
                <5>1. AtEnd => Len(putback) = 0 /\ cursor = Len(file)
                    BY DEF AtEnd
                <5> QED BY <5>1, <1>2
            <4> QED BY <4>1, <2>1, <1>2, <1>3
        <3> QED BY <2>3, <3>1, <1>1, <1>4 DEF GapFits
    <2>4. ASSUME ~opened, AllSoundBehind'
          PROVE  \E n \in 0 .. Packets - 1 : bytesRead = n * PSize /\ Position = n * PSize
        <3>1. putback = <<>>
            BY <2>4, <1>1, <1>8 DEF CountFits
        <3>2. PICK n \in 0 .. Packets :
                  bytesRead = n * PSize /\ (cursor = bytesRead \/ cursor = Len(file))
            BY <2>4, <1>1, <1>8 DEF CountFits
        <3>3. Len(putback) = 0
            BY <3>1
        <3>4. Position = cursor
            BY <3>3, <1>2
        <3>5. Position = n * PSize
            BY <3>2, <3>4, <2>1, <1>2, <1>3
        <3>6. n \in Nat /\ (n * PSize) + PSize <= Len(file)
            BY <3>5, <2>1
        <3>7. n < Packets
            BY <3>6, <1>3
        <3>8. n \in 0 .. Packets - 1
            BY <3>6, <3>7, <1>3
        <3> QED BY <3>2, <3>5, <3>8
    <2>5. CASE IsSync(buf)
        <3>1. Return(buf) /\ eof' = FALSE
            BY <2>2, <2>5, <1>3, <1>5, <1>12 DEF ReadOnePacket, buf
        <3>2. /\ pc' = "ready" /\ tries' = 0 /\ log' = Append(log, buf)
              /\ bytesRead' = bytesRead + PSize
            BY <3>1, <2>2 DEF Return
        <3>3. LogFits' /\ GapsFit' /\ log' # <<>> /\ log'[Len(log')] = buf
            <4>1. Longest \in Nat
                BY <1>3, LongestBounds
            <4>2. buf[1] - Position - 1 = 0
                BY <2>1, <2>2
            <4>3. \A e : LastPacketEnds(e) => 0 <= buf[1] - e - 1 /\ buf[1] - e - 1 <= Longest
                BY <4>1, <4>2, <2>3
            <4> QED BY <4>3, <3>2, <2>2, <1>1, ReturnFits
        <3>4. GapFits'
            <4>1. ASSUME NEW e, LastPacketEnds(e)' PROVE Position' = e
                BY <4>1, <3>3, <2>1, <2>2 DEF LastPacketEnds
            <4> QED BY <4>1, <3>2 DEF GapFits
        <3>5. CountFits'
            <4> SUFFICES ASSUME ~opened, AllSoundBehind'
                         PROVE  \E n \in 0 .. Packets : bytesRead' = n * PSize /\ cursor' = bytesRead'
                BY <3>2, <1>4, <1>6 DEF CountFits
            <4>1. PICK n \in 0 .. Packets - 1 : bytesRead = n * PSize /\ Position = n * PSize
                BY <2>4
            <4>2. n + 1 \in 0 .. Packets /\ n \in Nat
                BY <1>3
            <4>3. (n + 1) * PSize = (n * PSize) + PSize
                BY <4>2, Multiples
            <4> QED BY <4>1, <4>2, <4>3, <3>2, <1>6, <1>12
        <3>6. bytesRead' \in Nat /\ bytesRead' <= Position'
            BY <3>2, <2>1, <1>1, <1>3
        <3>7. TypesOK'
            BY <3>1, <3>2, <3>6, <1>1, <1>4, <1>6, <1>9, TypesNext
        <3> QED BY <3>3, <3>4, <3>5, <3>6, <3>7, <1>7 DEF AnyFileInvariant
    <2>6. CASE ~IsSync(buf)
        <3>1. /\ pc' = "resync" /\ tries' = 0 /\ UNCHANGED <<log, bytesRead>>
              /\ eof' = FALSE
            BY <2>2, <2>6, <1>3, <1>5, <1>12 DEF ReadOnePacket, buf
        <3>2. GapFits'
            <4> SUFFICES ASSUME NEW e, LastPacketEnds(e)'
                         PROVE  /\ e + PSize <= Position'
                                /\ Position' <= e + PSize + (tries' * (PSize + ProbeLen))
                BY <3>1 DEF GapFits
            <4>1. e = Position
                BY <3>1, <2>3 DEF LastPacketEnds
            <4>2. tries' * (PSize + ProbeLen) = 0
                BY <3>1, <1>3
            <4> QED BY <4>1, <4>2, <2>1, <1>3
        <3>3. CountFits'
            <4> SUFFICES ASSUME ~opened, AllSoundBehind' PROVE FALSE
                BY <1>4 DEF CountFits
            <4>1. PICK n \in 0 .. Packets - 1 : Position = n * PSize
                BY <2>4
            <4>2. n + 1 \in 1 .. Packets /\ (n + 1) - 1 = n
                BY <1>3
            <4>3. ((n + 1) - 1) * PSize < Position'
                BY <4>1, <4>2, <2>1, <1>3
            <4>4. n + 1 \in sound
                BY <4>2, <4>3, <1>4 DEF AllSoundBehind
            <4>5. file[SyncAt(n)]
                BY <4>4, <1>1 DEF FileShape
            <4>6. SyncAt(n) = Position + SyncOffset + 1
                BY <4>1 DEF SyncAt
            <4> QED BY <4>5, <4>6, <2>2, <2>6
        <3>4. TypesOK'
            BY <3>1, <1>1, <1>4, <1>6, <1>9, TypesNext
        <3>5. LogFits' /\ GapsFit'
            BY <3>1, <1>1, LogFitsStays
        <3>6. bytesRead' <= Position'
            BY <3>1, <2>1, <1>1, <1>3
        <3> QED BY <3>2, <3>3, <3>4, <3>5, <3>6, <1>7 DEF AnyFileInvariant
    <2> QED BY <2>5, <2>6
<1> QED BY <1>5, <1>10, <1>11, <1>12, <1>2, <1>3 DEF AtMost, size, left

(* One chunk of resync keeps the invariant of any file: it is too short,   *)
(* it is rejected, or it is handed on.                                     *)
LEMMA AnyResync ==
    ASSUME Clean, AnyFileInvariant, ResyncChunk
    PROVE  AnyFileInvariant'
<1> DEFINE left  == Len(file) - cursor
           chunk == Input(PSize)
           ahead == Input(PSize + ProbeLen)
           probe == SubSeq(ahead, PSize + 1, Len(ahead))
           candidate == Len(chunk) = PSize /\ IsSync(chunk)
           confirmed == Len(probe) = ProbeLen /\ file[probe[ProbeLen]]
<1>1. /\ FileShape /\ TypesOK /\ PutbackFits /\ LogFits /\ GapFits /\ CountFits /\ GapsFit
      /\ bytesRead <= Position /\ bytesRead \in Nat /\ eof \in BOOLEAN
    BY DEF AnyFileInvariant, TypesOK
<1>2. /\ PSize \in Nat /\ PSize > 1 /\ ProbeLen \in Nat /\ ProbeLen >= 1
      /\ ResyncLimit \in Nat /\ 0 \in 0 .. ResyncLimit
    BY Sizes
<1>3. /\ pc = "resync" /\ tries < ResyncLimit /\ tries \in Nat
      /\ UNCHANGED <<file, sound, opened, eof>>
    BY <1>1, <1>2 DEF ResyncChunk, TypesOK
<1>4. /\ cursor' = cursor + (IF candidate THEN Len(ahead) ELSE Len(chunk))
      /\ putback' = IF candidate /\ confirmed THEN PushBack(probe) ELSE <<>>
      /\ IF Len(chunk) < PSize THEN Return(Err)
         ELSE IF ~candidate THEN Reject
         ELSE IF confirmed \/ Len(probe) < ProbeLen THEN Return(chunk)
         ELSE Reject
    BY DEF ResyncChunk
<1>5. /\ putback = <<>> /\ Position = cursor /\ cursor \in Nat
      /\ Len(file) \in Nat /\ cursor <= Len(file)
    <2>1. putback = <<>>
        BY <1>1, <1>3 DEF PutbackFits
    <2>2. Len(putback) = 0
        BY <2>1
    <2> QED BY <2>1, <2>2, <1>1, PlaceFits
<1>6. left \in Nat /\ cursor + left = Len(file)
    BY <1>5
<1>7. /\ Len(chunk) = AtMost(PSize, left) /\ (PSize <= left => chunk = Bytes(cursor, PSize))
      /\ Len(ahead) = AtMost(PSize + ProbeLen, left)
      /\ ahead = Bytes(cursor, AtMost(PSize + ProbeLen, left))
    <2> DEFINE a == AtMost(PSize, left)  b == AtMost(PSize + ProbeLen, left)
    <2>1. a \in Nat /\ b \in Nat /\ PSize + ProbeLen \in Nat /\ (PSize <= left => a = PSize)
        BY <1>2, <1>6 DEF AtMost
    <2>2. chunk = Bytes(cursor, a) /\ ahead = Bytes(cursor, b)
        BY <2>1, <1>2, InputIsBytes
    <2> HIDE DEF a, b, chunk, ahead, left
    <2>3. Len(chunk) = a /\ Len(ahead) = b
        BY <2>1, <2>2, <1>5, BytesProperties
    <2> QED BY <2>1, <2>2, <2>3 DEF a, b
<1>8. FileShape'
    BY <1>1, <1>3, ShapeStays
<1> HIDE DEF left, chunk, ahead, probe, candidate, confirmed
<1>9. ASSUME Position' \in Nat, Position <= Position'
      PROVE  CountFits' /\ (opened' \/ ~AllSoundBehind')
    <2>1. AllSoundBehind' => AllSoundBehind
        BY <1>1, <1>3, <1>5, <1>9, BehindGrows
    <2>2. opened \/ ~AllSoundBehind
        BY <1>1, <1>3 DEF CountFits
    <2> QED BY <2>1, <2>2, <1>3 DEF CountFits
<1>10. ASSUME NEW e, LastPacketEnds(e)
       PROVE  /\ e \in Nat /\ e + PSize <= cursor
              /\ cursor <= e + PSize + (tries * (PSize + ProbeLen))
    <2>1. ~AtEnd
        BY <1>3 DEF AtEnd
    <2> QED BY <2>1, <1>1, <1>3, <1>5, <1>10, EndIsNat DEF GapFits
<1> DEFINE passed == tries * (PSize + ProbeLen)
<1>11. /\ passed \in Nat /\ PSize + passed <= Longest /\ Longest \in Nat
       /\ (tries + 1) * (PSize + ProbeLen) = passed + PSize + ProbeLen
    BY <1>3, LongestBounds
<1>12. ASSUME NEW e, LastPacketEnds(e)
       PROVE  e \in Nat /\ e + PSize <= cursor /\ cursor <= e + PSize + passed
    BY <1>10, <1>12
<1> HIDE DEF passed
<1>13. CASE Len(chunk) < PSize
    <2>1. /\ cursor' = cursor + Len(chunk) /\ putback' = <<>> /\ Return(Err)
          /\ Len(chunk) = left
        BY <1>2, <1>4, <1>6, <1>7, <1>13 DEF candidate, AtMost
    <2>2. pc' = "ready" /\ tries' = 0 /\ log' = Append(log, Err) /\ bytesRead' = bytesRead
        BY <2>1 DEF Return
    <2>3. cursor' = Len(file)
        BY <2>1, <1>6
    <2>4. Len(putback') = 0
        BY <2>1
    <2>5. Position' = Len(file)
        BY <2>3, <2>4, <1>5 DEF Position
    <2>6. CountFits'
        BY <2>5, <1>5, <1>9
    <2>7. LogFits' /\ GapsFit' /\ log' # <<>> /\ log'[Len(log')] = Err
        BY <2>2, <1>1, ReturnFits
    <2>8. GapFits'
        BY <2>7, ErrorFits
    <2>9. TypesOK'
        <3>1. cursor' \in 0 .. Len(file)
            BY <2>3, <1>5
        <3> QED BY <3>1, <2>2, <1>1, <1>2, <1>3, TypesNext
    <2>10. bytesRead' <= Position' /\ PutbackFits'
        BY <2>1, <2>2, <2>5, <1>1, <1>5 DEF PutbackFits
    <2> QED BY <2>6, <2>7, <2>8, <2>9, <2>10, <1>8 DEF AnyFileInvariant
<1>14. ASSUME Reject, putback' = <<>>, NEW more \in Nat, cursor' = cursor + more,
              cursor + more <= Len(file), PSize <= more, more <= PSize + ProbeLen
       PROVE  AnyFileInvariant'
    <2>1. pc' = "resync" /\ tries' = tries + 1 /\ UNCHANGED <<log, bytesRead>>
        BY <1>14 DEF Reject
    <2>2. Len(putback') = 0
        BY <1>14
    <2>3. Position' = cursor + more
        BY <2>2, <1>5, <1>14 DEF Position
    <2>4. CountFits'
        BY <2>3, <1>5, <1>9
    <2>5. GapFits'
        <3> SUFFICES ASSUME NEW e, LastPacketEnds(e)'
                     PROVE  /\ e + PSize <= Position'
                            /\ Position' <= e + PSize + (tries' * (PSize + ProbeLen))
            BY <2>1 DEF GapFits
        <3>1. e \in Nat /\ e + PSize <= cursor /\ cursor <= e + PSize + passed
            BY <2>1, <1>12 DEF LastPacketEnds
        <3>2. tries' * (PSize + ProbeLen) = passed + PSize + ProbeLen
            BY <2>1, <1>11
        <3> QED BY <3>1, <3>2, <2>3, <1>2, <1>5, <1>11, <1>14
    <2>6. TypesOK'
        <3>1. cursor' \in 0 .. Len(file) /\ tries' \in 0 .. ResyncLimit
            BY <2>1, <1>2, <1>3, <1>5, <1>14
        <3> QED BY <3>1, <2>1, <1>1, <1>3, TypesNext
    <2>7. LogFits' /\ GapsFit'
        BY <2>1, <1>1, LogFitsStays
    <2>8. bytesRead' <= Position' /\ PutbackFits'
        BY <2>1, <2>3, <1>1, <1>5, <1>14 DEF PutbackFits
    <2> QED BY <2>4, <2>5, <2>6, <2>7, <2>8, <1>8 DEF AnyFileInvariant
<1>15. CASE Len(chunk) = PSize
    <2>1. PSize <= left /\ chunk = Bytes(cursor, PSize)
        BY <1>2, <1>6, <1>7, <1>15 DEF AtMost
    <2>2. /\ chunk \in Chunks /\ chunk # Err
          /\ chunk[1] = cursor + 1 /\ chunk[PSize] = cursor + PSize
        BY <2>1, <1>5, ChunkProperties
    <2>3. CASE ~candidate
        <3>1. cursor' = cursor + PSize /\ putback' = <<>> /\ Reject
            BY <2>3, <1>2, <1>4, <1>15
        <3>2. cursor + PSize <= Len(file) /\ PSize <= PSize + ProbeLen
            BY <2>1, <1>2, <1>5, <1>6
        <3> QED BY <3>1, <3>2, <1>2, <1>14
    <2>4. CASE candidate
        <3> DEFINE over == Len(ahead) - PSize
        <3>1. /\ over \in Nat /\ over <= ProbeLen /\ Len(ahead) = PSize + over
              /\ PSize + over <= left /\ (over < ProbeLen => PSize + over = left)
              /\ ahead = Bytes(cursor, PSize + over)
            BY <2>1, <1>2, <1>6, <1>7 DEF AtMost
        <3> HIDE DEF over
        <3>2. probe = Bytes(cursor + PSize, over)
            <4>1. SubSeq(Bytes(cursor, PSize + over), PSize + 1, PSize + over)
                      = Bytes(cursor + PSize, over)
                BY <3>1, <1>2, <1>5, BytesTail
            <4> QED BY <4>1, <3>1 DEF probe
        <3>3. Len(probe) = over
            <4>1. cursor + PSize \in Nat
                BY <1>2, <1>5
            <4> QED BY <4>1, <3>1, <3>2, BytesProperties
        <3>4. cursor' = cursor + PSize + over
            BY <2>4, <3>1, <1>2, <1>4, <1>5
        <3>5. CASE ~confirmed /\ ~(Len(probe) < ProbeLen)
            <4>1. Reject /\ putback' = <<>>
                BY <2>4, <3>5, <1>4, <1>15, <1>2
            <4>2. /\ PSize + over \in Nat /\ cursor' = cursor + (PSize + over)
                  /\ cursor + (PSize + over) <= Len(file)
                  /\ PSize <= PSize + over /\ PSize + over <= PSize + ProbeLen
                BY <3>1, <3>4, <1>2, <1>5, <1>6
            <4> QED BY <4>1, <4>2, <1>14
        <3>6. CASE confirmed \/ Len(probe) < ProbeLen
            <4>1. Return(chunk)
                BY <2>4, <3>6, <1>2, <1>4, <1>15
            <4>2. /\ pc' = "ready" /\ tries' = 0 /\ log' = Append(log, chunk)
                  /\ bytesRead' = bytesRead + PSize
                BY <4>1, <2>2 DEF Return
            <4>3. LogFits' /\ GapsFit' /\ log' # <<>> /\ log'[Len(log')] = chunk
                <5>1. ASSUME NEW e, LastPacketEnds(e)
                      PROVE  0 <= chunk[1] - e - 1 /\ chunk[1] - e - 1 <= Longest
                    <6>1. /\ e \in Nat /\ e + PSize <= cursor /\ cursor <= e + PSize + passed
                          /\ chunk[1] - e - 1 = cursor - e
                        BY <5>1, <2>2, <1>5, <1>12
                    <6> QED BY <6>1, <1>2, <1>5, <1>11
                <5> QED BY <5>1, <4>2, <2>2, <1>1, ReturnFits
            <4>4. cursor' \in 0 .. Len(file)
                BY <3>1, <3>4, <1>2, <1>5, <1>6
            <4>5. ASSUME Position' \in Nat, Position + PSize <= Position'
                  PROVE  /\ CountFits' /\ (opened' \/ ~AllSoundBehind')
                         /\ TypesOK' /\ bytesRead' <= Position'
                <5>1. bytesRead' \in Nat /\ bytesRead' <= Position' /\ Position <= Position'
                    BY <4>2, <4>5, <1>1, <1>2, <1>5
                <5>2. TypesOK'
                    BY <5>1, <4>2, <4>4, <1>1, <1>2, <1>3, TypesNext
                <5> QED BY <5>1, <5>2, <4>5, <1>9
            <4>6. CASE confirmed
                <5>1. over = ProbeLen /\ putback' = probe
                    BY <2>4, <3>3, <4>6, <1>4 DEF confirmed, PushBack
                <5>2. /\ cursor' = cursor + PSize + ProbeLen
                      /\ putback' = Bytes(cursor + PSize, ProbeLen)
                      /\ Len(putback') = ProbeLen
                    BY <5>1, <3>2, <3>3, <3>4
                <5>3. Position' = cursor + PSize
                    BY <5>2, <1>2, <1>5 DEF Position
                <5>4. cursor' - ProbeLen = cursor + PSize /\ ProbeLen <= cursor'
                    BY <5>2, <1>2, <1>5
                <5>5. PutbackFits'
                    BY <5>2, <5>4, <4>2 DEF PutbackFits
                <5>6. GapFits'
                    <6>1. ASSUME NEW e, LastPacketEnds(e)' PROVE Position' = e
                        BY <6>1, <5>3, <4>3, <2>2 DEF LastPacketEnds
                    <6> QED BY <6>1, <4>2 DEF GapFits
                <5>7. Position' \in Nat /\ Position + PSize <= Position'
                    BY <5>3, <1>2, <1>5
                <5> QED BY <5>5, <5>6, <5>7, <4>3, <4>5, <1>8 DEF AnyFileInvariant
            <4>7. CASE ~confirmed /\ Len(probe) < ProbeLen
                <5>1. cursor' = Len(file) /\ putback' = <<>>
                    BY <4>7, <3>1, <3>3, <3>4, <1>2, <1>4, <1>5, <1>6
                <5>2. Len(putback') = 0
                    BY <5>1
                <5>3. Position' = Len(file)
                    BY <5>1, <5>2, <1>5 DEF Position
                <5>4. Position' \in Nat /\ Position + PSize <= Position'
                    BY <5>3, <2>1, <1>2, <1>5, <1>6
                <5>5. AtEnd'
                    BY <5>1, <4>2, <1>3 DEF AtEnd
                <5>6. GapFits'
                    BY <5>4, <5>5, <4>5 DEF GapFits
                <5>7. PutbackFits'
                    BY <5>1 DEF PutbackFits
                <5> QED BY <5>4, <5>6, <5>7, <4>3, <4>5, <1>8 DEF AnyFileInvariant
            <4> QED BY <3>6, <4>6, <4>7
        <3> QED BY <3>5, <3>6
    <2> QED BY <2>3, <2>4
<1>16. Len(chunk) < PSize \/ Len(chunk) = PSize
    BY <1>2, <1>6, <1>7 DEF AtMost
<1> QED BY <1>13, <1>15, <1>16

(* A resync that gives up keeps it.                                        *)
LEMMA AnyFails ==
    ASSUME Clean, AnyFileInvariant, ResyncFails
    PROVE  AnyFileInvariant'
<1>1. /\ FileShape /\ TypesOK /\ PutbackFits /\ LogFits /\ CountFits /\ GapsFit
      /\ bytesRead <= Position
    BY DEF AnyFileInvariant
<1>2. /\ pc = "resync" /\ pc' = "ready" /\ tries' = 0 /\ log' = Append(log, Err)
      /\ UNCHANGED <<file, sound, cursor, putback, bytesRead, opened, eof>>
    BY DEF ResyncFails, Return
<1>3. Position' = Position
    BY <1>2 DEF Position
<1>4. LogFits' /\ GapsFit' /\ log' # <<>> /\ log'[Len(log')] = Err
    BY <1>1, <1>2, ReturnFits
<1>5. GapFits'
    BY <1>4, ErrorFits
<1>6. CountFits'
    BY <1>1, <1>2, <1>3 DEF CountFits, AllSoundBehind
<1>7. FileShape' /\ PutbackFits'
    BY <1>1, <1>2, ShapeStays DEF PutbackFits
<1>8. TypesOK'
    <2>1. 0 \in 0 .. ResyncLimit
        BY Sizes
    <2>2. cursor' \in 0 .. Len(file) /\ bytesRead' \in Nat /\ eof' \in BOOLEAN
        BY <1>1, <1>2 DEF TypesOK
    <2> QED BY <2>1, <2>2, <1>1, <1>2, TypesNext
<1> QED BY <1>1, <1>2, <1>3, <1>4, <1>5, <1>6, <1>7, <1>8 DEF AnyFileInvariant

(* open() puts the input back where the reader is, or where it met the     *)
(* tail.                                                                   *)
LEMMA AnyFinish ==
    ASSUME Clean, AnyFileInvariant, FinishOpen
    PROVE  AnyFileInvariant'
<1>1. /\ FileShape /\ TypesOK /\ PutbackFits /\ LogFits /\ GapFits /\ CountFits /\ GapsFit
      /\ bytesRead <= Position /\ bytesRead \in Nat
    BY DEF AnyFileInvariant, TypesOK
<1>2. /\ ~opened /\ pc = "ready" /\ opened' = TRUE /\ cursor' = bytesRead
      /\ UNCHANGED <<file, sound, putback, bytesRead, pc, tries, log, eof>>
    BY DEF FinishOpen
<1>3. AllSoundBehind
    BY DEF FinishOpen, AllSoundBehind, Clean
<1>4. putback = <<>> /\ (cursor = bytesRead \/ (log # <<>> /\ log[Len(log)] = Err))
    BY <1>1, <1>2, <1>3 DEF CountFits
<1>5. Len(putback) = 0 /\ Len(putback') = 0
    BY <1>2, <1>4
<1>6. /\ Position = cursor /\ Position' = bytesRead /\ Position \in 0 .. Len(file)
      /\ Len(file) \in Nat
    BY <1>1, <1>2, <1>5, PlaceFits DEF Position
<1>7. cursor' \in 0 .. Len(file)
    BY <1>1, <1>2, <1>6
<1>8. FileShape' /\ PutbackFits' /\ LogFits' /\ GapsFit'
    BY <1>1, <1>2, <1>4, ShapeStays, LogFitsStays DEF PutbackFits
<1>9. GapFits'
    <2>1. ASSUME NEW e, LastPacketEnds(e)' PROVE Position' = e
        <3>1. LastPacketEnds(e)
            BY <2>1, <1>2 DEF LastPacketEnds
        <3>2. Position = e
            BY <3>1, <1>1, <1>2, <1>3 DEF GapFits
        <3>3. cursor = bytesRead
            BY <3>1, <1>4 DEF LastPacketEnds
        <3> QED BY <3>2, <3>3, <1>6
    <2> QED BY <2>1, <1>2 DEF GapFits
<1>10. CountFits' /\ bytesRead' <= Position'
    BY <1>1, <1>2, <1>6 DEF CountFits
<1>11. TypesOK'
    BY <1>1, <1>2, <1>7 DEF TypesOK
<1> QED BY <1>8, <1>9, <1>10, <1>11 DEF AnyFileInvariant

(* The invariant of any file holds of a file just opened.                  *)
LEMMA AnyBegins ==
    ASSUME Clean, Init
    PROVE  AnyFileInvariant
<1>1. /\ cursor = 0 /\ putback = <<>> /\ bytesRead = 0 /\ pc = "ready" /\ tries = 0
      /\ log = <<>> /\ opened = FALSE /\ eof = FALSE
    BY DEF Init
<1>2. FileShape
    BY InitialShape
<1>3. Len(file) \in Nat /\ Packets \in Nat /\ ResyncLimit \in Nat /\ PSize \in Nat
    BY <1>2, Sizes, ShapeLength
<1>4. Position = 0
    <2>1. Len(putback) = 0 /\ cursor = 0
        BY <1>1
    <2> HIDE <1>1
    <2> QED BY <2>1 DEF Position
<1>5. TypesOK
    <2>1. cursor \in 0 .. Len(file) /\ bytesRead \in Nat /\ tries \in 0 .. ResyncLimit
        BY <1>1, <1>3
    <2> QED BY <2>1, <1>1 DEF TypesOK
<1>6. LogFits /\ GapsFit
    <2>1. log \in Seq({Err} \cup Chunks) /\ 1 .. Len(log) - 1 = {}
        BY <1>1, EmptySeq
    <2> QED BY <2>1 DEF LogFits, GapsFit
<1>7. PutbackFits /\ GapFits
    BY <1>1 DEF PutbackFits, GapFits, LastPacketEnds
<1>8. CountFits
    <2>1. 0 \in 0 .. Packets /\ bytesRead = 0 * PSize
        BY <1>1, <1>3
    <2> QED BY <2>1, <1>1 DEF CountFits
<1>9. bytesRead <= Position
    BY <1>1, <1>4
<1> QED BY <1>2, <1>5, <1>6, <1>7, <1>8, <1>9 DEF AnyFileInvariant

(* The invariant of any file is inductive.                                 *)
LEMMA AnyStep ==
    ASSUME Clean, AnyFileInvariant, [Next]_vars
    PROVE  AnyFileInvariant'
<1>1. CASE Next
    BY <1>1, AnyRead, AnyResync, AnyFails, AnyFinish DEF Next
<1>2. CASE UNCHANGED vars
    <2>1. /\ UNCHANGED <<file, sound, cursor, putback, bytesRead>>
          /\ UNCHANGED <<pc, tries, log, opened, eof>>
        BY <1>2 DEF vars
    <2>2. FileShape' /\ LogFits' /\ GapsFit' /\ Position' = Position
        BY <2>1, ShapeStays, LogFitsStays DEF AnyFileInvariant, Position
    <2>3. TypesOK' /\ PutbackFits' /\ CountFits' /\ bytesRead' <= Position'
        BY <2>1, <2>2
        DEF AnyFileInvariant, TypesOK, PutbackFits, CountFits, AllSoundBehind
    <2>4. GapFits'
        BY <2>1, <2>2 DEF AnyFileInvariant, GapFits, LastPacketEnds, AtEnd, AllSoundBehind
    <2> QED BY <2>2, <2>3, <2>4 DEF AnyFileInvariant
<1> QED BY <1>1, <1>2

------------------------------------------------------------------------------
(* The theorems.                                                           *)

(* What is known of the reader: more in a clear file than in any.          *)
ReadsWell == AnyFileInvariant /\ (Clear => ReaderInvariant)

LEMMA ClearStays ==
    ASSUME [Next]_vars
    PROVE  UNCHANGED <<file, sound>> /\ (Clear' <=> Clear)
<1>1. UNCHANGED <<file, sound>>
    BY DEF vars, Next, ReadOnePacket, ResyncChunk, ResyncFails, FinishOpen
<1> QED BY <1>1 DEF Clear, Lone

LEMMA ReadsWellBegins ==
    ASSUME Clean, Init
    PROVE  ReadsWell
    BY AnyBegins, InitialInvariant DEF ReadsWell

LEMMA ReadsWellGoesOn ==
    ASSUME Clean, ReadsWell, [Next]_vars
    PROVE  ReadsWell'
    BY AnyStep, StepKeepsInvariant, ClearStays DEF ReadsWell

(* It bounds what TypeOK bounds, and what is passed over.                  *)
LEMMA ReadsWellGives ==
    ASSUME Clean, ReadsWell
    PROVE  TypeOK /\ LongCorruptionIsReported
<1>1. FileShape /\ TypesOK /\ PutbackFits /\ GapsFit /\ bytesRead <= Position
    BY DEF ReadsWell, AnyFileInvariant
<1>2. /\ Position \in 0 .. Len(file) /\ Len(putback) \in {0, ProbeLen} /\ Len(file) \in Nat
    BY <1>1, PlaceFits
<1>3. bytesRead \in 0 .. Len(file)
    BY <1>1, <1>2 DEF TypesOK
<1>4. TypeOK
    BY <1>1, <1>2, <1>3 DEF TypeOK, TypesOK, FileShape
<1>5. Clear => GapsOnGrid
    BY DEF ReadsWell, ReaderInvariant
<1>6. LongCorruptionIsReported
    <2> SUFFICES ASSUME NEW i \in 1 .. Len(log) - 1, log[i] # Err, log[i + 1] # Err
                 PROVE  LET passed == log[i + 1][1] - log[i][PSize] - 1
                        IN  /\ passed >= 0
                            /\ passed <= PSize + (ResyncLimit - 1) * (PSize + ProbeLen)
                            /\ Clear => passed <= ResyncLimit * PSize
        BY DEF LongCorruptionIsReported
    <2> DEFINE passed == log[i + 1][1] - log[i][PSize] - 1
    <2>1. 0 <= passed /\ passed <= PSize + (ResyncLimit - 1) * (PSize + ProbeLen)
        BY <1>1 DEF GapsFit, Longest
    <2>2. Clear => passed <= ResyncLimit * PSize
        BY <1>5 DEF GapsOnGrid
    <2> HIDE DEF passed
    <2>3. passed >= 0
        BY <2>1
    <2> QED BY <2>1, <2>2, <2>3 DEF passed
<1> QED BY <1>4, <1>6

(* In every file whose corruption begins behind open(), whatever bytes are *)
(* 0x47 by coincidence, one in the place of a corrupted packet's sync byte *)
(* included: no byte is handed on twice, and what is passed over without   *)
(* an error between two packets is bounded by RESYNC_PACKET_LIMIT chunks,  *)
(* each of a packet and, if it looked like one, the probe behind it; in a  *)
(* clear file by that many packets (demuxer.rs: read_one_packet, resync).  *)
(* For every packet size, sync offset and limit.                           *)
THEOREM CorruptionIsReported ==
    ASSUME Clean
    PROVE  Spec => [](TypeOK /\ LongCorruptionIsReported)
<1>1. Init => ReadsWell
    BY ReadsWellBegins
<1>2. ReadsWell /\ [Next]_vars => ReadsWell'
    BY ReadsWellGoesOn
<1>3. ReadsWell => TypeOK /\ LongCorruptionIsReported
    BY ReadsWellGives
<1> QED BY <1>1, <1>2, <1>3, PTL DEF Spec

(* In a clear file the reader implements the safety half of Delivery: the  *)
(* packets that are not corrupted are handed on in their order and once    *)
(* each, none is skipped, and nothing that is not one of them is handed on *)
(* (demuxer.rs: read_one_packet, resync, with_selector).                   *)
THEOREM SoundPacketsInOrder ==
    ASSUME Clean
    PROVE  Clear /\ Spec => D!Init /\ [][D!Deliver]_<<sound, Numbers>>
<1> DEFINE Inv == ReaderInvariant /\ DeliveredOK
<1>1. Clear /\ Init => Inv /\ D!Init
    BY InitialInvariant, DeliveryBegins
<1>2. Inv /\ [Next]_vars => Inv' /\ [D!Deliver]_<<sound, Numbers>>
    BY StepKeepsInvariant, StepDelivers
<1> QED BY <1>1, <1>2, PTL DEF Spec

==============================================================================
