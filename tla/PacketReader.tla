---------------------------- MODULE PacketReader ----------------------------
(***************************************************************************)
(* How the demuxer (demuxer.rs: read_one_packet, resync, the end of        *)
(* with_selector) takes packets out of a file in which some packets are    *)
(* corrupted in place, and finds the packet grid again.                    *)
(*                                                                         *)
(* The file is a sequence of bytes of which only one thing matters: is it  *)
(* the sync byte 0x47.  A sound packet has one at SyncOffset, and any      *)
(* other byte may be one by coincidence, the one in that place of a        *)
(* corrupted packet included.  A packet handed on is recorded as the       *)
(* positions of its bytes.                                                 *)
(***************************************************************************)
EXTENDS Integers, Sequences

CONSTANTS
    PSize,          \* TsPacketLayout::packet_size
    SyncOffset,     \* TsPacketLayout::sync_offset
    Packets,        \* packets in the file
    ResyncLimit,    \* RESYNC_PACKET_LIMIT
    Coincidences,   \* most bytes that are 0x47 by coincidence
    CorruptHeader   \* TRUE: corruption may fall before the end of open()

LayoutAssumption ==
    PSize \in Nat /\ SyncOffset \in 0 .. PSize - 2 /\ ResyncLimit \in Nat \ {0}
FileAssumption ==
    Packets \in Nat /\ Coincidences \in Nat /\ CorruptHeader \in BOOLEAN

VARIABLES
    file,       \* for each position, whether the byte is 0x47
    sound,      \* the packets that are not corrupted
    cursor,     \* bytes of the input consumed
    putback,    \* positions of the bytes put back
    bytesRead,  \* the demuxer's count of bytes
    pc,         \* "ready" between calls, "resync" within one
    tries,      \* chunks the running resync has rejected
    log,        \* what the calls returned: a packet, or <<>> for an error
    opened,     \* with_selector has returned
    eof

vars == <<file, sound, cursor, putback, bytesRead, pc, tries, log, opened, eof>>

Err       == <<>>
PacketAt(k) == [j \in 1 .. PSize |-> (k - 1) * PSize + j]
ProbeLen  == SyncOffset + 1

(* The next n bytes of the input, or what is left of them. *)
Input(n) == LET left == Len(file) - cursor IN
            [j \in 1 .. (IF n < left THEN n ELSE left) |-> cursor + j]

IsSync(chunk) == file[chunk[SyncOffset + 1]]

------------------------------------------------------------------------------
(* Files.  The last packet may be followed by a truncated sound one.       *)
SyncPosition(k) == (k - 1) * PSize + SyncOffset + 1

Coincidental ==
    {{}} \cup {{b[i] : i \in 1 .. Coincidences} :
                   b \in [1 .. Coincidences -> 1 .. Packets * PSize]}

FileOf(s, tail, c) ==
    [i \in 1 .. Packets * PSize + tail |->
        i \in c \/ i \in {SyncPosition(k) : k \in s \cup {Packets + 1}}]

Files(s) == {FileOf(s, tail, c) : tail \in {0, 1, PSize - 1}, c \in Coincidental}

Init ==
    /\ sound \in SUBSET (1 .. Packets)
    /\ file \in Files(sound)
    /\ cursor = 0 /\ putback = <<>> /\ bytesRead = 0
    /\ pc = "ready" /\ tries = 0
    /\ log = <<>> /\ opened = FALSE /\ eof = FALSE

Return(result) ==
    /\ pc' = "ready" /\ tries' = 0
    /\ log' = Append(log, result)
    /\ bytesRead' = IF result = Err THEN bytesRead ELSE bytesRead + PSize

(* read_one_packet up to the call of resync: putback is drained first. *)
ReadOnePacket ==
    /\ pc = "ready" /\ ~eof
    /\ LET buf == putback \o Input(PSize - Len(putback)) IN
       /\ cursor' = cursor + Len(buf) - Len(putback)
       /\ putback' = <<>>
       /\ IF buf = <<>>                                       \* Ok(None)
          THEN eof' = TRUE /\ UNCHANGED <<pc, tries, log, bytesRead>>
          ELSE /\ eof' = FALSE
               /\ IF Len(buf) < PSize THEN Return(Err)        \* short read
                  ELSE IF IsSync(buf) THEN Return(buf)
                  ELSE pc' = "resync" /\ tries' = 0 /\ UNCHANGED <<log, bytesRead>>
    /\ UNCHANGED <<file, sound, opened>>

(* One turn of the loop of resync: a chunk, and after a candidate the      *)
(* bytes up to the sync byte of the packet after it.                       *)
RejectUncounted ==               \* mutant: the chunk is not counted
    pc' = "resync" /\ tries' = tries /\ UNCHANGED <<log, bytesRead>>

Reject == pc' = "resync" /\ tries' = tries + 1 /\ UNCHANGED <<log, bytesRead>>

PushBackNothing(probe) == <<>>   \* mutant: the probed bytes are dropped
PushBack(probe) == probe         \* the probed bytes are the head of the next packet

ResyncChunk ==
    /\ pc = "resync" /\ tries < ResyncLimit
    /\ LET chunk == Input(PSize)
           ahead == Input(PSize + ProbeLen)
           probe == SubSeq(ahead, PSize + 1, Len(ahead))
           candidate == Len(chunk) = PSize /\ IsSync(chunk)
           confirmed == Len(probe) = ProbeLen /\ file[probe[ProbeLen]]
       IN  /\ cursor' = cursor + (IF candidate THEN Len(ahead) ELSE Len(chunk))
           /\ putback' = IF candidate /\ confirmed THEN PushBack(probe) ELSE <<>>
           /\ IF Len(chunk) < PSize THEN Return(Err)
              ELSE IF ~candidate THEN Reject
              ELSE IF confirmed \/ Len(probe) < ProbeLen THEN Return(chunk)
              ELSE Reject
    /\ UNCHANGED <<file, sound, opened, eof>>

ResyncFails ==
    /\ pc = "resync" /\ tries = ResyncLimit
    /\ Return(Err)
    /\ UNCHANGED <<file, sound, cursor, putback, opened, eof>>

(* The end of with_selector: after the duration probe the input is put at  *)
(* bytes_read; putback stays as it is.                                     *)
Position == cursor - Len(putback)

FinishOpen ==
    /\ ~opened /\ pc = "ready" /\ ~eof /\ log # <<>>
    /\ CorruptHeader \/ \A k \in 1 .. Packets : (k - 1) * PSize < Position => k \in sound
    /\ opened' = TRUE
    /\ cursor' = bytesRead
    /\ UNCHANGED <<file, sound, putback, bytesRead, pc, tries, log, eof>>

Next == ReadOnePacket \/ ResyncChunk \/ ResyncFails \/ FinishOpen

Spec == Init /\ [][Next]_vars /\ WF_vars(ReadOnePacket \/ ResyncChunk \/ ResyncFails)

------------------------------------------------------------------------------
TypeOK ==
    /\ sound \subseteq 1 .. Packets
    /\ cursor \in 0 .. Len(file)
    /\ Len(putback) \in {0, ProbeLen}
    /\ bytesRead \in 0 .. Len(file)
    /\ pc \in {"ready", "resync"} /\ tries \in 0 .. ResyncLimit
    /\ opened \in BOOLEAN /\ eof \in BOOLEAN

(* The numbers of the packets handed on; one off the grid has a number no   *)
(* packet has.                                                             *)
Number(r) == IF \E k \in 1 .. Packets : PacketAt(k) = r
             THEN CHOOSE k \in 1 .. Packets : PacketAt(k) = r ELSE Packets + 1
Numbers ==
    LET upTo[i \in 0 .. Len(log)] ==
            IF i = 0 THEN <<>>
            ELSE IF log[i] = Err THEN upTo[i - 1]
            ELSE Append(upTo[i - 1], Number(log[i]))
    IN  upTo[Len(log)]

(* A file is clear if its corruption never looks like a packet: nothing is *)
(* a sync byte in the place of a corrupted packet's, and no sound packet   *)
(* stands alone between two corrupted ones.                                *)
Lone(k) == k \in sound /\ k - 1 \in (1 .. Packets) \ sound /\ k + 1 \in (1 .. Packets) \ sound
Clear ==
    /\ \A k \in sound : ~Lone(k)
    /\ \A k \in (1 .. Packets) \ sound : ~file[SyncPosition(k)]

(* RESYNC_PACKET_LIMIT: no more than the limit is passed over without an   *)
(* error, and nothing is handed on twice.  A chunk that looks like a       *)
(* packet and is not confirmed takes the probed bytes with it, and the     *)
(* reader off the grid, so in a file that is not clear the limit of chunks *)
(* is more than that of packets.                                           *)
LongCorruptionIsReported ==
    \A i \in 1 .. Len(log) - 1 :
        log[i] # Err /\ log[i + 1] # Err =>
            LET passed == log[i + 1][1] - log[i][PSize] - 1
            IN  /\ passed >= 0
                /\ passed <= PSize + (ResyncLimit - 1) * (PSize + ProbeLen)
                /\ Clear => passed <= ResyncLimit * PSize

==============================================================================
