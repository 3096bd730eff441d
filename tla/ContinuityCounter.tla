-------------------------- MODULE ContinuityCounter --------------------------
(***************************************************************************)
(* The continuity counter of one PID, from the muxer that stamps it to the *)
(* ContinuityTracker (clock.rs) that classifies it on the other side of a  *)
(* channel that loses packets and repeats them.                            *)
(*                                                                         *)
(* The sender is a track of the muxer (muxer.rs): `cc' holds the counter   *)
(* of the NEXT payload packet, a PCR-only packet carries the value before  *)
(* it and does not advance it, and an armed time-base discontinuity rides  *)
(* the next packet that carries a PCR.  The receiver keeps the counter of  *)
(* the last payload packet only, and has to tell a repeated packet from a  *)
(* lost one by a number that wraps at CCMod (16 in the code).              *)
(*                                                                         *)
(* `missing', `held', `copies' and `truth' are history variables: they say *)
(* what really happened to the packets, which no receiver can see.         *)
(***************************************************************************)
EXTENDS Integers

CONSTANTS
    CCMod,      \* values of the counter, 16 in the code
    MaxBurst,   \* most payload packets the channel loses in a row
    MaxCopies   \* most times the channel repeats one packet

ASSUME CCModAssumption == CCMod \in Nat /\ CCMod >= 3
ASSUME MaxBurstAssumption == MaxBurst \in 0 .. CCMod - 2
ASSUME MaxCopiesAssumption == MaxCopies \in Nat

VARIABLES
    cc,                     \* muxer: counter of the next payload packet
    pendingDiscontinuity,   \* muxer: a discontinuity waits for a PCR
    lastPayloadCC,          \* tracker: counter of the last payload packet
    duplicateAlreadySeen,   \* tracker: that packet was already repeated
    event,                  \* tracker: what observe() last returned
    missing,    \* history: payload packets lost since the tracker's anchor
    sent,       \* history: the packet just written, which may be repeated
    held,       \* history: `sent' has reached the tracker
    copies,     \* history: how often `sent' was repeated
    truth       \* history: what an observer who sees everything would say

mux     == <<cc, pendingDiscontinuity>>
tracker == <<lastPayloadCC, duplicateAlreadySeen, event>>
history == <<missing, sent, held, copies, truth>>
vars    == <<mux, tracker, history>>

Counters == 0 .. CCMod - 1
NoCC     == CCMod                \* Option<u8>::None

(* Counter arithmetic: (c + 1) & 0x0F, and (c - e) & 0x0F. *)
SuccCC(c)   == IF c + 1 = CCMod THEN 0 ELSE c + 1
PredCC(c)   == IF c = 0 THEN CCMod - 1 ELSE c - 1

GapUnmasked(c, e) == c - e       \* mutant: the gap is not taken modulo 16
GapCC(c, e) == IF c >= e THEN c - e ELSE c - e + CCMod

Packets  == [cc : Counters, payload : BOOLEAN, di : BOOLEAN]
NoPacket == [cc |-> 0, payload |-> FALSE, di |-> FALSE]

Event(kind, gap) == [kind |-> kind, gap |-> gap]
Events == [kind : {"None", "Continuous", "Duplicate", "NoPayload",
                   "Discontinuity", "Dropped"},
           gap : 0 .. CCMod]

------------------------------------------------------------------------------
(* ContinuityTracker::observe: the event, the anchor and the flag after p. *)

Classify(p) ==
    IF p.di THEN Event("Discontinuity", 0)
    ELSE IF ~p.payload THEN Event("NoPayload", 0)
    ELSE IF lastPayloadCC = NoCC THEN Event("Continuous", 0)
    ELSE IF p.cc = SuccCC(lastPayloadCC) THEN Event("Continuous", 0)
    ELSE IF p.cc = lastPayloadCC /\ ~duplicateAlreadySeen
         THEN Event("Duplicate", 0)
    ELSE Event("Dropped", GapCC(p.cc, SuccCC(lastPayloadCC)))

Observe(p) ==
    /\ event' = Classify(p)
    /\ lastPayloadCC' = IF p.payload THEN p.cc
                        ELSE IF p.di THEN NoCC ELSE lastPayloadCC
    /\ duplicateAlreadySeen' =
           IF Classify(p).kind = "NoPayload" THEN duplicateAlreadySeen
           ELSE Classify(p).kind = "Duplicate"

(* What really happened when a payload packet that was not seen before     *)
(* arrives after n lost ones.                                              *)
Truth(p, n) ==
    IF p.di THEN Event("Discontinuity", 0)
    ELSE IF lastPayloadCC = NoCC \/ n = 0 THEN Event("Continuous", 0)
    ELSE Event("Dropped", n)

------------------------------------------------------------------------------
Init ==
    /\ cc = 0
    /\ pendingDiscontinuity = FALSE
    /\ lastPayloadCC = NoCC
    /\ duplicateAlreadySeen = FALSE
    /\ event = Event("None", 0)
    /\ missing = 0
    /\ sent = NoPacket
    /\ held = FALSE
    /\ copies = 0
    /\ truth = Event("None", 0)

(* Muxer::signal_time_base_discontinuity. *)
SignalDiscontinuity ==
    /\ pendingDiscontinuity' = TRUE
    /\ UNCHANGED <<cc, tracker, history>>

(* One packet of write_pes_bytes_as_ts; hasPcr is pcr_here.is_some().      *)
PayloadPacket(hasPcr) ==
    [cc |-> cc, payload |-> TRUE, di |-> hasPcr /\ pendingDiscontinuity]

StampPayload(hasPcr) ==
    /\ cc' = SuccCC(cc)
    /\ pendingDiscontinuity' = (pendingDiscontinuity /\ ~hasPcr)

(* emit_pcr_only: no payload, the counter of the previous payload packet.  *)
PcrOnlyPacket == [cc |-> PredCC(cc), payload |-> FALSE, di |-> pendingDiscontinuity]

StampPcrOnly ==
    /\ pendingDiscontinuity' = FALSE
    /\ cc' = cc

PayloadDelivered(hasPcr) ==
    LET p == PayloadPacket(hasPcr) IN
    /\ StampPayload(hasPcr)
    /\ Observe(p)
    /\ truth' = Truth(p, missing)
    /\ missing' = 0
    /\ sent' = p /\ held' = TRUE /\ copies' = 0

PayloadLost(hasPcr) ==
    /\ missing < MaxBurst
    /\ StampPayload(hasPcr)
    /\ missing' = IF lastPayloadCC = NoCC THEN 0 ELSE missing + 1
    /\ sent' = PayloadPacket(hasPcr) /\ held' = FALSE /\ copies' = 0
    /\ UNCHANGED <<tracker, truth>>

PcrOnlyDelivered ==
    LET p == PcrOnlyPacket IN
    /\ StampPcrOnly
    /\ Observe(p)
    /\ truth' = IF p.di THEN Event("Discontinuity", 0) ELSE Event("NoPayload", 0)
    /\ missing' = IF p.di THEN 0 ELSE missing
    /\ sent' = p /\ held' = TRUE /\ copies' = 0

PcrOnlyLost ==
    /\ StampPcrOnly
    /\ sent' = PcrOnlyPacket /\ held' = FALSE /\ copies' = 0
    /\ UNCHANGED <<tracker, missing, truth>>

(* The channel delivers the payload packet it was just given again: as a   *)
(* duplicate of a packet that arrived, or as the only copy that gets       *)
(* through.  Two duplicates are one too many (section 2.4.3.3): the second *)
(* and every later one is a drop, with a whole turn of the counter.        *)
Repeat ==
    /\ sent.payload
    /\ copies < MaxCopies
    /\ Observe(sent)
    /\ truth' = IF held /\ ~sent.di
                THEN IF copies = 0 THEN Event("Duplicate", 0)
                     ELSE Event("Dropped", CCMod - 1)
                ELSE Truth(sent, IF missing = 0 THEN 0 ELSE missing - 1)
    /\ missing' = 0
    /\ held' = TRUE
    /\ copies' = IF held THEN copies + 1 ELSE 0
    /\ UNCHANGED <<mux, sent>>

Next ==
    \/ SignalDiscontinuity
    \/ \E hasPcr \in BOOLEAN : PayloadDelivered(hasPcr) \/ PayloadLost(hasPcr)
    \/ PcrOnlyDelivered
    \/ PcrOnlyLost
    \/ Repeat

Spec == Init /\ [][Next]_vars

------------------------------------------------------------------------------
TypeOK ==
    /\ cc \in Counters
    /\ pendingDiscontinuity \in BOOLEAN
    /\ lastPayloadCC \in Counters \cup {NoCC}
    /\ duplicateAlreadySeen \in BOOLEAN
    /\ event \in Events
    /\ missing \in 0 .. MaxBurst
    /\ sent \in Packets
    /\ held \in BOOLEAN
    /\ copies \in 0 .. MaxCopies
    /\ truth \in Events

(* The counter c is n + 1 packets ahead of the counter a. *)
Ahead(a, n, c) == c = IF a + 1 + n < CCMod THEN a + 1 + n ELSE a + 1 + n - CCMod

(* The counter the tracker holds is behind the sender's by exactly the     *)
(* packets that were lost since: no repeat, PCR-only packet or             *)
(* discontinuity ever moves the anchor of ContinuityTracker off the sender *)
(* (a PCR-only packet that moved it would turn the next packet into a      *)
(* drop or hide a loss).                                                   *)
AnchorTracksSender ==
    lastPayloadCC # NoCC => Ahead(lastPayloadCC, missing, cc)

(* What ContinuityTracker::observe reports is what happened: every loss is *)
(* reported with its exact size, a packet is called a duplicate only when  *)
(* it already arrived, and nothing else is reported as a loss.  The bound  *)
(* MaxBurst <= CCMod - 2 is the limit of the 4-bit counter.                *)
ExactClassification == event = truth

(* The inductive strengthening of the two invariants above: what the       *)
(* tracker's anchor and flag are while the packet just sent may still be   *)
(* repeated.                                                               *)
SentAndAnchor ==
    /\ lastPayloadCC = NoCC => missing = 0
    /\ sent.payload => sent.cc = PredCC(cc)
    /\ sent.payload /\ held =>
           /\ lastPayloadCC = sent.cc
           /\ missing = 0
           /\ ~sent.di => (duplicateAlreadySeen <=> copies = 1)
    /\ sent.payload /\ ~held =>
           /\ copies = 0
           /\ lastPayloadCC # NoCC => missing > 0

InductiveInvariant ==
    /\ TypeOK
    /\ AnchorTracksSender
    /\ SentAndAnchor
    /\ ExactClassification
==============================================================================
