------------------------------ MODULE Timeline ------------------------------
(***************************************************************************)
(* The extended 90 kHz timeline of one elementary stream: how the demuxer  *)
(* (demuxer.rs: finish_pes, reposition, pcr_ext_90k, the access-point      *)
(* scan) and the PtsTracker (clock.rs) turn raw timestamps, which wrap at  *)
(* M, into a time that keeps counting, across seeks.                       *)
(*                                                                         *)
(* A stream is a sequence of access units in decoding order.  Each has a   *)
(* true PTS, DTS and preceding PCR, counted without a wrap from the epoch  *)
(* of the first PCR of the file; the program sees them modulo M.  The      *)
(* stream is revealed one unit at a time; a seek goes back to a unit that  *)
(* was already seen.                                                       *)
(***************************************************************************)
EXTENDS Integers, Sequences

CONSTANTS
    M,          \* TIMESTAMP_MODULUS_90KHZ, 2^33 in the code
    Units,      \* most access units in a stream
    Steps,      \* how far the DTS of a unit is from the one before it
    Delays,     \* how far the PTS of a unit is ahead of its DTS
    PcrLead,    \* how far the PCR before a unit is behind its DTS
    Reorder,    \* TRUE: the PTS may go back, as it does around B-pictures
    Straddle    \* TRUE: a wrap may fall between the first PCR and first PTS

ModulusAssumption == M \in Nat /\ M > 1 /\ M % 2 = 0
StepAssumption ==
    /\ Steps \subseteq Nat /\ Delays \subseteq Nat /\ PcrLead \in Nat
    /\ \A d \in Delays : d + PcrLead < M \div 2
    /\ \A s \in Steps, d \in Delays, e \in Delays : s + d - e < M \div 2
SwitchAssumption == Reorder \in BOOLEAN /\ Straddle \in BOOLEAN

VARIABLES
    stream,     \* the units revealed so far: [pts, dts, pcr], true times
    pos,        \* unit of the last packet, 0 after open or when repositioned
    next,       \* unit the next PES holds
    pts, dts,   \* the two PtsTrackers of the PID
    outPts,     \* PTS of the packet last emitted
    outDts      \* DTS of the packet last emitted, None when it has none

vars == <<stream, pos, next, pts, dts, outPts, outDts>>

None      == -1
Threshold == M \div 2               \* TIMESTAMP_WRAP_THRESHOLD_90KHZ

------------------------------------------------------------------------------
(* PtsTracker.  The modules' names are the source's: wrap_count, last_raw, *)
(* seed_hint.                                                              *)

NewTracker == [wrapCount |-> 0, lastRaw |-> None, seedHint |-> None]

SeededNot(h) == NewTracker      \* mutant: a seek resets the tracker and does not seed it
Seeded(h)    == [NewTracker EXCEPT !.seedHint = h]

Extended(t) == IF t.lastRaw = None THEN None ELSE t.wrapCount * M + t.lastRaw

AbsDiff(a, b) == IF a >= b THEN a - b ELSE b - a

(* nearest_epoch: the first of base - 1, base, base + 1 that comes closest *)
(* to the hint.                                                            *)
NearestEpoch(raw, hint) ==
    LET base == hint \div M
        candidates == {IF base = 0 THEN 0 ELSE base - 1, base, base + 1}
        distance(k) == AbsDiff(k * M + raw, hint)
    IN  CHOOSE k \in candidates :
            \A j \in candidates :
                distance(k) < distance(j) \/ (distance(k) = distance(j) /\ k <= j)

ExtendInPlace(raw, reference) ==        \* mutant: the epoch of the reference
    (reference \div M) * M + raw

ExtendNear(raw, reference) == NearestEpoch(raw, reference) * M + raw

(* The classification of a raw timestamp after prev. *)
TimestampEvent(prev, raw) ==
    IF prev = None THEN "First"
    ELSE IF raw >= prev
         THEN IF raw - prev > Threshold THEN "Backward" ELSE "Forward"
         ELSE IF prev - raw > Threshold THEN "Wrapped" ELSE "Backward"

ObserveTimestamp(t, raw) ==
    LET e == TimestampEvent(t.lastRaw, raw) IN
    [wrapCount |-> CASE e = "First" /\ t.seedHint # None -> NearestEpoch(raw, t.seedHint)
                     [] e = "Backward" -> 0
                     [] e = "Wrapped"  -> t.wrapCount + 1
                     [] OTHER -> t.wrapCount,
     lastRaw   |-> raw,
     seedHint  |-> IF e = "First" THEN None ELSE t.seedHint]

------------------------------------------------------------------------------
(* The PCR axis: the modular distance from the first PCR of the file.      *)

PcrExt(raw) ==
    LET first == stream[1].pcr % M IN first + ((raw + M - first) % M)

(* The PTS the access-point scan records for every unit of the stream: it  *)
(* walks the file from its head and extends each raw PTS to the epoch      *)
(* nearest the one before it on the PID.                                   *)
IndexPts ==
    LET scan[i \in 1 .. Len(stream)] ==
            IF i = 1 THEN stream[1].pts % M
            ELSE ExtendNear(stream[i].pts % M, scan[i - 1])
    IN  scan

------------------------------------------------------------------------------
Unit(d, delay) == [pts |-> d + delay, dts |-> d, pcr |-> d - PcrLead]

(* What may follow in the stream.  Once a PES has coded a DTS every later  *)
(* one does, so that coded ones are never half a turn apart.               *)
FirstUnits == {u \in {Unit(h + PcrLead, delay) : h \in 0 .. M - 1, delay \in Delays} :
                   Straddle \/ u.pts < M}
LaterUnits == {u \in {Unit(stream[Len(stream)].dts + s, delay) : s \in Steps, delay \in Delays} :
                   LET last == stream[Len(stream)] IN
                   /\ Reorder \/ u.pts >= last.pts
                   /\ last.dts # last.pts => u.dts # u.pts}

Init ==
    /\ stream \in {<<u>> : u \in FirstUnits}
    /\ pos = 0 /\ next = 1
    /\ pts = NewTracker /\ dts = NewTracker
    /\ outPts = None /\ outDts = None

(* The multiplexer of the file wrote another unit. *)
Reveal ==
    /\ next = Len(stream) + 1
    /\ Len(stream) < Units
    /\ \E u \in LaterUnits : stream' = Append(stream, u)
    /\ UNCHANGED <<pos, next, pts, dts, outPts, outDts>>

(* A DTS tracker without history is seeded with the extended PTS of the    *)
(* very PES that codes its first DTS.                                      *)
DtsTrackerUnseeded(extendedPts) == dts          \* mutant: the two count apart

DtsTracker(extendedPts) == IF Extended(dts) = None THEN Seeded(extendedPts) ELSE dts

(* finish_pes for the next unit.  The PES codes a DTS only where it        *)
(* differs from the PTS.                                                   *)
FinishPes ==
    /\ next <= Len(stream)
    /\ LET u     == stream[next]
           p     == ObserveTimestamp(pts, u.pts % M)
           coded == u.dts # u.pts
       IN  /\ pts' = p
           /\ outPts' = Extended(p)
           /\ dts' = IF coded THEN ObserveTimestamp(DtsTracker(Extended(p)), u.dts % M) ELSE dts
           /\ outDts' = IF coded THEN Extended(dts') ELSE None
    /\ pos' = next
    /\ next' = next + 1
    /\ UNCHANGED stream

(* reposition(offset, Some(hint)): both trackers are seeded. *)
Reposition(i, hint) ==
    /\ next' = i /\ pos' = 0
    /\ pts' = Seeded(hint) /\ dts' = Seeded(hint)
    /\ outPts' = None /\ outDts' = None
    /\ UNCHANGED stream

(* seek_by_pcr landed on the PCR before unit i.  The PCR axis holds in a   *)
(* file shorter than one turn of the clock, the bound pcr_ext_90k states.  *)
WithinOneTurn == stream[Len(stream)].pcr - stream[1].pcr < M

SeekByPcr ==
    /\ WithinOneTurn
    /\ \E i \in 1 .. Len(stream) : Reposition(i, PcrExt(stream[i].pcr % M))

(* seek_to_random_access / seek_to_access_point landed on unit i. *)
SeekToAccessPoint == \E i \in 1 .. Len(stream) : Reposition(i, IndexPts[i])

Next == Reveal \/ FinishPes \/ SeekByPcr \/ SeekToAccessPoint

Spec == Init /\ [][Next]_vars

------------------------------------------------------------------------------
Trackers == [wrapCount : Nat, lastRaw : 0 .. M - 1 \cup {None}, seedHint : Nat \cup {None}]

TypeOK ==
    /\ stream \in Seq([pts : Nat, dts : Nat, pcr : Nat])
    /\ pos \in 0 .. Len(stream) /\ next \in 1 .. Len(stream) + 1
    /\ pts \in Trackers /\ dts \in Trackers
    /\ outPts \in Nat \cup {None} /\ outDts \in Nat \cup {None}

(* finish_pes: the extended PTS of a packet is the true one, whichever     *)
(* seeks came before it.                                                   *)
PtsExact == pos # 0 => outPts = stream[pos].pts

(* finish_pes: the PTS and the DTS of a packet are on one axis, so their   *)
(* difference is the true decoding delay.                                  *)
SameAxis ==
    pos # 0 /\ outDts # None =>
        outPts - outDts = stream[pos].pts - stream[pos].dts

(* The time recorded in the access-point index for a unit is the time      *)
(* next_packet gives it, so that a target taken from a packet finds it.    *)
IndexAxis == pos # 0 => IndexPts[pos] = outPts

(* The PTS of a packet and the extended PCR before it are on one axis, so  *)
(* a PTS can be searched for among the PCRs.                               *)
PcrAxis ==
    pos # 0 /\ WithinOneTurn =>
        outPts - PcrExt(stream[pos].pcr % M) = stream[pos].pts - stream[pos].pcr
==============================================================================
