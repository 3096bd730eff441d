---------------------------- MODULE Muxing_proofs ----------------------------
(***************************************************************************)
(* What the muxer promises of the wire, proved for every value of the      *)
(* constants and any number of frames.                                     *)
(*                                                                         *)
(* Without a mux rate (module Muxer): the mark of a new time base; the     *)
(* cadence of the PCRs, when no frame is shown before one written ahead of *)
(* it; the repetition of the tables, when no time base steps back; and the *)
(* splice countdowns.                                                      *)
(*                                                                         *)
(* With one (module Pacer, here P): that no transport buffer of the        *)
(* receiver overflows; that the PCRs are a clock; and when and in which    *)
(* order frames go out.  The calls under way are a stack, so each step is  *)
(* first told by what it makes of the top of it (Kept, Onward, Popped,     *)
(* LetOut, ...), and each invariant is kept by those few changes.          *)
(***************************************************************************)
EXTENDS Muxing, SequenceTheorems, NaturalsInduction, WellFoundedInduction, TLAPS

(* The clocks and the PCRs have their types. *)
ClockOK ==
    /\ now \in Nat /\ base \in Nat /\ epoch \in Nat
    /\ lastPcr \in Maybe(Nat) /\ inline \in Maybe(Nat)
    /\ pendingDiscontinuity \in BOOLEAN
    /\ pcrs \in [prev : Maybe(Nat), last : Maybe(Nat), marked : BOOLEAN,
                 prevEpoch : Nat, epoch : Nat]
    /\ phase \in {"idle", "pcr", "pes"}
    /\ phase = "pcr" => job.pts \in Maybe(Nat)

(* A discontinuity is armed while the last PCR is of an earlier time base. *)
ArmedUntilSent ==
    /\ pcrs.epoch <= epoch
    /\ pendingDiscontinuity <=> pcrs.epoch # epoch

MarkInvariant == ClockOK /\ ArmedUntilSent /\ FirstOfBaseMarked

------------------------------------------------------------------------------
LEMMA LoweredType ==
    ASSUME NEW p \in Nat
    PROVE  Lowered(p) \in Nat /\ Lowered(p) <= p
    BY DEF Lowered, Guard

LEMMA LoweredMonotone ==
    ASSUME NEW p \in Nat, NEW q \in Nat, p <= q
    PROVE  Lowered(p) <= Lowered(q)
    BY DEF Lowered, Guard

LEMMA RingType == \A v \in Nat : v % M \in Nat
    BY ClockAssumption

LEMMA InitialMark == Init => MarkInvariant
<1> SUFFICES ASSUME Init PROVE MarkInvariant
    OBVIOUS
<1>1. pcrs = [prev |-> None, last |-> None, marked |-> FALSE, prevEpoch |-> 0, epoch |-> 0]
    BY DEF Init
<1>2. pcrs \in [prev : Maybe(Nat), last : Maybe(Nat), marked : BOOLEAN,
                prevEpoch : Nat, epoch : Nat]
    BY <1>1 DEF Maybe, None
<1>3. pcrs.last = None /\ pcrs.epoch = 0
    BY <1>1
<1>4. pendingDiscontinuity = FALSE /\ epoch = 0
    BY DEF Init
<1>5. ClockOK
    BY <1>2, <1>4, ClockAssumption DEF Init, ClockOK, Maybe, None
<1> QED
    BY <1>3, <1>4, <1>5 DEF MarkInvariant, ArmedUntilSent, FirstOfBaseMarked

(* The part of a payload packet that concerns the clock. *)
LEMMA PayloadClock ==
    ASSUME PayloadPacket
    PROVE  /\ phase = "pes" /\ phase' \in {"idle", "pes"}
           /\ IF inline = None THEN UNCHANGED <<pcrs, pendingDiscontinuity>> ELSE SendPcr(inline)
           /\ inline' = None
           /\ UNCHANGED <<lastPcr, now, base, epoch>>
    BY DEF PayloadPacket

(* A PCR that is sent clears the mark and takes it along. *)
LEMMA SendMarks ==
    ASSUME MarkInvariant, NEW value \in Nat, SendPcr(value), epoch' = epoch
    PROVE  /\ pcrs' \in [prev : Maybe(Nat), last : Maybe(Nat), marked : BOOLEAN,
                         prevEpoch : Nat, epoch : Nat]
           /\ pendingDiscontinuity' = FALSE
           /\ ArmedUntilSent' /\ FirstOfBaseMarked'
<1>1. value % M \in Nat
    BY RingType
<1>2. pcrs' = [prev |-> pcrs.last, last |-> value % M, marked |-> pendingDiscontinuity,
               prevEpoch |-> pcrs.epoch, epoch |-> epoch]
    BY DEF SendPcr
<1>3. /\ pendingDiscontinuity' = FALSE
      /\ pcrs'.marked = pendingDiscontinuity
      /\ pcrs'.epoch = epoch /\ pcrs'.prevEpoch = pcrs.epoch
    BY <1>2 DEF SendPcr
<1>4. pendingDiscontinuity <=> pcrs.epoch # epoch
    BY DEF MarkInvariant, ArmedUntilSent
<1>5. FirstOfBaseMarked'
    BY <1>3, <1>4, Zenon DEF FirstOfBaseMarked
<1>6. ArmedUntilSent'
    BY <1>3 DEF ArmedUntilSent, MarkInvariant, ClockOK
<1>7. pcrs' \in [prev : Maybe(Nat), last : Maybe(Nat), marked : BOOLEAN,
                 prevEpoch : Nat, epoch : Nat]
    BY <1>1, <1>2 DEF MarkInvariant, ClockOK, Maybe
<1> QED
    BY <1>3, <1>5, <1>6, <1>7

(* Steps that send no PCR and announce nothing keep what is said of both. *)
LEMMA QuietMarks ==
    ASSUME MarkInvariant, UNCHANGED <<pcrs, pendingDiscontinuity, epoch>>
    PROVE  ArmedUntilSent' /\ FirstOfBaseMarked'
    BY DEF MarkInvariant, ArmedUntilSent, FirstOfBaseMarked
------------------------------------------------------------------------------
(* One lemma an action: the clock's types and the mark.                    *)
LEMMA DiscontinuityMarks ==
    ASSUME MarkInvariant, NEW b \in Bases, SignalDiscontinuity(b)
    PROVE  MarkInvariant'
<1>1. /\ pendingDiscontinuity' = TRUE /\ epoch' = epoch + 1 /\ pcrs' = pcrs
      /\ base' \in Nat /\ lastPcr' = None
      /\ UNCHANGED <<now, phase, job, inline>>
    BY ClockAssumption DEF SignalDiscontinuity
<1>2. pcrs.epoch \in Nat /\ epoch \in Nat /\ pcrs.epoch <= epoch
    BY DEF MarkInvariant, ClockOK, ArmedUntilSent
<1>3. pcrs.epoch # epoch + 1 /\ pcrs.epoch <= epoch + 1 /\ epoch + 1 \in Nat
    BY <1>2
<1>4. ClockOK'
    BY <1>1, <1>3 DEF MarkInvariant, ClockOK, Maybe
<1>5. ArmedUntilSent' /\ FirstOfBaseMarked'
    BY <1>1, <1>3 DEF MarkInvariant, ArmedUntilSent, FirstOfBaseMarked
<1> QED
    BY <1>4, <1>5 DEF MarkInvariant

LEMMA FrameClock ==
    ASSUME MarkInvariant, NEW t \in Tracks, NEW size \in Sizes,
           NEW key \in BOOLEAN, NEW timed \in BOOLEAN, NEW time,
           WriteFrame(t, size, key, timed, time)
    PROVE  /\ phase = "idle" /\ phase' = "pcr" /\ time \in Nat
           /\ now' = IF time > now THEN time ELSE now
           /\ job'.pts = IF timed THEN time + base ELSE None
           /\ UNCHANGED <<lastPcr, pendingDiscontinuity, pcrs, epoch, base, inline>>
<1>1. job' = [track |-> t, time |-> time, key |-> key, pes |-> Envelopes(t, size),
              pts |-> IF timed THEN time + base ELSE None,
              first |-> TRUE, splice |-> None, run |-> None]
    BY DEF WriteFrame
<1>2. job'.pts = IF timed THEN time + base ELSE None
    BY <1>1
<1> QED
    BY <1>2, BoundAssumption DEF WriteFrame

LEMMA FrameMarks ==
    ASSUME MarkInvariant, NEW t \in Tracks, NEW size \in Sizes,
           NEW key \in BOOLEAN, NEW timed \in BOOLEAN, NEW time,
           WriteFrame(t, size, key, timed, time)
    PROVE  MarkInvariant'
<1>1. ClockOK'
    BY FrameClock DEF MarkInvariant, ClockOK, Maybe
<1>2. UNCHANGED <<pcrs, pendingDiscontinuity, epoch>>
    BY FrameClock
<1> QED
    BY <1>1, <1>2, QuietMarks DEF MarkInvariant

LEMMA StandaloneMarks ==
    ASSUME MarkInvariant, StandalonePcr
    PROVE  MarkInvariant'
<1>1. Target \in Nat
    BY LoweredType DEF StandalonePcr, AtPcr, MarkInvariant, ClockOK, Maybe, Target
<1>2. /\ SendPcr(Target) /\ lastPcr' = Target
      /\ UNCHANGED <<now, base, epoch, phase, job, inline>>
    BY DEF StandalonePcr
<1>3. ClockOK'
    BY <1>1, <1>2, SendMarks DEF MarkInvariant, ClockOK, Maybe
<1> QED
    BY <1>1, <1>2, <1>3, SendMarks DEF MarkInvariant

LEMMA BackfillMarks ==
    ASSUME MarkInvariant, Backfill
    PROVE  MarkInvariant'
<1> DEFINE next == lastPcr + PcrInterval - Guard
<1>1. lastPcr \in Nat /\ next \in Nat
    BY ClockAssumption DEF Backfill, Lags, MarkInvariant, ClockOK, Maybe, Guard
<1>2. /\ SendPcr(next) /\ lastPcr' = next
      /\ UNCHANGED <<now, base, epoch, phase, job, inline>>
    BY DEF Backfill
<1> HIDE DEF next
<1>3. ClockOK'
    BY <1>1, <1>2, SendMarks DEF MarkInvariant, ClockOK, Maybe
<1> QED
    BY <1>1, <1>2, <1>3, SendMarks DEF MarkInvariant

LEMMA BeginMarks ==
    ASSUME MarkInvariant, BeginPes
    PROVE  MarkInvariant'
<1>1. job.pts # None => Target \in Nat
    BY LoweredType DEF BeginPes, MarkInvariant, ClockOK, Maybe, Target
<1>2. ClockOK'
    BY <1>1 DEF BeginPes, MarkInvariant, ClockOK, Maybe
<1>3. UNCHANGED <<pcrs, pendingDiscontinuity, epoch>>
    BY DEF BeginPes
<1> QED
    BY <1>2, <1>3, QuietMarks DEF MarkInvariant

LEMMA PayloadMarks ==
    ASSUME MarkInvariant, PayloadPacket
    PROVE  MarkInvariant'
<1>1. CASE inline = None
  <2>1. ClockOK'
    BY <1>1, PayloadClock DEF MarkInvariant, ClockOK, Maybe
  <2> QED
    BY <1>1, <2>1, PayloadClock, QuietMarks DEF MarkInvariant
<1>2. CASE inline # None
  <2>1. inline \in Nat
    BY <1>2 DEF MarkInvariant, ClockOK, Maybe
  <2>2. SendPcr(inline) /\ epoch' = epoch
    BY <1>2, PayloadClock
  <2>3. ClockOK'
    BY <2>1, <2>2, PayloadClock, SendMarks DEF MarkInvariant, ClockOK, Maybe
  <2> QED
    BY <2>1, <2>2, <2>3, SendMarks DEF MarkInvariant
<1> QED
    BY <1>1, <1>2

LEMMA MarkStep ==
    ASSUME MarkInvariant, [Next]_vars
    PROVE  MarkInvariant'
<1>1. ASSUME NEW t \in Tracks, NEW post \in Posts, SignalSplice(t, post)
      PROVE  MarkInvariant'
    BY <1>1, QuietMarks DEF SignalSplice, MarkInvariant, ClockOK
<1>2. CASE UNCHANGED vars
    BY <1>2, QuietMarks DEF vars, state, MarkInvariant, ClockOK
<1> QED
    BY <1>1, <1>2, DiscontinuityMarks, FrameMarks, StandaloneMarks, BackfillMarks,
       BeginMarks, PayloadMarks DEF Next

(* The first PCR of a new time base carries the discontinuity_indicator    *)
(* and no other PCR does, whichever of the three ways it goes out.         *)
THEOREM NewBaseMarked == Spec => []FirstOfBaseMarked
<1>1. MarkInvariant => FirstOfBaseMarked
    BY DEF MarkInvariant
<1> QED
    BY <1>1, InitialMark, MarkStep, PTL DEF Spec

------------------------------------------------------------------------------
(* The cadence.  The chain of PCRs is never ahead of the latest frame, and *)
(* the wire has its last value on the ring; while a PES holds a PCR it has *)
(* not sent yet, the wire is at most an interval behind.                   *)
ChainBehind == lastPcr # None => lastPcr <= Lowered(now + base)

FrameIsLatest == phase = "pcr" /\ job.pts # None => job.pts = now + base

InlineIsChain == inline # None => phase = "pes" /\ inline = lastPcr

WireSent == inline = None => lastPcr # None /\ pcrs.last = lastPcr % M

WireHeld ==
    inline # None =>
        \E sent \in Nat : sent % M = pcrs.last /\ sent <= lastPcr /\ lastPcr - sent <= PcrInterval

WireFollows == pcrs.last # None /\ ~pendingDiscontinuity => WireSent /\ WireHeld

CadenceInvariant ==
    /\ MarkInvariant
    /\ ChainBehind /\ FrameIsLatest /\ InlineIsChain /\ WireFollows
    /\ PcrCadence

(* Values at most an interval apart are as far apart on the ring. *)
LEMMA RingDistance ==
    ASSUME NEW v \in Nat, NEW w \in Nat, v <= w, w - v <= PcrInterval
    PROVE  ((w % M) - (v % M)) % M <= PcrInterval
<1> DEFINE a == v \div M
           b == w \div M
           r == v % M
           s == w % M
<1>1. M \in Nat /\ M > 0 /\ PcrInterval \in Nat /\ PcrInterval < M
    BY ClockAssumption
<1>2. /\ a \in Int /\ r \in 0 .. M - 1 /\ v = M * a + r
      /\ b \in Int /\ s \in 0 .. M - 1 /\ w = M * b + s
    BY <1>1
<1> HIDE DEF a, b, r, s
<1>3. M * (b - a) = (w - v) - (s - r)
    BY <1>1, <1>2
<1>4. M * (b - a) > -M /\ M * (b - a) < 2 * M
    BY <1>1, <1>2, <1>3
<1>5. b - a \in {0, 1}
    BY <1>1, <1>2, <1>4
<1>6. s - r = w - v \/ s - r = (w - v) - M
    BY <1>1, <1>2, <1>3, <1>5
<1>7. (s - r) % M = w - v
  <2>1. CASE s - r = w - v
    BY <2>1, <1>1
  <2>2. CASE s - r = (w - v) - M
    BY <2>2, <1>1
  <2> QED
    BY <1>6, <2>1, <2>2
<1> QED
    BY <1>1, <1>7 DEF r, s

(* A PCR sent within the interval of the one on the wire, or with a mark.  *)
LEMMA SendInCadence ==
    ASSUME MarkInvariant, NEW value \in Nat, SendPcr(value),
           pcrs.last # None /\ ~pendingDiscontinuity =>
              \E sent \in Nat : sent % M = pcrs.last /\ sent <= value /\ value - sent <= PcrInterval
    PROVE  PcrCadence' /\ pcrs'.last = value % M
<1>1. pcrs'.prev = pcrs.last /\ pcrs'.last = value % M /\ pcrs'.marked = pendingDiscontinuity
    BY DEF SendPcr
<1>2. ASSUME pcrs.last # None, ~pendingDiscontinuity
      PROVE  ((value % M) - pcrs.last) % M <= PcrInterval
  <2>1. PICK sent \in Nat : sent % M = pcrs.last /\ sent <= value /\ value - sent <= PcrInterval
    BY <1>2
  <2> QED
    BY <2>1, RingDistance
<1>3. PcrCadence'
    BY <1>1, <1>2, Zenon DEF PcrCadence
<1> QED
    BY <1>1, <1>3

LEMMA InitialCadence == Init => CadenceInvariant
<1> SUFFICES ASSUME Init PROVE CadenceInvariant
    OBVIOUS
<1>1. pcrs.prev = None /\ pcrs.last = None
    BY DEF Init
<1>2. lastPcr = None /\ inline = None /\ phase = "idle"
    BY DEF Init
<1> QED
    BY <1>1, <1>2, InitialMark
    DEF CadenceInvariant, ChainBehind, FrameIsLatest, InlineIsChain, WireFollows, PcrCadence

LEMMA DiscontinuityCadence ==
    ASSUME CadenceInvariant, NEW b \in Bases, SignalDiscontinuity(b)
    PROVE  CadenceInvariant'
<1>1. /\ phase' = "idle" /\ inline' = None /\ lastPcr' = None
      /\ pendingDiscontinuity' = TRUE /\ pcrs' = pcrs
    BY DEF SignalDiscontinuity, CadenceInvariant, InlineIsChain
<1>2. MarkInvariant'
    BY DiscontinuityMarks DEF CadenceInvariant
<1> QED
    BY <1>1, <1>2
    DEF CadenceInvariant, ChainBehind, FrameIsLatest, InlineIsChain, WireFollows, PcrCadence

LEMMA FrameCadence ==
    ASSUME CadenceInvariant, NEW t \in Tracks, NEW size \in Sizes,
           NEW key \in BOOLEAN, NEW timed \in BOOLEAN, NEW time, now <= time,
           WriteFrame(t, size, key, timed, time)
    PROVE  CadenceInvariant'
<1>1. MarkInvariant /\ MarkInvariant'
    BY FrameMarks DEF CadenceInvariant
<1>2. /\ phase = "idle" /\ phase' = "pcr" /\ time \in Nat
      /\ now' = IF time > now THEN time ELSE now
      /\ job'.pts = IF timed THEN time + base ELSE None
      /\ UNCHANGED <<lastPcr, pendingDiscontinuity, pcrs, epoch, base, inline>>
    BY <1>1, FrameClock
<1>3. now \in Nat /\ base \in Nat
    BY <1>1 DEF MarkInvariant, ClockOK
<1>4. now' = time /\ inline = None
    BY <1>2, <1>3 DEF CadenceInvariant, InlineIsChain
<1>5. FrameIsLatest'
    BY <1>2, <1>4 DEF FrameIsLatest
<1>6. ChainBehind'
  <2>1. now + base \in Nat /\ time + base \in Nat /\ now + base <= time + base
    BY <1>2, <1>3
  <2>2. Lowered(now + base) <= Lowered(time + base)
        /\ Lowered(now + base) \in Nat /\ Lowered(time + base) \in Nat
    BY <2>1, LoweredMonotone, LoweredType
  <2>3. lastPcr # None => lastPcr \in Nat /\ lastPcr <= Lowered(now + base)
    BY <1>1 DEF CadenceInvariant, ChainBehind, MarkInvariant, ClockOK, Maybe
  <2>4. Lowered(now + base)' = Lowered(time + base)
    BY <1>2, <1>4 DEF Lowered
  <2> QED
    BY <1>2, <2>2, <2>3, <2>4 DEF ChainBehind
<1>7. InlineIsChain' /\ WireFollows' /\ PcrCadence'
    BY <1>2, <1>4
    DEF CadenceInvariant, InlineIsChain, WireFollows, WireSent, WireHeld, PcrCadence
<1> QED
    BY <1>1, <1>5, <1>6, <1>7 DEF CadenceInvariant

(* What holds of the frame whose PCRs are due. *)
LEMMA TargetBound ==
    ASSUME CadenceInvariant, AtPcr
    PROVE  /\ Target \in Nat /\ Target = Lowered(now + base) /\ inline = None
           /\ lastPcr # None => lastPcr \in Nat /\ lastPcr <= Target
<1>1. job.pts \in Nat /\ job.pts = now + base
    BY DEF AtPcr, CadenceInvariant, FrameIsLatest, MarkInvariant, ClockOK, Maybe
<1>2. Target \in Nat /\ Target = Lowered(now + base)
    BY <1>1, LoweredType DEF Target
<1>3. inline = None
    BY DEF AtPcr, CadenceInvariant, InlineIsChain
<1>4. lastPcr # None => lastPcr \in Nat /\ lastPcr <= Target
    BY <1>2 DEF CadenceInvariant, ChainBehind, MarkInvariant, ClockOK, Maybe
<1> QED
    BY <1>2, <1>3, <1>4

LEMMA StandaloneCadence ==
    ASSUME CadenceInvariant, StandalonePcr
    PROVE  CadenceInvariant'
<1>1. MarkInvariant /\ MarkInvariant'
    BY StandaloneMarks DEF CadenceInvariant
<1>2. AtPcr /\ lastPcr = None /\ SendPcr(Target) /\ lastPcr' = Target
      /\ UNCHANGED <<phase, job, inline, now, base>>
    BY DEF StandalonePcr
<1>3. Target \in Nat /\ Target = Lowered(now + base) /\ inline = None
    BY <1>2, TargetBound
<1>4. ~(pcrs.last # None /\ ~pendingDiscontinuity)
    BY <1>2, <1>3 DEF CadenceInvariant, WireFollows, WireSent
<1>5. PcrCadence' /\ pcrs'.last = Target % M
    BY <1>1, <1>2, <1>3, <1>4, SendInCadence
<1>6. ChainBehind'
    BY <1>2, <1>3 DEF ChainBehind, Lowered
<1>7. FrameIsLatest' /\ InlineIsChain'
    BY <1>2, <1>3 DEF CadenceInvariant, FrameIsLatest, InlineIsChain
<1>8. WireFollows'
  <2>1. inline' = None /\ lastPcr' # None /\ pcrs'.last = lastPcr' % M
    BY <1>2, <1>3, <1>5 DEF None
  <2> QED
    BY <2>1 DEF WireFollows, WireSent, WireHeld
<1> QED
    BY <1>1, <1>5, <1>6, <1>7, <1>8 DEF CadenceInvariant

LEMMA BackfillCadence ==
    ASSUME CadenceInvariant, Backfill
    PROVE  CadenceInvariant'
<1> DEFINE next == lastPcr + PcrInterval - Guard
<1>1. MarkInvariant /\ MarkInvariant'
    BY BackfillMarks DEF CadenceInvariant
<1>2. AtPcr /\ Lags /\ SendPcr(next) /\ lastPcr' = next
      /\ UNCHANGED <<phase, job, inline, now, base>>
    BY DEF Backfill
<1>3. /\ Target \in Nat /\ Target = Lowered(now + base) /\ inline = None
      /\ lastPcr \in Nat /\ Target - lastPcr > PcrInterval
    BY <1>2, TargetBound DEF Lags
<1>4. /\ next \in Nat /\ next # None /\ lastPcr <= next
      /\ next - lastPcr <= PcrInterval /\ next <= Target
    BY <1>3, ClockAssumption DEF Guard, None
<1> HIDE DEF next
<1>5. pcrs.last # None /\ ~pendingDiscontinuity =>
         \E sent \in Nat : sent % M = pcrs.last /\ sent <= next /\ next - sent <= PcrInterval
    BY <1>3, <1>4 DEF CadenceInvariant, WireFollows, WireSent
<1>6. PcrCadence' /\ pcrs'.last = next % M
    BY <1>1, <1>2, <1>4, <1>5, SendInCadence
<1>7. ChainBehind'
    BY <1>2, <1>3, <1>4 DEF ChainBehind, Lowered
<1>8. FrameIsLatest' /\ InlineIsChain'
    BY <1>2, <1>3 DEF CadenceInvariant, FrameIsLatest, InlineIsChain
<1>9. WireFollows'
  <2>1. inline' = None /\ lastPcr' # None /\ pcrs'.last = lastPcr' % M
    BY <1>2, <1>3, <1>4, <1>6
  <2> QED
    BY <2>1 DEF WireFollows, WireSent, WireHeld
<1> QED
    BY <1>1, <1>6, <1>7, <1>8, <1>9 DEF CadenceInvariant

LEMMA BeginCadence ==
    ASSUME CadenceInvariant, BeginPes
    PROVE  CadenceInvariant'
<1>1. MarkInvariant /\ MarkInvariant'
    BY BeginMarks DEF CadenceInvariant
<1>2. /\ phase = "pcr" /\ phase' = "pes"
      /\ job.pts # None => lastPcr = None \/ ~Lags
      /\ inline' = IF job.track = PcrTrack /\ job.pts # None THEN Target ELSE None
      /\ lastPcr' = IF inline' = None THEN lastPcr ELSE inline'
      /\ UNCHANGED <<pcrs, pendingDiscontinuity, now, base>>
    BY DEF BeginPes
<1>3. inline = None
    BY <1>2 DEF CadenceInvariant, InlineIsChain
<1>4. FrameIsLatest' /\ PcrCadence'
    BY <1>2 DEF CadenceInvariant, FrameIsLatest, PcrCadence
<1>5. CASE inline' = None
  <2>1. lastPcr' = lastPcr
    BY <1>2, <1>5
  <2>2. ChainBehind' /\ InlineIsChain'
    BY <1>2, <1>5, <2>1 DEF CadenceInvariant, ChainBehind, InlineIsChain, Lowered
  <2>3. WireFollows'
    BY <1>2, <1>3, <1>5, <2>1 DEF CadenceInvariant, WireFollows, WireSent, WireHeld
  <2> QED
    BY <1>1, <1>4, <2>2, <2>3 DEF CadenceInvariant
<1>6. CASE inline' # None
  <2>1. AtPcr /\ inline' = Target /\ lastPcr' = Target
    BY <1>2, <1>6 DEF AtPcr
  <2>2. /\ Target \in Nat /\ Target = Lowered(now + base)
        /\ lastPcr # None => lastPcr \in Nat /\ lastPcr <= Target
    BY <2>1, TargetBound
  <2>3. ChainBehind' /\ InlineIsChain'
    BY <1>2, <2>1, <2>2 DEF ChainBehind, InlineIsChain, Lowered
  <2>4. ASSUME pcrs.last # None, ~pendingDiscontinuity
        PROVE  \E sent \in Nat : sent % M = pcrs.last /\ sent <= Target /\ Target - sent <= PcrInterval
    <3>1. lastPcr # None /\ pcrs.last = lastPcr % M
      BY <1>3, <2>4 DEF CadenceInvariant, WireFollows, WireSent
    <3>2. ~(Target - lastPcr > PcrInterval)
      BY <1>2, <2>1, <3>1 DEF Lags, AtPcr
    <3>3. lastPcr \in Nat /\ lastPcr <= Target /\ Target - lastPcr <= PcrInterval
      BY <2>2, <3>1, <3>2, ClockAssumption
    <3> QED
      BY <3>1, <3>3
  <2>5. WireFollows'
    BY <1>2, <1>6, <2>1, <2>4 DEF WireFollows, WireSent, WireHeld
  <2> QED
    BY <1>1, <1>4, <2>3, <2>5 DEF CadenceInvariant
<1> QED
    BY <1>5, <1>6

LEMMA PayloadCadence ==
    ASSUME CadenceInvariant, PayloadPacket
    PROVE  CadenceInvariant'
<1>1. MarkInvariant /\ MarkInvariant'
    BY PayloadMarks DEF CadenceInvariant
<1>2. phase' # "pcr" /\ inline' = None /\ UNCHANGED <<lastPcr, now, base>>
    BY PayloadClock
<1>3. ChainBehind' /\ FrameIsLatest' /\ InlineIsChain'
    BY <1>2 DEF CadenceInvariant, ChainBehind, FrameIsLatest, InlineIsChain, Lowered
<1>4. CASE inline = None
  <2>1. UNCHANGED <<pcrs, pendingDiscontinuity>>
    BY <1>4, PayloadClock
  <2>2. WireFollows' /\ PcrCadence'
    BY <1>2, <1>4, <2>1 DEF CadenceInvariant, WireFollows, WireSent, WireHeld, PcrCadence
  <2> QED
    BY <1>1, <1>3, <2>2 DEF CadenceInvariant
<1>5. CASE inline # None
  <2>1. SendPcr(inline) /\ inline = lastPcr /\ inline \in Nat
    BY <1>1, <1>5, PayloadClock DEF CadenceInvariant, InlineIsChain, MarkInvariant, ClockOK, Maybe
  <2>2. pcrs.last # None /\ ~pendingDiscontinuity =>
           \E sent \in Nat : sent % M = pcrs.last /\ sent <= inline /\ inline - sent <= PcrInterval
    BY <1>5, <2>1 DEF CadenceInvariant, WireFollows, WireHeld
  <2>3. PcrCadence' /\ pcrs'.last = inline % M
    BY <1>1, <2>1, <2>2, SendInCadence
  <2>4. WireFollows'
    BY <1>2, <1>5, <2>1, <2>3 DEF WireFollows, WireSent, WireHeld
  <2> QED
    BY <1>1, <1>3, <2>3, <2>4 DEF CadenceInvariant
<1> QED
    BY <1>4, <1>5

LEMMA CadenceStep ==
    ASSUME Late = 0, CadenceInvariant, [Next]_vars
    PROVE  CadenceInvariant'
<1>1. MarkInvariant'
    BY MarkStep DEF CadenceInvariant
<1>2. ASSUME UNCHANGED <<lastPcr, pendingDiscontinuity, phase, job, inline, now, base, pcrs>>
      PROVE  CadenceInvariant'
    BY <1>1, <1>2
    DEF CadenceInvariant, ChainBehind, FrameIsLatest, InlineIsChain, WireFollows,
        WireSent, WireHeld, PcrCadence, Lowered
<1>3. ASSUME NEW t \in Tracks, NEW post \in Posts, SignalSplice(t, post)
      PROVE  CadenceInvariant'
    BY <1>2, <1>3 DEF SignalSplice
<1>4. ASSUME NEW t \in Tracks, NEW size \in Sizes, NEW key \in BOOLEAN, NEW timed \in BOOLEAN,
             NEW d \in Steps, NEW time \in {now + d, now - Late},
             WriteFrame(t, size, key, timed, time)
      PROVE  CadenceInvariant'
  <2>1. now <= time
    BY ClockAssumption DEF CadenceInvariant, MarkInvariant, ClockOK
  <2> QED
    BY <1>4, <2>1, FrameCadence
<1>5. CASE UNCHANGED vars
    BY <1>2, <1>5 DEF vars, state
<1> QED
    BY <1>3, <1>4, <1>5, DiscontinuityCadence, StandaloneCadence, BackfillCadence,
       BeginCadence, PayloadCadence DEF Next

(* Whatever the tracks, sizes, steps and number of frames: when no frame   *)
(* is shown before one written ahead of it, consecutive PCRs of one time   *)
(* base are never further apart than the interval and never step back.     *)
THEOREM CadenceKept == ASSUME Late = 0 PROVE Spec => []PcrCadence
<1>1. CadenceInvariant => PcrCadence
    BY DEF CadenceInvariant
<1> QED
    BY <1>1, InitialCadence, CadenceStep, PTL DEF Spec

------------------------------------------------------------------------------
(* The tables.  The PTS that counts towards the next ones is not above     *)
(* that of a frame shown with the last ones: a time base only moved up     *)
(* since.                                                                  *)
TablesBehind ==
    /\ lastPsi # None => lastPsi \in Nat /\ lastPsi <= psiAt + base
    /\ psiAt \in Nat
    /\ phase # "idle" =>
          /\ job.time \in Nat
          /\ job.pts \in {None, job.time + base}

TablesInvariant == now \in Nat /\ base \in Nat /\ TablesBehind /\ TablesRepeated

(* What a frame does to the count.                                         *)
LEMMA FrameTables ==
    ASSUME TablesInvariant, NEW t \in Tracks, NEW size \in Sizes,
           NEW key \in BOOLEAN, NEW timed \in BOOLEAN, NEW time,
           WriteFrame(t, size, key, timed, time)
    PROVE  TablesInvariant'
<1>1. /\ time \in Nat /\ base' = base
      /\ now' = IF time > now THEN time ELSE now
      /\ IF timed THEN RepeatPsi(time + base, time) ELSE UNCHANGED <<lastPsi, psiAt>>
    BY BoundAssumption DEF WriteFrame
<1>2. job'.time = time /\ job'.pts = IF timed THEN time + base ELSE None
  <2>1. job' = [track |-> t, time |-> time, key |-> key, pes |-> Envelopes(t, size),
                pts |-> IF timed THEN time + base ELSE None,
                first |-> TRUE, splice |-> None, run |-> None]
    BY DEF WriteFrame
  <2> QED
    BY <2>1
<1>3. now \in Nat /\ base \in Nat /\ psiAt \in Nat
      /\ (lastPsi # None => lastPsi \in Nat /\ lastPsi <= psiAt + base)
    BY DEF TablesInvariant, TablesBehind
<1>4. CASE timed
  <2>t. job'.time = time /\ job'.pts = time + base /\ base' = base /\ now' \in Nat
    BY <1>1, <1>2, <1>3, <1>4
  <2>r. RepeatPsi(time + base, time)
    BY <1>1, <1>4
  <2>1. CASE lastPsi = None \/ time + base - lastPsi >= PsiInterval
    <3>1. lastPsi' = time + base /\ psiAt' = time
      BY <1>1, <1>3, <2>r, <2>1 DEF RepeatPsi
    <3>2. time - time < PsiInterval /\ time + base \in Nat
      BY <1>1, <1>3, ClockAssumption
    <3> QED
      BY <1>1, <1>3, <2>t, <3>1, <3>2
      DEF TablesInvariant, TablesBehind, TablesRepeated
  <2>2. CASE ~(lastPsi = None \/ time + base - lastPsi >= PsiInterval)
    <3>1. lastPsi' = lastPsi /\ psiAt' = psiAt
      BY <1>1, <1>3, <2>r, <2>2 DEF RepeatPsi
    <3>2. time - psiAt < PsiInterval
      BY <1>1, <1>3, <2>2, ClockAssumption
    <3> QED
      BY <1>1, <1>3, <2>t, <3>1, <3>2
      DEF TablesInvariant, TablesBehind, TablesRepeated
  <2> QED
    BY <2>1, <2>2
<1>5. CASE ~timed
    BY <1>1, <1>2, <1>3, <1>5 DEF TablesInvariant, TablesBehind, TablesRepeated
<1> QED
    BY <1>4, <1>5

(* Every step keeps the count towards the next tables.                     *)
LEMMA TablesStep ==
    ASSUME StepBack = FALSE, TablesInvariant, [Next]_vars
    PROVE  TablesInvariant'
<1>1. ASSUME UNCHANGED <<lastPsi, psiAt, base, now>>,
             phase' # "idle" => phase # "idle" /\ job'.time = job.time /\ job'.pts = job.pts
      PROVE  TablesInvariant'
    BY <1>1 DEF TablesInvariant, TablesBehind, TablesRepeated
<1>2. ASSUME NEW t \in Tracks, NEW post \in Posts, SignalSplice(t, post)
      PROVE  TablesInvariant'
    BY <1>1, <1>2 DEF SignalSplice
<1>3. ASSUME NEW b \in Bases, SignalDiscontinuity(b)
      PROVE  TablesInvariant'
  <2>1. /\ b >= base /\ base' = b /\ b \in Nat /\ phase = "idle"
        /\ UNCHANGED <<lastPsi, psiAt, now, phase>>
    BY <1>3, ClockAssumption DEF SignalDiscontinuity
  <2> QED
    BY <2>1 DEF TablesInvariant, TablesBehind, TablesRepeated
<1>4. ASSUME NEW t \in Tracks, NEW size \in Sizes, NEW key \in BOOLEAN, NEW timed \in BOOLEAN,
             NEW d \in Steps, NEW time \in {now + d, now - Late},
             WriteFrame(t, size, key, timed, time)
      PROVE  TablesInvariant'
    BY <1>4, FrameTables
<1>5. CASE StandalonePcr \/ Backfill
    BY <1>1, <1>5 DEF StandalonePcr, Backfill
<1>6. CASE BeginPes
  <2>1. job'.time = job.time /\ job'.pts = job.pts
    <3> DEFINE k == job.key /\ (job.track # PcrTrack \/ job.pts # None)
               s == pendingSplice[job.track]
    <3>1. job' = [job EXCEPT !.key = k, !.splice = s]
      BY <1>6, Zenon DEF BeginPes
    <3> HIDE DEF k, s
    <3> QED
      BY <3>1
  <2> QED
    BY <1>1, <1>6, <2>1 DEF BeginPes
<1>7. CASE PayloadPacket
  <2>1. /\ UNCHANGED <<lastPsi, psiAt, base, now>> /\ phase = "pes"
        /\ phase' # "idle" =>
              \E pes : \E run : job' = [job EXCEPT !.pes = pes, !.first = FALSE, !.run = run]
    <3> DEFINE cd   == SpliceCountdown
               take == Min({Remaining, Room - AfSize(HasFlags, inline, cd # NoCountdown)})
               ends == take = Remaining
               done == ends /\ Len(job.pes) = 1
               pes  == IF ends THEN Tail(job.pes) ELSE <<Remaining - take>> \o Tail(job.pes)
               run  == IF Spliced /\ Run # None THEN Run - 1 ELSE None
    <3>1. /\ phase' = IF done THEN "idle" ELSE phase
          /\ job' = IF done THEN NoJob ELSE [job EXCEPT !.pes = pes, !.first = FALSE, !.run = run]
          /\ phase = "pes" /\ UNCHANGED <<lastPsi, psiAt, base, now>>
      BY <1>7, Zenon DEF PayloadPacket
    <3> HIDE DEF done, pes, run
    <3> QED
      BY <3>1
  <2>2. ASSUME phase' # "idle" PROVE job'.time = job.time /\ job'.pts = job.pts
    <3>1. PICK pes, run : job' = [job EXCEPT !.pes = pes, !.first = FALSE, !.run = run]
      BY <2>1, <2>2, Zenon
    <3> QED
      BY <3>1
  <2> QED
    BY <1>1, <2>1, <2>2
<1>8. CASE UNCHANGED vars
    BY <1>1, <1>8 DEF vars, state
<1> QED
    BY <1>2, <1>3, <1>4, <1>5, <1>6, <1>7, <1>8 DEF Next

(* Whatever the interval, the tracks and the order of the frames: if no    *)
(* time base is below the one before, no frame with a PTS goes out an      *)
(* interval of stream time or more behind the tables, however many time    *)
(* bases were announced between (muxer.rs: maybe_repeat_psi,               *)
(* signal_time_base_discontinuity).                                        *)
THEOREM TablesInTime == ASSUME StepBack = FALSE PROVE Spec => []TablesRepeated
<1>1. Init => TablesInvariant
    BY ClockAssumption DEF Init, TablesInvariant, TablesBehind, TablesRepeated, None
<1>2. TablesInvariant => TablesRepeated
    BY DEF TablesInvariant
<1> QED
    BY <1>1, <1>2, TablesStep, PTL DEF Spec

------------------------------------------------------------------------------
(* The splice countdowns.                                                  *)
Jobs == [track : Tracks, time : Int, key : BOOLEAN, pes : Seq(Nat \ {0}), pts : Int,
         first : BOOLEAN, splice : Maybe(Posts), run : Maybe(1 .. MaxRun)]

CountTypes ==
    /\ now \in Nat /\ base \in Nat
    /\ phase \in {"idle", "pcr", "pes"}
    /\ pendingSplice \in [Tracks -> Maybe(Posts)]
    /\ postSplice \in [Tracks -> Nat \X Nat]
    /\ after \in [Tracks -> Nat \X Nat]
    /\ countdown \in [Tracks -> Int]
    /\ phase # "idle" => job \in Jobs /\ Len(job.pes) > 0
    /\ phase = "pcr" => job.run = None

(* Room for payload in a packet with a splice_countdown and nothing else.  *)
Later == Room - AfSize(FALSE, None, TRUE)

(* A run that has begun is the number of packets its envelope still takes. *)
RunFits ==
    phase = "pes" /\ job.run # None =>
        /\ ~job.first /\ inline = None /\ Spliced
        /\ job.run = PacketsNeeded(Remaining, Later, Later)

(* A positive countdown that was sent is that run.                         *)
RunSent ==
    \A t \in Tracks :
        countdown[t] \in 1 .. MaxRun - 1 =>
            phase = "pes" /\ job.track = t /\ Spliced /\ job.run = countdown[t]

(* The negative countdown is at the packets behind the splicing point, as  *)
(* long as another one has not superseded it.                              *)
PostIsAfter ==
    \A t \in Tracks :
        \/ postSplice[t] = IF after[t][1] < after[t][2]
                           THEN <<after[t][1] + 1, after[t][2]>> ELSE NoRun
        \/ phase = "pes" /\ job.track = t /\ Spliced /\ postSplice[t] = NoRun

CountInvariant == CountTypes /\ RunFits /\ RunSent /\ PostIsAfter

(* What the packet at hand takes and what it carries, as PayloadPacket     *)
(* defines them.                                                           *)
Capacity == Room - AfSize(HasFlags, inline, SpliceCountdown # NoCountdown)
Take     == Min({Remaining, Capacity})
Ends     == Take = Remaining

(* The smaller of two numbers.                                             *)
LEMMA Smaller ==
    ASSUME NEW a \in Int, NEW b \in Int
    PROVE  Min({a, b}) = IF a <= b THEN a ELSE b
<1> DEFINE m == IF a <= b THEN a ELSE b
<1>1. m \in {a, b} /\ \A y \in {a, b} : m <= y
    OBVIOUS
<1>2. ASSUME NEW x \in {a, b}, \A y \in {a, b} : x <= y PROVE x = m
    BY <1>2
<1> QED
    BY <1>1, <1>2 DEF Min

(* The splice_countdown takes a part or two, an adaptation field at most   *)
(* four.                                                                   *)
LEMMA FieldSizes ==
    /\ Later = 6
    /\ Room - AfSize(HasFlags, inline, TRUE) \in 4 .. 6
    /\ Capacity \in 4 .. 8 /\ Capacity <= (Room - AfSize(HasFlags, inline, TRUE)) + 2
    /\ SpliceCountdown # NoCountdown => Capacity = Room - AfSize(HasFlags, inline, TRUE)
    /\ ~job.first /\ inline = None => Room - AfSize(HasFlags, inline, TRUE) = Later
<1> DEFINE with    == AfSize(HasFlags, inline, TRUE)
           without == AfSize(HasFlags, inline, FALSE)
           is      == AfSize(HasFlags, inline, SpliceCountdown # NoCountdown)
           least   == AfSize(FALSE, None, TRUE)
<1>1. with \in {2, 4} /\ without \in {0, 1, 3} /\ without <= with /\ with <= without + 2
    BY DEF AfSize
<1>2. least = 2
    BY DEF AfSize
<1>3. (SpliceCountdown # NoCountdown => is = with) /\ (~(SpliceCountdown # NoCountdown) => is = without)
    BY Zenon DEF AfSize
<1>4. ~job.first /\ inline = None => with = least
    BY Zenon DEF AfSize, HasFlags
<1> HIDE DEF with, without, least, is
<1>5. /\ Room - with \in 4 .. 6 /\ Room - is \in 4 .. 8
      /\ Room - is <= (Room - with) + 2 /\ Room - least = 6
    BY <1>1, <1>2, <1>3 DEF Room
<1>6. Capacity = Room - is /\ Later = Room - least
    BY DEF Capacity, Later, is, least
<1> QED
    BY <1>3, <1>4, <1>5, <1>6 DEF with

(* The count is one when the rest fits, else one more than that of what    *)
(* the packet leaves; three or more do not fit into a packet without a     *)
(* splice_countdown.                                                       *)
LEMMA PacketsCounted ==
    ASSUME NEW rest \in Nat \ {0}, NEW room \in 4 .. 6
    PROVE  /\ PacketsNeeded(rest, room, Later) \in Nat \ {0}
           /\ PacketsNeeded(rest, room, Later) = 1 <=> rest <= room
           /\ PacketsNeeded(rest, room, Later) > 2 => rest > room + 2
           /\ rest > room =>
                 PacketsNeeded(rest - room, Later, Later) = PacketsNeeded(rest, room, Later) - 1
<1>1. Later = 6
    BY FieldSizes
<1>2. CASE rest <= room
    BY <1>1, <1>2 DEF PacketsNeeded
<1>3. CASE rest > room
  <2> DEFINE left == rest - room
             n    == (left + 5) \div 6
  <2>1. left \in Nat \ {0} /\ n \in Nat \ {0} /\ 6 * n <= left + 5 /\ left + 5 < 6 * n + 6
    BY <1>3
  <2>2. PacketsNeeded(rest, room, Later) = 1 + n
    <3>1. left + 6 - 1 = left + 5
      BY <2>1
    <3> QED
      BY <1>1, <1>3, <3>1 DEF PacketsNeeded
  <2>3. PacketsNeeded(left, Later, Later) = n
    <3>1. CASE left <= 6
      <4>1. n = 1
        BY <2>1, <3>1
      <4> QED
        BY <1>1, <3>1, <4>1 DEF PacketsNeeded
    <3>2. CASE left > 6
      <4>1. (left - 6 + 6 - 1) \div 6 = n - 1
        <5>1. left - 6 + 6 - 1 = (left + 5) - 6
          BY <2>1
        <5> QED
          BY <2>1, <5>1
      <4> QED
        BY <1>1, <2>1, <3>2, <4>1 DEF PacketsNeeded
    <3> QED
      BY <2>1, <3>1, <3>2
  <2> HIDE DEF n
  <2>4. 1 + n > 2 => left > 2
    BY <2>1
  <2> QED
    BY <1>3, <2>1, <2>2, <2>3, <2>4
<1> QED
    BY <1>2, <1>3

(* The packet at hand, once the types are known.                           *)
LEMMA PacketTaken ==
    ASSUME CountTypes, phase = "pes"
    PROVE  /\ Remaining \in Nat \ {0} /\ Take \in Nat \ {0} /\ Take <= Remaining
           /\ Len(job.pes) \in Nat \ {0} /\ Tail(job.pes) \in Seq(Nat \ {0})
           /\ job.pes = <<Remaining>> \o Tail(job.pes)
           /\ Len(Tail(job.pes)) = Len(job.pes) - 1
           /\ Take = IF Remaining <= Capacity THEN Remaining ELSE Capacity
           /\ Ends <=> Remaining <= Capacity
<1>1. job.pes \in Seq(Nat \ {0}) /\ Len(job.pes) > 0
    BY DEF CountTypes, Jobs
<1>2. /\ Remaining \in Nat \ {0} /\ Len(job.pes) \in Nat \ {0} /\ Tail(job.pes) \in Seq(Nat \ {0})
      /\ Len(Tail(job.pes)) = Len(job.pes) - 1
    BY <1>1 DEF Remaining
<1>3. job.pes = <<Remaining>> \o Tail(job.pes)
    BY <1>1 DEF Remaining
<1>4. Take = IF Remaining <= Capacity THEN Remaining ELSE Capacity
    BY <1>2, FieldSizes, Smaller DEF Take
<1>5. Take \in Nat \ {0} /\ Take <= Remaining /\ (Ends <=> Remaining <= Capacity)
    BY <1>2, <1>4, FieldSizes DEF Ends
<1> QED
    BY <1>2, <1>3, <1>4, <1>5

(* An envelope that is counted ends with the packet of the count of one,   *)
(* and else goes on with a run less by one.                                *)
LEMMA RunCounts ==
    ASSUME CountInvariant, phase = "pes", Spliced
    PROVE  /\ Run \in Maybe(1 .. MaxRun)
           /\ SpliceCountdown = IF Run = None THEN NoCountdown ELSE Run - 1
           /\ Run = None => ~Ends
           /\ Run # None => /\ SpliceCountdown # NoCountdown
                            /\ Ends <=> Run = 1
                            /\ ~Ends => Run - 1 = PacketsNeeded(Remaining - Take, Later, Later)
<1> DEFINE room == Room - AfSize(HasFlags, inline, TRUE)
           fits == PacketsNeeded(Remaining, room, Later)
<1>1. /\ Remaining \in Nat \ {0} /\ (Ends <=> Remaining <= Capacity)
      /\ Take = IF Remaining <= Capacity THEN Remaining ELSE Capacity
    BY PacketTaken DEF CountInvariant
<1>2. room \in 4 .. 6 /\ Later = 6 /\ Capacity \in 4 .. 8 /\ Capacity <= room + 2
      /\ (SpliceCountdown # NoCountdown => Capacity = room)
    BY FieldSizes
<1>3. SpliceCountdown = IF Run = None THEN NoCountdown ELSE Run - 1
    BY DEF SpliceCountdown
<1>4. job.run \in Maybe(1 .. MaxRun)
    BY DEF CountInvariant, CountTypes, Jobs
<1>5. Run = IF job.run # None THEN job.run ELSE IF fits <= MaxRun THEN fits ELSE None
    BY DEF Run, Later
<1>6. job.run # None => room = Later /\ job.run = fits
  <2> SUFFICES ASSUME job.run # None PROVE room = Later /\ job.run = fits
    OBVIOUS
  <2>1. ~job.first /\ inline = None /\ job.run = PacketsNeeded(Remaining, Later, Later)
    BY DEF CountInvariant, RunFits
  <2>3. room = Later
    BY <2>1, FieldSizes
  <2> QED
    BY <2>1, <2>3
<1> HIDE DEF room, fits
<1>7. /\ fits \in Nat \ {0} /\ (fits = 1 <=> Remaining <= room)
      /\ (fits > 2 => Remaining > room + 2)
      /\ (Remaining > room => PacketsNeeded(Remaining - room, Later, Later) = fits - 1)
    BY <1>1, <1>2, PacketsCounted DEF fits
<1>8. MaxRun \in Nat /\ MaxRun > 1
    BY SizeAssumption
<1>9. Run \in Maybe(1 .. MaxRun) /\ (Run # None => Run = fits) /\ (Run = None => fits > MaxRun)
  <2>1. CASE job.run # None
    BY <1>4, <1>5, <1>6, <2>1
  <2>2. CASE job.run = None
    <3>1. Run = IF fits <= MaxRun THEN fits ELSE None
      BY <1>5, <2>2
    <3>2. fits \in Nat \ {0} /\ fits # None
      BY <1>7 DEF None
    <3> QED
      BY <1>8, <3>1, <3>2 DEF Maybe
  <2> QED
    BY <2>1, <2>2
<1>10. ASSUME Run = None PROVE ~Ends
  <2>1. fits > 2
    BY <1>7, <1>8, <1>9, <1>10
  <2> QED
    BY <1>1, <1>2, <1>7, <2>1
<1>11. ASSUME Run # None
       PROVE  /\ SpliceCountdown # NoCountdown
              /\ Ends <=> Run = 1
              /\ ~Ends => Run - 1 = PacketsNeeded(Remaining - Take, Later, Later)
  <2>1. SpliceCountdown # NoCountdown
    BY <1>3, <1>8, <1>9, <1>11 DEF NoCountdown, Maybe
  <2>2. Capacity = room
    BY <1>2, <2>1
  <2> QED
    BY <1>1, <1>2, <1>7, <1>9, <1>11, <2>1, <2>2
<1> QED
    BY <1>3, <1>9, <1>10, <1>11

LEMMA HeadAndTail ==
    ASSUME NEW S, NEW x \in S, NEW s \in Seq(S)
    PROVE  /\ <<x>> \o s \in Seq(S)
           /\ Len(<<x>> \o s) = Len(s) + 1 /\ Head(<<x>> \o s) = x
<1> DEFINE one == <<x>>
<1>1. one \in Seq(S) /\ Len(one) = 1 /\ one[1] = x
    OBVIOUS
<1> HIDE DEF one
<1>2. one \o s \in Seq(S)
    BY <1>1, ConcatProperties, Zenon
<1>3. Len(one \o s) = Len(one) + Len(s) /\ Len(s) \in Nat
    BY <1>1, ConcatProperties, LenProperties, Zenon
<1>4. (one \o s)[1] = x
    BY <1>1, <1>2, ConcatProperties
<1>5. Len(one \o s) = Len(s) + 1
    BY <1>1, <1>3
<1>6. Head(one \o s) = (one \o s)[1]
  <2> DEFINE q == one \o s
  <2>1. q \in Seq(S) /\ Len(q) \in Nat \ {0}
    BY <1>2, <1>3, <1>5
  <2> HIDE DEF q
  <2>2. Head(q) = q[1]
    BY <2>1
  <2> QED
    BY <2>2 DEF q
<1> QED
    BY <1>2, <1>4, <1>5, <1>6 DEF one

(* What a payload packet does to the frame in hand.                        *)
LEMMA PayloadJob ==
    ASSUME CountInvariant, PayloadPacket
    PROVE  /\ phase = "pes" /\ job \in Jobs /\ phase' \in {"idle", "pes"}
           /\ phase' = "idle" <=> Ends /\ Len(job.pes) = 1
           /\ phase' # "idle" =>
                 /\ job' \in Jobs /\ Len(job'.pes) > 0
                 /\ job'.track = job.track /\ job'.splice = job.splice /\ ~job'.first
                 /\ job'.run = IF Spliced /\ Run # None THEN Run - 1 ELSE None
                 /\ Spliced => Spliced' /\ ~Ends /\ Remaining' = Remaining - Take
           /\ postSplice' = [postSplice EXCEPT ![job.track] = PostAfter(Ends)]
           /\ countdown' = [countdown EXCEPT ![job.track] = SpliceCountdown]
           /\ after' = [after EXCEPT ![job.track] =
                           IF Spliced /\ Ends THEN <<0, job.splice>>
                           ELSE <<Min({@[1] + 1, @[2]}), @[2]>>]
           /\ inline' = None /\ UNCHANGED <<pendingSplice, now, base>>
<1> DEFINE done == Ends /\ Len(job.pes) = 1
           pes  == IF Ends THEN Tail(job.pes) ELSE <<Remaining - Take>> \o Tail(job.pes)
           run  == IF Spliced /\ Run # None THEN Run - 1 ELSE None
<1>1. /\ phase = "pes" /\ phase' = IF done THEN "idle" ELSE phase
      /\ job' = IF done THEN NoJob ELSE [job EXCEPT !.pes = pes, !.first = FALSE, !.run = run]
      /\ postSplice' = [postSplice EXCEPT ![job.track] = PostAfter(Ends)]
      /\ countdown' = [countdown EXCEPT ![job.track] = SpliceCountdown]
      /\ after' = [after EXCEPT ![job.track] =
                      IF Spliced /\ Ends THEN <<0, job.splice>>
                      ELSE <<Min({@[1] + 1, @[2]}), @[2]>>]
      /\ inline' = None /\ UNCHANGED <<pendingSplice, now, base>>
    BY Zenon DEF PayloadPacket, Take, Ends, Capacity
<1>2. job \in Jobs /\ phase # "idle"
    BY <1>1 DEF CountInvariant, CountTypes
<1>3. /\ Remaining \in Nat \ {0} /\ Take \in Nat \ {0} /\ Take <= Remaining
      /\ Len(job.pes) \in Nat \ {0} /\ Tail(job.pes) \in Seq(Nat \ {0})
      /\ Len(Tail(job.pes)) = Len(job.pes) - 1
    BY <1>1, PacketTaken DEF CountInvariant
<1>4. ~Ends => Remaining - Take \in Nat \ {0}
    BY <1>3 DEF Ends
<1>5. pes \in Seq(Nat \ {0}) /\ (~done => Len(pes) > 0)
      /\ (~Ends => Len(pes) = Len(job.pes) /\ Head(pes) = Remaining - Take)
  <2>1. CASE Ends
    <3>1. pes = Tail(job.pes) /\ (~done => Len(job.pes) # 1)
      BY <2>1
    <3>2. pes \in Seq(Nat \ {0}) /\ Len(pes) = Len(job.pes) - 1
      BY <1>3, <3>1, Zenon
    <3> HIDE DEF pes, done
    <3>3. ~done => Len(pes) > 0
      <4> DEFINE n == Len(pes)
                 m == Len(job.pes)
      <4>1. n = m - 1 /\ m \in Nat \ {0} /\ (~done => m # 1)
        BY <1>3, <3>1, <3>2
      <4> HIDE DEF n, m
      <4>2. ~done => n > 0
        BY <4>1
      <4> QED
        BY <4>2 DEF n
    <3> QED
      BY <2>1, <3>2, <3>3
  <2>2. CASE ~Ends
    <3>1. pes = <<Remaining - Take>> \o Tail(job.pes)
      BY <2>2
    <3>2. pes \in Seq(Nat \ {0}) /\ Len(pes) = Len(Tail(job.pes)) + 1 /\ Head(pes) = Remaining - Take
      BY <1>3, <1>4, <2>2, <3>1, HeadAndTail
    <3> QED
      BY <1>3, <2>2, <3>2
  <2> QED
    BY <2>1, <2>2
<1>6. ~done => run \in Maybe(1 .. MaxRun)
  <2> SUFFICES ASSUME ~done, Spliced, Run # None PROVE Run - 1 \in 1 .. MaxRun
    BY DEF Maybe
  <2>1. ~Ends
    BY DEF Spliced
  <2>2. Run \in Maybe(1 .. MaxRun) /\ Run # 1
    BY <1>1, <2>1, RunCounts
  <2> QED
    BY <2>2, SizeAssumption DEF Maybe
<1> HIDE DEF pes, run
<1>7. ASSUME ~done
      PROVE  /\ job' \in Jobs /\ Len(job'.pes) > 0
             /\ job'.track = job.track /\ job'.splice = job.splice /\ ~job'.first
             /\ job'.run = run /\ job'.pes = pes
    BY <1>1, <1>2, <1>5, <1>6, <1>7 DEF Jobs
<1>8. ASSUME ~done, Spliced
      PROVE  Spliced' /\ ~Ends /\ Remaining' = Remaining - Take
  <2>1. Len(job.pes) = 1 /\ job.splice # None /\ ~Ends
    BY <1>8 DEF Spliced
  <2> QED
    BY <1>5, <1>7, <1>8, <2>1 DEF Spliced, Remaining
<1>9. phase' = "idle" <=> done
    BY <1>1
<1> QED
    BY <1>1, <1>2, <1>7, <1>8, <1>9 DEF run

(* One lemma a part of the invariant, for the payload packet.              *)
LEMMA PayloadRun ==
    ASSUME CountInvariant, PayloadPacket
    PROVE  RunFits' /\ RunSent'
<1>1. RunFits'
  <2> SUFFICES ASSUME phase' = "pes", job'.run # None
               PROVE  /\ ~job'.first /\ inline' = None /\ Spliced'
                      /\ job'.run = PacketsNeeded(Remaining', Later, Later)
    BY DEF RunFits, PacketsNeeded, Later, AfSize, None, Room
  <2>1. Spliced /\ Run # None /\ job'.run = Run - 1 /\ ~job'.first
    BY PayloadJob
  <2>2. Spliced' /\ ~Ends /\ Remaining' = Remaining - Take /\ inline' = None
    BY <2>1, PayloadJob
  <2>3. Run - 1 = PacketsNeeded(Remaining - Take, Later, Later)
    BY <2>1, <2>2, PayloadJob, RunCounts
  <2> QED
    BY <2>1, <2>2, <2>3
<1>2. RunSent'
  <2> SUFFICES ASSUME NEW t \in Tracks, countdown'[t] \in 1 .. MaxRun - 1
               PROVE  phase' = "pes" /\ job'.track = t /\ Spliced' /\ job'.run = countdown'[t]
    BY DEF RunSent
  <2>1. job.track \in Tracks /\ countdown \in [Tracks -> Int] /\ phase = "pes"
    BY PayloadJob DEF Jobs, CountInvariant, CountTypes
  <2>2. CASE t # job.track
    <3>1. countdown'[t] = countdown[t]
      BY <2>1, <2>2, PayloadJob
    <3> QED
      BY <2>2, <3>1 DEF CountInvariant, RunSent
  <2>3. CASE t = job.track
    <3>1. countdown'[t] = SpliceCountdown
      BY <2>1, <2>3, PayloadJob
    <3>2. CASE Spliced
      <4>1. Run # None /\ countdown'[t] = Run - 1
        BY <2>1, <3>1, <3>2, RunCounts DEF NoCountdown
      <4>2. ~Ends
        BY <2>1, <3>2, <4>1, RunCounts
      <4> QED
        BY <2>3, <3>2, <4>1, <4>2, PayloadJob
    <3>3. CASE ~Spliced
      <4>1. postSplice[t] \in Nat \X Nat
        BY DEF CountInvariant, CountTypes
      <4>2. SpliceCountdown = NoCountdown \/ SpliceCountdown = -postSplice[t][1]
        BY <2>3, <3>3 DEF SpliceCountdown
      <4> QED
        BY <3>1, <4>1, <4>2, SizeAssumption DEF NoCountdown
    <3> QED
      BY <3>2, <3>3
  <2> QED
    BY <2>2, <2>3
<1> QED
    BY <1>1, <1>2

(* The negative countdown and its history step together.                   *)
LEMMA PayloadPost ==
    ASSUME CountInvariant, PayloadPacket
    PROVE  /\ PostIsAfter'
           /\ postSplice' \in [Tracks -> Nat \X Nat] /\ after' \in [Tracks -> Nat \X Nat]
<1> DEFINE u == job.track
           n == after[u][1]
           m == after[u][2]
           p == postSplice[u]
<1>1. /\ u \in Tracks /\ phase = "pes" /\ job.splice \in Maybe(Posts)
      /\ postSplice \in [Tracks -> Nat \X Nat] /\ after \in [Tracks -> Nat \X Nat]
    BY PayloadJob DEF Jobs, CountInvariant, CountTypes
<1>2. n \in Nat /\ m \in Nat /\ after[u] = <<n, m>> /\ p \in Nat \X Nat
    BY <1>1
<1>3. (p = IF n < m THEN <<n + 1, m>> ELSE NoRun) \/ (Spliced /\ p = NoRun)
    BY <1>1 DEF CountInvariant, PostIsAfter
<1>4. /\ postSplice'[u] = PostAfter(Ends)
      /\ after'[u] = IF Spliced /\ Ends THEN <<0, job.splice>> ELSE <<Min({n + 1, m}), m>>
      /\ \A t \in Tracks \ {u} : postSplice'[t] = postSplice[t] /\ after'[t] = after[t]
      /\ DOMAIN postSplice' = Tracks /\ DOMAIN after' = Tracks
    BY <1>1, PayloadJob
<1>5. Min({n + 1, m}) = IF n + 1 <= m THEN n + 1 ELSE m
    BY <1>2, Smaller
<1>6. \/ postSplice'[u] = IF after'[u][1] < after'[u][2]
                          THEN <<after'[u][1] + 1, after'[u][2]>> ELSE NoRun
      \/ phase' = "pes" /\ job'.track = u /\ Spliced' /\ postSplice'[u] = NoRun
  <2>1. CASE Spliced /\ Ends
    <3>1. after'[u] = <<0, job.splice>>
          /\ postSplice'[u] = IF job.splice > 0 THEN <<1, job.splice>> ELSE NoRun
      BY <1>4, <2>1 DEF PostAfter
    <3> QED
      BY <3>1
  <2>2. CASE Spliced /\ ~Ends
    <3>1. postSplice'[u] = NoRun
      BY <1>4, <2>2 DEF PostAfter
    <3>2. phase' = "pes" /\ job'.track = u /\ Spliced'
      BY <2>2, PayloadJob
    <3> QED
      BY <3>1, <3>2
  <2>3. CASE ~Spliced
    <3>1. after'[u] = <<IF n + 1 <= m THEN n + 1 ELSE m, m>>
      BY <1>4, <1>5, <2>3
    <3>2. postSplice'[u] = IF p[1] < p[2] THEN <<p[1] + 1, p[2]>> ELSE NoRun
      BY <1>4, <2>3 DEF PostAfter
    <3>3. p = IF n < m THEN <<n + 1, m>> ELSE NoRun
      BY <1>3, <2>3
    <3>4. CASE n + 1 < m
      BY <1>2, <3>1, <3>2, <3>3, <3>4
    <3>5. CASE ~(n + 1 < m)
      BY <1>2, <3>1, <3>2, <3>3, <3>5 DEF NoRun
    <3> QED
      BY <3>4, <3>5
  <2> QED
    BY <2>1, <2>2, <2>3
<1>7. postSplice'[u] \in Nat \X Nat /\ after'[u] \in Nat \X Nat
  <2>1. CASE Spliced /\ Ends
    <3>1. job.splice \in Nat
      BY <1>1, <2>1, SizeAssumption DEF Spliced, Maybe
    <3> QED
      BY <1>4, <2>1, <3>1 DEF PostAfter, NoRun
  <2>2. CASE ~(Spliced /\ Ends)
    <3>1. after'[u] \in Nat \X Nat
      BY <1>2, <1>4, <1>5, <2>2
    <3>2. postSplice'[u] \in Nat \X Nat
      BY <1>2, <1>4, <2>2 DEF PostAfter, NoRun
    <3> QED
      BY <3>1, <3>2
  <2> QED
    BY <2>1, <2>2
<1> HIDE DEF n, m, p
<1>8. postSplice' \in [Tracks -> Nat \X Nat] /\ after' \in [Tracks -> Nat \X Nat]
  <2>1. \A t \in Tracks : postSplice'[t] \in Nat \X Nat /\ after'[t] \in Nat \X Nat
    BY <1>1, <1>4, <1>7
  <2>2. postSplice' = [t \in Tracks |-> postSplice'[t]] /\ after' = [t \in Tracks |-> after'[t]]
    BY <1>1, PayloadJob
  <2> QED
    BY <2>1, <2>2
<1>9. PostIsAfter'
  <2> SUFFICES ASSUME NEW t \in Tracks
               PROVE  \/ postSplice'[t] = IF after'[t][1] < after'[t][2]
                                          THEN <<after'[t][1] + 1, after'[t][2]>> ELSE NoRun
                      \/ phase' = "pes" /\ job'.track = t /\ Spliced' /\ postSplice'[t] = NoRun
    BY DEF PostIsAfter, NoRun
  <2>1. CASE t = u
    BY <1>6, <2>1
  <2>2. CASE t # u
    BY <1>1, <1>4, <2>2 DEF CountInvariant, PostIsAfter
  <2> QED
    BY <2>1, <2>2
<1> QED
    BY <1>8, <1>9

(* The calls that put a frame in hand or begin its envelopes send nothing. *)
LEMMA FrameCount ==
    ASSUME CountInvariant, NEW t \in Tracks, NEW size \in Sizes,
           NEW key \in BOOLEAN, NEW timed \in BOOLEAN, NEW time,
           WriteFrame(t, size, key, timed, time)
    PROVE  CountInvariant'
<1> DEFINE pes == Envelopes(t, size)
           pts == IF timed THEN time + base ELSE None
<1>1. /\ phase = "idle" /\ phase' = "pcr" /\ time \in Nat
      /\ now' = IF time > now THEN time ELSE now
      /\ job' = [track |-> t, time |-> time, key |-> key, pes |-> pes, pts |-> pts,
                 first |-> TRUE, splice |-> None, run |-> None]
      /\ UNCHANGED <<pendingSplice, postSplice, after, countdown, base, inline>>
    BY BoundAssumption DEF WriteFrame
<1>2. pes \in Seq(Nat \ {0}) /\ Len(pes) > 0
  <2>1. size \in Nat \ {0} /\ MaxBounded \in Nat \ {0}
    BY SizeAssumption
  <2> DEFINE full == (size - 1) \div MaxBounded
             most == [i \in 1..full |-> MaxBounded]
             rest == size - full * MaxBounded
  <2>2. full \in Nat /\ rest \in Nat \ {0}
    <3>1. /\ full \in Int /\ full >= 0 /\ full * MaxBounded \in Int
          /\ (size - 1) % MaxBounded \in 0 .. MaxBounded - 1
          /\ size - 1 = full * MaxBounded + ((size - 1) % MaxBounded)
      BY <2>1
    <3> QED
      BY <2>1, <3>1
  <2>3. pes = IF t \in Unbounded THEN <<size>> ELSE Append(most, rest)
    BY DEF Envelopes
  <2> HIDE DEF full, rest, pes
  <2>4. most \in Seq(Nat \ {0}) /\ Len(most) = full
    BY <2>1, <2>2
  <2> HIDE DEF most
  <2>5. Append(most, rest) \in Seq(Nat \ {0}) /\ Len(Append(most, rest)) = full + 1
    BY <2>2, <2>4
  <2>6. CASE t \in Unbounded
    BY <2>1, <2>3, <2>6
  <2>7. CASE t \notin Unbounded
    BY <2>2, <2>3, <2>5, <2>7
  <2> QED
    BY <2>6, <2>7
<1>3. pts \in Int
    BY <1>1 DEF CountInvariant, CountTypes, None
<1> HIDE DEF pes, pts
<1>4. job' \in Jobs /\ job'.pes = pes /\ job'.run = None
    BY <1>1, <1>2, <1>3 DEF Jobs, Maybe, None
<1>5. CountTypes'
    BY <1>1, <1>2, <1>4 DEF CountInvariant, CountTypes, Maybe, None
<1>6. RunFits' /\ RunSent' /\ PostIsAfter'
    BY <1>1 DEF CountInvariant, RunFits, RunSent, PostIsAfter, NoRun
<1> QED
    BY <1>5, <1>6 DEF CountInvariant

(* The splice point that was armed is taken by the frame.                  *)
LEMMA BeginCount ==
    ASSUME CountInvariant, BeginPes
    PROVE  CountInvariant'
<1> DEFINE k == job.key /\ (job.track # PcrTrack \/ job.pts # None)
           s == pendingSplice[job.track]
<1>1. /\ phase = "pcr" /\ phase' = "pes" /\ job' = [job EXCEPT !.key = k, !.splice = s]
      /\ pendingSplice' = [pendingSplice EXCEPT ![job.track] = None]
      /\ UNCHANGED <<postSplice, after, countdown, now, base>>
    BY Zenon DEF BeginPes
<1>2. job \in Jobs /\ Len(job.pes) > 0 /\ job.run = None /\ job.track \in Tracks
    BY <1>1 DEF CountInvariant, CountTypes, Jobs
<1>3. s \in Maybe(Posts)
    BY <1>2 DEF CountInvariant, CountTypes
<1>4. k \in BOOLEAN
    BY <1>2, Zenon DEF Jobs
<1> HIDE DEF k, s
<1>5. job' \in Jobs /\ job'.pes = job.pes /\ job'.run = None
    BY <1>1, <1>2, <1>3, <1>4 DEF Jobs
<1>6. CountTypes'
    BY <1>1, <1>2, <1>5 DEF CountInvariant, CountTypes, Maybe
<1>7. RunFits'
    BY <1>5 DEF RunFits, None
<1>8. RunSent' /\ PostIsAfter'
    BY <1>1 DEF CountInvariant, RunSent, PostIsAfter, NoRun
<1> QED
    BY <1>6, <1>7, <1>8 DEF CountInvariant

(* What a payload packet keeps of the countdowns.                          *)
LEMMA PayloadCount ==
    ASSUME CountInvariant, PayloadPacket
    PROVE  CountInvariant'
<1>1. /\ phase' \in {"idle", "pes"} /\ (phase' # "idle" => job' \in Jobs /\ Len(job'.pes) > 0)
      /\ UNCHANGED <<pendingSplice, now, base>>
      /\ countdown' = [countdown EXCEPT ![job.track] = SpliceCountdown]
      /\ job.track \in Tracks /\ phase = "pes"
    BY PayloadJob DEF Jobs
<1>2. SpliceCountdown \in Int
  <2>1. CASE Spliced
    BY <1>1, <2>1, RunCounts, SizeAssumption DEF Maybe, NoCountdown
  <2>2. CASE ~Spliced
    <3>1. postSplice[job.track] \in Nat \X Nat
      BY <1>1 DEF CountInvariant, CountTypes
    <3> QED
      BY <2>2, <3>1, SizeAssumption DEF SpliceCountdown, NoCountdown
  <2> QED
    BY <2>1, <2>2
<1>3. countdown' \in [Tracks -> Int]
    BY <1>1, <1>2 DEF CountInvariant, CountTypes
<1>4. CountTypes'
    BY <1>1, <1>3, PayloadPost DEF CountInvariant, CountTypes, Maybe
<1> QED
    BY <1>4, PayloadPost, PayloadRun DEF CountInvariant

(* Every step keeps the countdowns.                                        *)
LEMMA CountStep ==
    ASSUME CountInvariant, [Next]_vars
    PROVE  CountInvariant'
<1>1. ASSUME UNCHANGED <<phase, job, postSplice, after, countdown, now, inline>>,
             base' \in Nat, pendingSplice' \in [Tracks -> Maybe(Posts)]
      PROVE  CountInvariant'
  <2>1. CountTypes'
    BY <1>1 DEF CountInvariant, CountTypes, Maybe
  <2>2. Spliced' <=> Spliced
    BY <1>1 DEF Spliced
  <2>3. RunFits'
    BY <1>1, <2>2 DEF CountInvariant, RunFits, Remaining, PacketsNeeded, Later, Room, AfSize, None
  <2>4. RunSent' /\ PostIsAfter'
    BY <1>1, <2>2 DEF CountInvariant, RunSent, PostIsAfter, NoRun
  <2> QED
    BY <2>1, <2>3, <2>4 DEF CountInvariant
<1>2. base \in Nat /\ pendingSplice \in [Tracks -> Maybe(Posts)]
    BY DEF CountInvariant, CountTypes
<1>3. ASSUME NEW t \in Tracks, NEW post \in Posts, SignalSplice(t, post)
      PROVE  CountInvariant'
    BY <1>1, <1>2, <1>3 DEF SignalSplice, Maybe
<1>4. ASSUME NEW b \in Bases, SignalDiscontinuity(b)
      PROVE  CountInvariant'
    BY <1>1, <1>2, <1>4, ClockAssumption DEF SignalDiscontinuity
<1>5. ASSUME NEW t \in Tracks, NEW size \in Sizes, NEW key \in BOOLEAN, NEW timed \in BOOLEAN,
             NEW d \in Steps, NEW time \in {now + d, now - Late},
             WriteFrame(t, size, key, timed, time)
      PROVE  CountInvariant'
    BY <1>5, FrameCount
<1>6. CASE StandalonePcr \/ Backfill
    BY <1>1, <1>2, <1>6 DEF StandalonePcr, Backfill
<1>7. CASE UNCHANGED vars
    BY <1>1, <1>2, <1>7 DEF vars, state
<1> QED
    BY <1>3, <1>4, <1>5, <1>6, <1>7, BeginCount, PayloadCount DEF Next

(* At first no track counts.                                               *)
LEMMA InitialCount == Init => CountInvariant
<1> SUFFICES ASSUME Init PROVE CountInvariant
    OBVIOUS
<1>1. CountTypes
    BY SizeAssumption, ClockAssumption DEF Init, CountTypes, Maybe, NoRun, NoCountdown
<1>2. RunFits
    BY DEF Init, RunFits
<1>3. RunSent
    BY SizeAssumption DEF Init, RunSent, NoCountdown
<1>4. PostIsAfter
    BY DEF Init, PostIsAfter, NoRun
<1> QED
    BY <1>1, <1>2, <1>3, <1>4 DEF CountInvariant

(* What one payload packet carries, given the invariant.                   *)
LEMMA PayloadCarries ==
    ASSUME CountInvariant, PayloadPacket
    PROVE  LET t == job.track
               was == countdown[t]
               is  == countdown'[t]
           IN  /\ was \in 1 .. MaxRun - 1 => is = was - 1
               /\ is = 0 <=> job.splice # None /\ phase' = "idle"
               /\ ~Spliced => is = IF after[t][1] < after[t][2] THEN -(after[t][1] + 1) ELSE NoCountdown
<1> DEFINE t == job.track
           is == countdown'[t]
<1>1. /\ phase = "pes" /\ t \in Tracks /\ (phase' = "idle" <=> Ends /\ Len(job.pes) = 1)
      /\ is = SpliceCountdown
    BY PayloadJob DEF Jobs, CountInvariant, CountTypes
<1>2. after[t] \in Nat \X Nat
    BY <1>1 DEF CountInvariant, CountTypes
<1>3. ASSUME countdown[t] \in 1 .. MaxRun - 1 PROVE is = countdown[t] - 1
  <2>1. Spliced /\ job.run = countdown[t]
    BY <1>1, <1>3 DEF CountInvariant, RunSent
  <2>2. job.run # None /\ Run = job.run
    <3>1. job.run # None
      BY <1>3, <2>1, SizeAssumption DEF None
    <3> QED
      BY <3>1 DEF Run
  <2> QED
    BY <1>1, <2>1, <2>2, RunCounts
<1>4. ASSUME Spliced PROVE is = 0 <=> job.splice # None /\ phase' = "idle"
  <2>1. job.splice # None /\ (phase' = "idle" <=> Ends)
    BY <1>1, <1>4 DEF Spliced
  <2>2. CASE Run = None
    BY <1>1, <1>4, <2>1, <2>2, RunCounts, SizeAssumption DEF NoCountdown
  <2>3. CASE Run # None
    BY <1>1, <1>4, <2>1, <2>3, RunCounts DEF Maybe
  <2> QED
    BY <2>2, <2>3
<1>5. ASSUME ~Spliced
      PROVE  /\ is = IF after[t][1] < after[t][2] THEN -(after[t][1] + 1) ELSE NoCountdown
             /\ is = 0 <=> job.splice # None /\ phase' = "idle"
  <2>1. postSplice[t] = IF after[t][1] < after[t][2]
                        THEN <<after[t][1] + 1, after[t][2]>> ELSE NoRun
    BY <1>1, <1>5 DEF CountInvariant, PostIsAfter
  <2>2. is = IF postSplice[t] # NoRun THEN -postSplice[t][1] ELSE NoCountdown
    BY <1>1, <1>5 DEF SpliceCountdown
  <2>3. is = IF after[t][1] < after[t][2] THEN -(after[t][1] + 1) ELSE NoCountdown
    BY <1>2, <2>1, <2>2 DEF NoRun
  <2>4. is # 0
    BY <1>2, <2>3, SizeAssumption DEF NoCountdown
  <2>5. ~(job.splice # None /\ phase' = "idle")
    BY <1>1, <1>5 DEF Spliced
  <2> QED
    BY <2>3, <2>4, <2>5
<1> QED
    BY <1>3, <1>4, <1>5

(* Whatever the tracks, the sizes of the frames, the room each packet has  *)
(* and the longest run: a splice_countdown, once positive, goes down to    *)
(* zero, which is on the packet with the end of the frame the point was    *)
(* armed for and on no other; and just as many packets as were asked for   *)
(* carry a negative one behind it, until the next point (muxer.rs:         *)
(* signal_splice_after, write_pes_bytes_as_ts).                            *)
THEOREM CountdownsKept == Spec => CountdownKept
<1> DEFINE Carries ==
              LET t == job.track
                  was == countdown[t]
                  is  == countdown'[t]
              IN  /\ was \in 1 .. MaxRun - 1 => is = was - 1
                  /\ is = 0 <=> job.splice # None /\ phase' = "idle"
                  /\ ~Spliced => is = IF after[t][1] < after[t][2] THEN -(after[t][1] + 1) ELSE NoCountdown
<1>1. CountInvariant /\ [Next]_vars => [phase = "pes" => Carries]_vars
  <2> SUFFICES ASSUME CountInvariant, Next, phase = "pes" PROVE Carries
    OBVIOUS
  <2>1. PayloadPacket
    BY DEF Next, SignalSplice, SignalDiscontinuity, WriteFrame, StandalonePcr, Backfill, AtPcr,
           BeginPes
  <2> HIDE DEF Carries
  <2> QED
    BY <2>1, PayloadCarries DEF Carries
<1> HIDE DEF Carries
<1>2. Spec => [][phase = "pes" => Carries]_vars
    BY <1>1, InitialCount, CountStep, PTL DEF Spec
<1> QED
    BY <1>2 DEF CountdownKept, Carries

------------------------------------------------------------------------------
(* The types, which need how far a negative countdown goes.                *)
PostBounds ==
    \A t \in Tracks :
        /\ postSplice[t] # NoRun =>
              /\ postSplice[t][2] \in Posts
              /\ postSplice[t][1] > 0 /\ postSplice[t][1] <= postSplice[t][2]
        /\ countdown[t] >= -Max(Posts) /\ countdown[t] <= MaxRun

TypeInvariant == MarkInvariant /\ CountInvariant /\ lastPsi \in Maybe(Nat) /\ PostBounds

(* The longest negative countdown that can be asked for.                   *)
LEMMA MostPosts ==
    /\ Max(Posts) \in Nat
    /\ \A post \in Posts : post <= Max(Posts)
<1>1. PICK most \in Posts : \A post \in Posts : post <= most
    BY SizeAssumption
<1>2. most \in Posts /\ \A y \in Posts : most >= y
    BY <1>1, SizeAssumption
<1>3. Max(Posts) \in Posts /\ \A y \in Posts : Max(Posts) >= y
    BY <1>2, Zenon DEF Max
<1> QED
    BY <1>3, SizeAssumption

(* No negative countdown runs past what was asked for.                     *)
LEMMA PayloadBounds ==
    ASSUME CountInvariant, PostBounds, PayloadPacket
    PROVE  PostBounds'
<1> DEFINE u == job.track
           p == postSplice[u]
<1>1. /\ u \in Tracks /\ phase = "pes" /\ job.splice \in Maybe(Posts)
      /\ postSplice \in [Tracks -> Nat \X Nat] /\ countdown \in [Tracks -> Int]
    BY PayloadJob DEF Jobs, CountInvariant, CountTypes
<1>2. /\ postSplice' = [postSplice EXCEPT ![u] = PostAfter(Ends)]
      /\ countdown' = [countdown EXCEPT ![u] = SpliceCountdown]
    BY PayloadJob
<1>3. p \in Nat \X Nat /\ (p # NoRun => p[2] \in Posts /\ p[1] > 0 /\ p[1] <= p[2])
    BY <1>1 DEF PostBounds
<1> HIDE DEF p
<1>4. Posts \subseteq Nat /\ MaxRun \in Nat
    BY SizeAssumption
<1>5. SpliceCountdown >= -Max(Posts) /\ SpliceCountdown <= MaxRun
  <2>1. CASE Spliced
    <3>1. SpliceCountdown \in 0 .. MaxRun
      BY <1>1, <1>4, <2>1, RunCounts DEF Maybe, NoCountdown
    <3> QED
      BY <1>4, <3>1, MostPosts
  <2>2. CASE ~Spliced
    <3>1. SpliceCountdown = IF p # NoRun THEN -p[1] ELSE NoCountdown
      BY <2>2 DEF SpliceCountdown, p
    <3>2. CASE p # NoRun
      <4>1. p[1] <= Max(Posts)
        BY <1>3, <1>4, <3>2, MostPosts
      <4> QED
        BY <1>3, <1>4, <3>1, <3>2, <4>1, MostPosts
    <3>3. CASE p = NoRun
      BY <1>4, <3>1, <3>3, MostPosts DEF NoCountdown
    <3> QED
      BY <3>2, <3>3
  <2> QED
    BY <2>1, <2>2
<1>6. ASSUME PostAfter(Ends) # NoRun
      PROVE  PostAfter(Ends)[2] \in Posts /\ PostAfter(Ends)[1] > 0
             /\ PostAfter(Ends)[1] <= PostAfter(Ends)[2]
  <2>1. CASE Spliced
    <3>1. PostAfter(Ends) = <<1, job.splice>> /\ job.splice > 0
      BY <1>6, <2>1 DEF PostAfter
    <3>2. job.splice \in Posts
      BY <1>1, <2>1 DEF Spliced, Maybe
    <3>3. job.splice \in Nat
      BY <1>4, <3>2
    <3>4. 1 <= job.splice
      BY <3>1, <3>3
    <3> QED
      BY <3>1, <3>2, <3>4
  <2>2. CASE ~Spliced
    <3>1. PostAfter(Ends) = <<p[1] + 1, p[2]>> /\ p[1] < p[2]
      BY <1>6, <2>2 DEF PostAfter, p
    <3>2. p # NoRun
      BY <3>1 DEF NoRun
    <3> QED
      BY <1>3, <3>1, <3>2
  <2> QED
    BY <2>1, <2>2
<1>7. ASSUME NEW t \in Tracks
      PROVE  /\ postSplice'[t] # NoRun =>
                   /\ postSplice'[t][2] \in Posts
                   /\ postSplice'[t][1] > 0 /\ postSplice'[t][1] <= postSplice'[t][2]
             /\ countdown'[t] >= -Max(Posts) /\ countdown'[t] <= MaxRun
  <2>1. CASE t = u
    <3>1. postSplice'[t] = PostAfter(Ends) /\ countdown'[t] = SpliceCountdown
      BY <1>1, <1>2, <2>1
    <3> QED
      BY <1>5, <1>6, <3>1
  <2>2. CASE t # u
    <3>1. postSplice'[t] = postSplice[t] /\ countdown'[t] = countdown[t]
      BY <1>1, <1>2, <2>2
    <3> QED
      BY <3>1 DEF PostBounds
  <2> QED
    BY <2>1, <2>2
<1> QED
    BY <1>7 DEF PostBounds, NoRun

(* Every step keeps the types.                                             *)
LEMMA TypeStep ==
    ASSUME TypeInvariant, [Next]_vars
    PROVE  TypeInvariant'
<1>1. MarkInvariant' /\ CountInvariant'
    BY MarkStep, CountStep DEF TypeInvariant
<1>2. lastPsi' = lastPsi \/ lastPsi' \in Nat
  <2>1. ASSUME NEW t \in Tracks, NEW size \in Sizes, NEW key \in BOOLEAN, NEW timed \in BOOLEAN,
               NEW time, WriteFrame(t, size, key, timed, time)
        PROVE  \/ lastPsi' = lastPsi
               \/ lastPsi' = time + base /\ time + base \in Nat
    <3>1. time \in Nat /\ base \in Nat
      BY <2>1, BoundAssumption DEF WriteFrame, TypeInvariant, MarkInvariant, ClockOK
    <3>2. lastPsi' = lastPsi \/ lastPsi' = time + base
      BY <2>1, Zenon DEF WriteFrame, RepeatPsi
    <3> QED
      BY <3>1, <3>2
  <2>2. CASE UNCHANGED vars
    BY <2>2 DEF vars, state
  <2> QED
    BY <2>1, <2>2 DEF Next, SignalSplice, SignalDiscontinuity, StandalonePcr, Backfill, BeginPes,
                      PayloadPacket
<1>3. PostBounds'
  <2>1. CASE PayloadPacket
    BY <2>1, PayloadBounds DEF TypeInvariant
  <2>2. ASSUME UNCHANGED <<postSplice, countdown>>
        PROVE  PostBounds'
    BY <2>2 DEF TypeInvariant, PostBounds, NoRun
  <2>3. CASE UNCHANGED vars
    BY <2>2, <2>3 DEF vars, state
  <2> QED
    BY <2>1, <2>2, <2>3 DEF Next, SignalSplice, SignalDiscontinuity, WriteFrame, StandalonePcr,
                            Backfill, BeginPes
<1> QED
    BY <1>1, <1>2, <1>3 DEF TypeInvariant, Maybe

(* Every value of the muxer is of its type; a frame in hand has envelopes  *)
(* that are not empty, and a negative countdown never runs past what was   *)
(* asked for (muxer.rs: write_packet, write_pes_bytes_as_ts).              *)
THEOREM Types == Spec => []TypeOK
<1>1. Init => TypeInvariant
  <2> SUFFICES ASSUME Init PROVE TypeInvariant
    OBVIOUS
  <2>1. PostBounds
    BY SizeAssumption, MostPosts DEF Init, PostBounds, NoCountdown
  <2>2. lastPsi \in Maybe(Nat)
    BY DEF Init, Maybe
  <2> QED
    BY <2>1, <2>2, InitialMark, InitialCount DEF TypeInvariant
<1>2. TypeInvariant => TypeOK
  <2> SUFFICES ASSUME TypeInvariant PROVE TypeOK
    OBVIOUS
  <2>1. CountTypes /\ ClockOK /\ PostBounds /\ lastPsi \in Maybe(Nat)
    BY DEF TypeInvariant, CountInvariant, MarkInvariant
  <2>2. ASSUME NEW t \in Tracks
        PROVE  /\ pendingSplice[t] \in Maybe(Posts)
               /\ postSplice[t] # NoRun => postSplice[t][1] \in 1 .. postSplice[t][2]
               /\ countdown[t] \in -Max(Posts) .. MaxRun
    <3>1. pendingSplice[t] \in Maybe(Posts) /\ postSplice[t] \in Nat \X Nat /\ countdown[t] \in Int
      BY <2>1 DEF CountTypes
    <3>2. postSplice[t] # NoRun => postSplice[t][1] > 0 /\ postSplice[t][1] <= postSplice[t][2]
      BY <2>1 DEF PostBounds
    <3>3. countdown[t] >= -Max(Posts) /\ countdown[t] <= MaxRun
      BY <2>1 DEF PostBounds
    <3> QED
      BY <3>1, <3>2, <3>3, MostPosts, SizeAssumption
  <2>3. ASSUME phase # "idle"
        PROVE  /\ job.track \in Tracks /\ job.run \in Maybe(1 .. MaxRun)
               /\ \A i \in 1 .. Len(job.pes) : job.pes[i] > 0
    BY <2>1, <2>3 DEF CountTypes, Jobs
  <2> QED
    BY <2>1, <2>2, <2>3 DEF TypeOK, ClockOK
<1> QED
    BY <1>1, <1>2, TypeStep, PTL DEF Spec

------------------------------------------------------------------------------
(* The pacer (P).                                                          *)

(* A call under way, and a frame that is held.                             *)
FrameStages == {"start", "loop", "wait", "pcr", "late", "flush", "pcrs", "send"}
CallKinds   == {"frame", "hold", "release", "drain", "tables"}
PacerCall ==
    [kind : CallKinds, track : PacedTracks \cup {0}, seq : Nat, time : Nat \cup {P!NoTime}, size : Nat,
     left : Int, stage : FrameStages \cup {"space", "pool"}, horizon : Int, program : Nat]
SoundCall(c) ==
    /\ c.kind = "frame" => /\ c.track \in PacedTracks /\ c.stage \in FrameStages
                           /\ c.stage \notin {"start", "send"} => c.time # P!NoTime
    /\ c.kind = "tables" => c.stage \in {"space", "pool"}
    /\ c.kind \in {"hold", "release", "drain"} => c.stage = "start"
    /\ c.kind = "hold" => /\ c.track \in PacedTracks \ Video /\ c.time # P!NoTime
                          /\ c.left = c.size
PacerEntry == {c \in PacerCall : SoundCall(c)}
HeldFrame  == {c \in PacerEntry : /\ c.kind = "frame" /\ c.stage = "start"
                                  /\ c.time # P!NoTime /\ c.left = c.size}

PacerTypes ==
    /\ out \in Nat /\ anchor \in Int \X Int /\ bsys \in Nat
    /\ tb \in [PacedTracks \cup {0} -> Nat] /\ fill \in [PacedTracks \cup {0} -> Nat]
    /\ pendingBase \in [Programs -> BOOLEAN]
    /\ wire \in [Programs -> [at : Int, value : Int, marked : BOOLEAN, epoch : Nat]]
    /\ rebases \in Nat /\ given \in [PacedTracks -> Nat] /\ bases \in [Programs -> Nat]
    /\ begun \in [PacedTracks -> SUBSET Nat]
    /\ stack \in Seq(PacerEntry) /\ held \in [PacedTracks -> Seq(HeldFrame)]

(* Only the call that runs waits for the pool; a call that lets out what   *)
(* is held lies at the bottom, or on the last tables.                      *)
StackShape ==
    \A i \in 1 .. Len(stack) :
        /\ stack[i].stage = "pool" => i = Len(stack)
        /\ stack[i].kind = "drain" =>
               i = 1 \/ (i = 2 /\ stack[1].kind = "tables" /\ stack[2].program = 0)
HeldShape ==
    \A t \in PacedTracks : \A i \in 1 .. Len(held[t]) : held[t][i].track = t

(* How a step changes the calls under way.                                 *)
Swapped(c) ==
    /\ stack' \in Seq(PacerEntry) /\ Len(stack') = Len(stack) /\ Len(stack) > 0
    /\ stack'[Len(stack)] = c
    /\ \A i \in 1 .. Len(stack) - 1 : stack'[i] = stack[i]
Popped ==
    /\ stack' \in Seq(PacerEntry) /\ Len(stack') = Len(stack) - 1 /\ Len(stack) > 0
    /\ \A i \in 1 .. Len(stack) - 1 : stack'[i] = stack[i]
Pushed(c) ==
    /\ stack' \in Seq(PacerEntry) /\ Len(stack') = Len(stack) + 1 /\ Len(stack) > 0
    /\ stack'[Len(stack) + 1] = c
    /\ \A i \in 1 .. Len(stack) : stack'[i] = stack[i]

SameCall(c, d) ==
    c.kind = d.kind /\ c.track = d.track /\ c.seq = d.seq /\ c.time = d.time /\ c.size = d.size
Onward(stage, left) ==
    \E c \in PacerEntry : Swapped(c) /\ SameCall(c, P!Top) /\ c.stage = stage /\ c.left = left

LEMMA TopIs ==
    ASSUME PacerTypes, stack # <<>>
    PROVE  /\ Len(stack) \in Nat \ {0} /\ P!Top = stack[Len(stack)]
           /\ P!Top \in PacerEntry /\ P!Top \in PacerCall /\ SoundCall(P!Top)
<1>1. stack \in Seq(PacerEntry) /\ Len(stack) \in Nat \ {0}
    BY EmptySeq DEF PacerTypes
<1>2. P!Top = stack[Len(stack)]
    BY DEF P!Top, P!Last
<1>3. stack[Len(stack)] \in PacerEntry
    BY <1>1, ElementOfSeq
<1> QED BY <1>1, <1>2, <1>3 DEF PacerEntry

LEMMA BelowIs ==
    ASSUME PacerTypes, stack # <<>>
    PROVE  /\ P!Below \in Seq(PacerEntry) /\ Len(P!Below) = Len(stack) - 1
           /\ \A i \in 1 .. Len(stack) - 1 : P!Below[i] = stack[i]
<1>1. stack \in Seq(PacerEntry) /\ Len(stack) \in Nat \ {0}
    BY EmptySeq DEF PacerTypes
<1>2. P!Below = SubSeq(stack, 1, Len(stack) - 1)
    BY DEF P!Below, P!Front
<1>3. \A i \in 1 .. Len(stack) - 1 : stack[i] \in PacerEntry
    BY <1>1, ElementOfSeq
<1> DEFINE n == Len(stack) - 1
<1>4. n \in Nat /\ \A i \in 1 .. n : stack[i] \in PacerEntry
    BY <1>1, <1>3
<1> HIDE DEF n
<1>5. /\ SubSeq(stack, 1, n) \in Seq(PacerEntry)
      /\ Len(SubSeq(stack, 1, n)) = IF 1 <= n THEN n - 1 + 1 ELSE 0
      /\ \A i \in 1 .. n - 1 + 1 : SubSeq(stack, 1, n)[i] = stack[1 + i - 1]
    BY <1>4, SubSeqProperties
<1> DEFINE b == SubSeq(stack, 1, n)
<1>6. /\ b \in Seq(PacerEntry) /\ Len(b) = IF 1 <= n THEN n - 1 + 1 ELSE 0
      /\ \A i \in 1 .. n - 1 + 1 : b[i] = stack[1 + i - 1]
    BY <1>5
<1>7. P!Below = b /\ n = Len(stack) - 1
    BY <1>2 DEF n
<1> HIDE DEF b
<1>8. Len(b) = n /\ \A i \in 1 .. n : b[i] = stack[i]
    BY <1>4, <1>6
<1> QED BY <1>6, <1>7, <1>8

SwapsTo(c) == stack' = P!Below \o <<c>>
LEMMA SwappedBy ==
    ASSUME PacerTypes, stack # <<>>, NEW c \in PacerEntry, SwapsTo(c)
    PROVE  Swapped(c)
<1>1. /\ P!Below \in Seq(PacerEntry) /\ Len(P!Below) = Len(stack) - 1
      /\ \A i \in 1 .. Len(stack) - 1 : P!Below[i] = stack[i]
    BY BelowIs
<1>2. Len(stack) \in Nat \ {0}
    BY TopIs
<1> DEFINE b == P!Below
           one == <<c>>
<1>3. one \in Seq(PacerEntry) /\ Len(one) = 1 /\ one[1] = c
    OBVIOUS
<1> HIDE DEF b, one
<1>4. /\ b \o one \in Seq(PacerEntry) /\ Len(b \o one) = Len(b) + Len(one)
      /\ \A i \in 1 .. Len(b) + Len(one) :
             (b \o one)[i] = IF i <= Len(b) THEN b[i] ELSE one[i - Len(b)]
    BY <1>1, <1>3, ConcatProperties DEF b
<1>5. stack' = b \o one
    BY Zenon DEF SwapsTo, b, one
<1> HIDE DEF b
<1>6. b \in Seq(PacerEntry) /\ Len(b) = Len(stack) - 1 /\ \A i \in 1 .. Len(stack) - 1 : b[i] = stack[i]
    BY <1>1 DEF b
<1> DEFINE u == b \o one
<1>7. /\ u \in Seq(PacerEntry) /\ Len(u) = Len(b) + Len(one)
      /\ \A i \in 1 .. Len(b) + Len(one) :
             u[i] = IF i <= Len(b) THEN b[i] ELSE one[i - Len(b)]
    BY <1>4
<1>8. stack' = u
    BY <1>5
<1> HIDE DEF u
<1>9. /\ Len(u) = Len(stack) /\ u[Len(stack)] = c
      /\ \A i \in 1 .. Len(stack) - 1 : u[i] = stack[i]
    BY <1>2, <1>3, <1>6, <1>7
<1>10. /\ stack' \in Seq(PacerEntry) /\ Len(stack') = Len(stack) /\ Len(stack) > 0
       /\ stack'[Len(stack)] = c
    BY <1>2, <1>7, <1>8, <1>9
<1>11. \A i \in 1 .. Len(stack) - 1 : stack'[i] = stack[i]
    BY <1>8, <1>9
<1> QED BY <1>10, <1>11 DEF Swapped

LEMMA PoppedBy ==
    ASSUME PacerTypes, stack # <<>>, P!Return
    PROVE  Popped
    BY BelowIs, TopIs DEF P!Return, Popped

LEMMA PushedBy ==
    ASSUME PacerTypes, stack # <<>>, NEW c \in PacerEntry, stack' = Append(stack, c)
    PROVE  Pushed(c)
<1>1. Len(stack) \in Nat \ {0} /\ stack \in Seq(PacerEntry)
    BY TopIs DEF PacerTypes
<1> QED BY <1>1, AppendProperties DEF Pushed

LEMMA OnwardBy ==
    ASSUME PacerTypes, stack # <<>>, P!Top.kind = "frame",
           NEW s \in FrameStages, s \notin {"start", "send"} => P!Top.time # P!NoTime,
           NEW l \in Int, NEW h \in Int, NEW n \in Nat,
           SwapsTo([P!Top EXCEPT !.stage = s, !.left = l, !.horizon = h, !.program = n])
    PROVE  Onward(s, l)
<1> DEFINE top == P!Top
           c   == [top EXCEPT !.stage = s, !.left = l, !.horizon = h, !.program = n]
<1>1. top \in PacerCall /\ SoundCall(top) /\ top.kind = "frame"
    BY TopIs
<1>2. s \notin {"start", "send"} => top.time # P!NoTime
    OBVIOUS
<1>3. SwapsTo(c)
    OBVIOUS
<1> HIDE DEF top
<1>4. c \in PacerCall /\ SameCall(c, top) /\ c.stage = s /\ c.left = l
    BY <1>1 DEF PacerCall, SameCall
<1> HIDE DEF c
<1>5. c \in PacerEntry
    BY <1>1, <1>2, <1>4 DEF PacerEntry, SoundCall, SameCall
<1>6. Swapped(c)
    BY <1>3, <1>5, SwappedBy, Zenon
<1> QED BY <1>4, <1>5, <1>6 DEF Onward, top
------------------------------------------------------------------------------
(* The shape of the stack over a step.                                     *)
Pending == stack # <<>> /\ P!Top.stage = "pool"

LEMMA NotPending ==
    ASSUME PacerTypes, stack # <<>>, P!Top.kind # "tables"
    PROVE  ~Pending
    BY TopIs DEF Pending, SoundCall, FrameStages, PacerCall, CallKinds

(* The call that runs goes on as another, which keeps its kind.            *)
LEMMA SwapKeepsShape ==
    ASSUME PacerTypes, StackShape, NEW c \in PacerEntry, Swapped(c),
           c.kind = "drain" => FALSE
    PROVE  /\ stack' \in Seq(PacerEntry) /\ StackShape'
           /\ stack' # <<>> /\ P!Top' = c
           /\ c.stage # "pool" => ~Pending'
<1>1. Len(stack) \in Nat
    BY DEF PacerTypes
<1>2. stack' \in Seq(PacerEntry) /\ Len(stack') = Len(stack) /\ stack'[Len(stack)] = c
    BY DEF Swapped
<1>3. StackShape'
    <2> SUFFICES ASSUME NEW i \in 1 .. Len(stack)
                 PROVE  /\ stack'[i].stage = "pool" => i = Len(stack)
                        /\ stack'[i].kind = "drain" =>
                             i = 1 \/ (i = 2 /\ stack'[1].kind = "tables" /\ stack'[2].program = 0)
        BY <1>2 DEF StackShape
    <2>1. CASE i = Len(stack)
        BY <2>1, <1>2
    <2>2. CASE i # Len(stack)
        <3>1. stack'[i] = stack[i] /\ i < Len(stack)
            BY <2>2, <1>1 DEF Swapped
        <3>2. i = 2 => stack'[1] = stack[1]
            BY <3>1, <1>1 DEF Swapped
        <3> QED BY <3>1, <3>2, <1>1 DEF StackShape
    <2> QED BY <2>1, <2>2
<1>4. stack' # <<>> /\ P!Top' = c
    <2>1. Len(stack') > 0
        BY <1>2 DEF Swapped
    <2> QED BY <1>2, <2>1 DEF P!Top, P!Last
<1> QED BY <1>2, <1>3, <1>4 DEF Pending

LEMMA PopKeepsShape ==
    ASSUME PacerTypes, StackShape, Popped
    PROVE  stack' \in Seq(PacerEntry) /\ StackShape' /\ ~Pending'
<1>1. Len(stack) \in Nat
    BY DEF PacerTypes
<1>2. stack' \in Seq(PacerEntry) /\ Len(stack') = Len(stack) - 1
    BY DEF Popped
<1>3. ASSUME NEW i \in 1 .. Len(stack')
      PROVE  /\ stack'[i].stage # "pool"
             /\ stack'[i].kind = "drain" =>
                  i = 1 \/ (i = 2 /\ stack'[1].kind = "tables" /\ stack'[2].program = 0)
    <2>1. stack'[i] = stack[i] /\ i < Len(stack)
        BY <1>1, <1>2, <1>3 DEF Popped
    <2>2. i = 2 => stack'[1] = stack[1]
        BY <2>1, <1>1 DEF Popped
    <2> QED BY <2>1, <2>2, <1>1 DEF StackShape
<1>4. StackShape'
    BY <1>3, <1>2 DEF StackShape
<1>5. ~Pending'
    <2> SUFFICES ASSUME stack' # <<>> PROVE P!Top'.stage # "pool"
        BY DEF Pending
    <2>1. Len(stack') \in Nat \ {0}
        BY <1>2, EmptySeq
    <2>2. P!Top' = stack'[Len(stack')]
        BY DEF P!Top, P!Last
    <2> QED BY <1>3, <2>1, <2>2
<1> QED BY <1>2, <1>4, <1>5

LEMMA PushKeepsShape ==
    ASSUME PacerTypes, StackShape, NEW c \in HeldFrame, Pushed(c), ~Pending
    PROVE  stack' \in Seq(PacerEntry) /\ StackShape' /\ ~Pending'
<1>1. Len(stack) \in Nat \ {0}
    BY DEF PacerTypes, Pushed
<1>2. /\ stack' \in Seq(PacerEntry) /\ Len(stack') = Len(stack) + 1
      /\ stack'[Len(stack) + 1] = c
    BY DEF Pushed
<1>3. c.kind = "frame" /\ c.stage = "start"
    BY DEF HeldFrame
<1>4. P!Top = stack[Len(stack)]
    BY DEF P!Top, P!Last
<1>5. stack # <<>>
    BY <1>1
<1>6. StackShape'
    <2> SUFFICES ASSUME NEW i \in 1 .. Len(stack) + 1
                 PROVE  /\ stack'[i].stage = "pool" => i = Len(stack) + 1
                        /\ stack'[i].kind = "drain" =>
                             i = 1 \/ (i = 2 /\ stack'[1].kind = "tables" /\ stack'[2].program = 0)
        BY <1>2 DEF StackShape
    <2>1. CASE i = Len(stack) + 1
        BY <2>1, <1>2, <1>3
    <2>2. CASE i # Len(stack) + 1
        <3>1. stack'[i] = stack[i] /\ i \in 1 .. Len(stack)
            BY <2>2, <1>1 DEF Pushed
        <3>2. i = 2 => stack'[1] = stack[1]
            BY <3>1, <1>1 DEF Pushed
        <3>3. stack[i].stage # "pool"
            <4>1. stack[i].stage = "pool" => i = Len(stack)
                BY <3>1 DEF StackShape
            <4> QED BY <4>1, <1>4, <1>5 DEF Pending
        <3> QED BY <3>1, <3>2, <3>3, <1>1 DEF StackShape
    <2> QED BY <2>1, <2>2
<1>7. ~Pending'
    <2>1. P!Top' = c
        BY <1>2 DEF P!Top, P!Last
    <2> QED BY <2>1, <1>3 DEF Pending
<1> QED BY <1>2, <1>6, <1>7

LEMMA OnwardKeepsShape ==
    ASSUME PacerTypes, StackShape, P!Top.kind = "frame", NEW s \in FrameStages, NEW l, Onward(s, l)
    PROVE  stack' \in Seq(PacerEntry) /\ StackShape' /\ ~Pending'
<1>1. PICK c \in PacerEntry : Swapped(c) /\ SameCall(c, P!Top) /\ c.stage = s /\ c.left = l
    BY DEF Onward
<1>2. c.kind # "drain" /\ c.stage # "pool"
    BY <1>1 DEF SameCall, FrameStages
<1> QED BY <1>1, <1>2, SwapKeepsShape

------------------------------------------------------------------------------
(* A packet goes out.                                                      *)
LEMMA SlotTyped ==
    ASSUME PacerTypes, NEW pid, NEW booking \in BOOLEAN, P!Slot(pid, booking)
    PROVE  /\ out' = out + 1 /\ out' \in Nat /\ bsys' \in Nat
           /\ tb' \in [PacedTracks \cup {0} -> Nat] /\ fill' \in [PacedTracks \cup {0} -> Nat]
           /\ bsys' = P!Left(bsys + IF pid = 0 THEN Load ELSE 0, PoolDrain)
           /\ \A q \in PacedTracks \cup {0} :
                  /\ tb'[q] = P!Left(tb[q] + IF q = pid /\ booking THEN Load ELSE 0, Drain[q])
                  /\ fill'[q] = P!Left(fill[q] + IF q = pid THEN Load ELSE 0, Drain[q])
<1>1. /\ Load \in Nat /\ PoolDrain \in Nat /\ Drain \in [PacedTracks \cup {0} -> Nat]
    BY PacerAssumption
<1>2. /\ out \in Nat /\ bsys \in Nat
      /\ tb \in [PacedTracks \cup {0} -> Nat] /\ fill \in [PacedTracks \cup {0} -> Nat]
    BY DEF PacerTypes
<1>3. /\ out' = out + 1
      /\ tb' = [q \in PacedTracks \cup {0} |->
                    P!Left(tb[q] + IF q = pid /\ booking THEN Load ELSE 0, Drain[q])]
      /\ fill' = [q \in PacedTracks \cup {0} |->
                    P!Left(fill[q] + IF q = pid THEN Load ELSE 0, Drain[q])]
      /\ bsys' = P!Left(bsys + IF pid = 0 THEN Load ELSE 0, PoolDrain)
    BY DEF P!Slot, P!Pids, P!System
<1>4. \A n, d \in Nat : P!Left(n, d) \in Nat
    BY DEF P!Left
<1>5. \A q \in PacedTracks \cup {0} :
          /\ tb[q] \in Nat /\ fill[q] \in Nat /\ Drain[q] \in Nat
          /\ (tb[q] + IF q = pid /\ booking THEN Load ELSE 0) \in Nat
          /\ (fill[q] + IF q = pid THEN Load ELSE 0) \in Nat
    BY <1>1, <1>2
<1>6. (bsys + IF pid = 0 THEN Load ELSE 0) \in Nat
    BY <1>1, <1>2
<1>7. \A q \in PacedTracks \cup {0} :
          /\ P!Left(tb[q] + IF q = pid /\ booking THEN Load ELSE 0, Drain[q]) \in Nat
          /\ P!Left(fill[q] + IF q = pid THEN Load ELSE 0, Drain[q]) \in Nat
    BY <1>4, <1>5
<1>8. out' \in Nat /\ bsys' \in Nat
    BY <1>1, <1>2, <1>3, <1>6 DEF P!Left
<1>9. tb' \in [PacedTracks \cup {0} -> Nat] /\ fill' \in [PacedTracks \cup {0} -> Nat]
    BY <1>3, <1>7
<1>10. \A q \in PacedTracks \cup {0} :
          /\ tb'[q] = P!Left(tb[q] + IF q = pid /\ booking THEN Load ELSE 0, Drain[q])
          /\ fill'[q] = P!Left(fill[q] + IF q = pid THEN Load ELSE 0, Drain[q])
    BY <1>3
<1> QED BY <1>3, <1>8, <1>9, <1>10

TrackBooks == \A q \in Paced : fill[q] <= tb[q]
(* The account of the tables' transport buffer may fall behind what is in  *)
(* it: a packet booked in it waits for the pool, and the booking drains    *)
(* meanwhile.  But then the pool is nearly full, and by the time it has    *)
(* room the buffer has run dry.                                            *)
SystemBooks ==
    IF Pending
    THEN /\ tb[0] <= Bucket /\ Load <= Bucket
         /\ \/ fill[0] + Load <= tb[0]
            \/ fill[0] + Pool <= bsys + Load
            \/ fill[0] = 0 /\ Pool < bsys + Load + PoolDrain
    ELSE fill[0] <= tb[0] \/ fill[0] + Pool <= bsys + Load
Buffers == TrackBooks /\ SystemBooks /\ P!TransportBuffers

LEMMA BuffersTyped ==
    ASSUME PacerTypes
    PROVE  /\ {Load, Bucket, Pool, PoolDrain} \subseteq Nat /\ bsys \in Nat
           /\ \A q \in PacedTracks \cup {0} : tb[q] \in Nat /\ fill[q] \in Nat /\ Drain[q] \in Nat
           /\ Paced \subseteq PacedTracks /\ 0 \notin PacedTracks
           /\ Load <= Pool /\ 2 * PoolDrain <= Drain[0]
    BY PacerAssumption, SystemAssumption DEF PacerTypes

(* Any packet but one of the tables, with its transport buffer booked.     *)
LEMMA SlotKeepsBuffers ==
    ASSUME PacerTypes, Buffers, ~Pending, ~Pending', NEW pid, pid # 0, NEW booking \in BOOLEAN,
           P!Slot(pid, booking), pid \in Paced => booking /\ tb[pid] + Load <= Bucket
    PROVE  Buffers'
<1>1. /\ {Load, Bucket, Pool, PoolDrain} \subseteq Nat /\ bsys \in Nat
      /\ \A q \in PacedTracks \cup {0} : tb[q] \in Nat /\ fill[q] \in Nat /\ Drain[q] \in Nat
      /\ Paced \subseteq PacedTracks /\ 0 \notin PacedTracks
      /\ Load <= Pool /\ 2 * PoolDrain <= Drain[0]
    BY BuffersTyped
<1>2. /\ bsys' = P!Left(bsys, PoolDrain)
      /\ \A q \in PacedTracks \cup {0} :
             /\ tb'[q] = P!Left(tb[q] + IF q = pid /\ booking THEN Load ELSE 0, Drain[q])
             /\ fill'[q] = P!Left(fill[q] + IF q = pid THEN Load ELSE 0, Drain[q])
    <2>1. bsys + 0 = bsys
        BY <1>1
    <2> QED BY <2>1, SlotTyped
<1>3. ASSUME NEW q \in Paced
      PROVE  fill'[q] <= tb'[q] /\ (fill'[q] > 0 => fill'[q] + Drain[q] <= Bucket)
    <2>1. fill[q] <= tb[q] /\ (fill[q] > 0 => fill[q] + Drain[q] <= Bucket)
        BY DEF Buffers, TrackBooks, P!TransportBuffers
    <2>2. q \in PacedTracks \cup {0}
        BY <1>1
    <2>3. CASE q = pid
        <3>1. tb'[q] = P!Left(tb[q] + Load, Drain[q]) /\ fill'[q] = P!Left(fill[q] + Load, Drain[q])
            BY <1>2, <2>2, <2>3
        <3>2. tb[q] + Load <= Bucket
            BY <2>3
        <3> QED BY <3>1, <3>2, <2>1, <2>2, <1>1 DEF P!Left
    <2>4. CASE q # pid
        <3>1. tb'[q] = P!Left(tb[q] + 0, Drain[q]) /\ fill'[q] = P!Left(fill[q] + 0, Drain[q])
            BY <1>2, <2>2, <2>4
        <3> QED BY <3>1, <2>1, <2>2, <1>1 DEF P!Left
    <2> QED BY <2>3, <2>4
<1>4. /\ fill'[0] <= tb'[0] \/ fill'[0] + Pool <= bsys' + Load
      /\ fill'[0] > 0 => fill'[0] + Drain[0] <= Bucket
    <2>1. /\ fill[0] <= tb[0] \/ fill[0] + Pool <= bsys + Load
          /\ fill[0] > 0 => fill[0] + Drain[0] <= Bucket
        BY DEF Buffers, SystemBooks, P!TransportBuffers, P!System
    <2>2. tb'[0] = P!Left(tb[0] + 0, Drain[0]) /\ fill'[0] = P!Left(fill[0] + 0, Drain[0])
        BY <1>2
    <2> QED BY <1>1, <1>2, <2>1, <2>2 DEF P!Left
<1> QED BY <1>3, <1>4 DEF Buffers, TrackBooks, SystemBooks, P!TransportBuffers, P!System

LEMMA StillKeepsBuffers ==
    ASSUME Buffers, Pending' <=> Pending, UNCHANGED P!clockVars
    PROVE  Buffers'
<1>1. tb' = tb /\ bsys' = bsys /\ fill' = fill
    BY DEF P!clockVars
<1> QED BY <1>1 DEF Buffers, TrackBooks, SystemBooks, P!TransportBuffers
------------------------------------------------------------------------------
(* Every non-empty set of natural numbers has a least element: there is a  *)
(* held frame that is due first.                                           *)
LEMMA LeastElement ==
    ASSUME NEW S, S \subseteq Nat, S # {}
    PROVE  \E x \in S : \A y \in S : x <= y
<1>1. PICK x \in S : \A y \in S : <<y, x>> \notin OpToRel(<, Nat)
    BY NatLessThanWellFounded, WFMin, Zenon
<1>2. ASSUME NEW y \in S PROVE <<y, x>> \in Nat \X Nat
    OBVIOUS
<1>3. ASSUME NEW y \in S PROVE ~ (y < x)
    BY <1>1, <1>2, Zenon DEF OpToRel
<1>4. ASSUME NEW y \in S PROVE x <= y
    BY <1>3
<1> QED BY <1>4

LEMMA HeadHeld ==
    ASSUME PacerTypes, NEW t \in PacedTracks, held[t] # <<>>
    PROVE  /\ held[t] \in Seq(HeldFrame) /\ Len(held[t]) \in Nat \ {0}
           /\ Head(held[t]) = held[t][1] /\ Head(held[t]) \in HeldFrame
           /\ Head(held[t]).time \in Nat
<1>1. held[t] \in Seq(HeldFrame)
    BY DEF PacerTypes
<1>2. Len(held[t]) \in Nat \ {0} /\ Head(held[t]) = held[t][1] /\ Head(held[t]) \in HeldFrame
    BY <1>1, EmptySeq, HeadTailProperties
<1> QED BY <1>1, <1>2 DEF HeldFrame, PacerEntry, PacerCall

LEMMA FirstIs ==
    ASSUME PacerTypes, P!Holding # {}
    PROVE  P!First \in PacedTracks /\ held[P!First] # <<>>
<1> DEFINE time(t) == Head(held[t]).time
           Times == {time(t) : t \in P!Holding}
<1>1. P!Holding \subseteq PacedTracks /\ P!Holding \subseteq Nat
      /\ \A t \in P!Holding : time(t) \in Nat /\ held[t] # <<>>
    BY HeadHeld, PacerAssumption DEF P!Holding
<1>2. PICK m \in Times : \A n \in Times : m <= n
    <2>1. Times \subseteq Nat /\ Times # {}
        BY <1>1
    <2> HIDE DEF Times
    <2> QED BY <2>1, LeastElement
<1> DEFINE Soonest == {t \in P!Holding : time(t) = m}
<1>3. PICK f \in Soonest : \A t \in Soonest : f <= t
    <2>1. Soonest \subseteq Nat /\ Soonest # {}
        BY <1>1, <1>2
    <2> HIDE DEF Soonest
    <2> QED BY <2>1, LeastElement
<1>4. f \in P!Holding /\ \A s \in P!Holding \ {f} : time(f) < time(s) \/ (time(f) = time(s) /\ f < s)
    <2> SUFFICES ASSUME NEW s \in P!Holding \ {f}
                 PROVE  time(f) < time(s) \/ (time(f) = time(s) /\ f < s)
        BY <1>3
    <2>1. time(f) = m /\ m <= time(s) /\ time(s) \in Nat /\ m \in Nat /\ f \in Nat /\ s \in Nat
        BY <1>1, <1>2, <1>3
    <2>2. CASE time(s) = m
        <3>1. f <= s
            BY <2>2, <1>3
        <3> QED BY <3>1, <2>1, <2>2
    <2>3. CASE time(s) # m
        BY <2>1, <2>3
    <2> QED BY <2>2, <2>3
<1>5. P!First \in P!Holding
    BY <1>4, Zenon DEF P!First
<1> QED BY <1>1, <1>5

(* A held frame c of track t is let out.                                   *)
LetOut(t, c) ==
    /\ t = P!First /\ held[t] # <<>> /\ c = held[t][1] /\ c.track = t /\ Pushed(c)
    /\ held' \in [PacedTracks -> Seq(HeldFrame)] /\ HeldShape'
    /\ stack' \in Seq(PacerEntry) /\ StackShape' /\ ~Pending'
    /\ Len(held'[t]) = Len(held[t]) - 1 /\ Len(held[t]) > 0
    /\ \A i \in 1 .. Len(held[t]) - 1 : held'[t][i] = held[t][i + 1]
    /\ \A s \in PacedTracks : s # t => held'[s] = held[s]

LEMMA Released ==
    ASSUME PacerTypes, StackShape, HeldShape, ~Pending, stack # <<>>,
           P!Holding # {}, P!Release
    PROVE  \E t \in PacedTracks : \E c \in HeldFrame : LetOut(t, c)
<1> DEFINE t == P!First
           c == Head(held[t])
<1>1. t \in PacedTracks /\ held[t] # <<>>
    BY FirstIs
<1>2. held[t] \in Seq(HeldFrame) /\ Len(held[t]) \in Nat \ {0} /\ c = held[t][1] /\ c \in HeldFrame
    BY <1>1, HeadHeld
<1>3. /\ held' = [held EXCEPT ![t] = Tail(@)] /\ stack' = Append(stack, c)
      /\ held \in [PacedTracks -> Seq(HeldFrame)]
    BY DEF P!Release, PacerTypes
<1>4. /\ Tail(held[t]) \in Seq(HeldFrame) /\ Len(Tail(held[t])) = Len(held[t]) - 1
      /\ \A i \in 1 .. Len(Tail(held[t])) : Tail(held[t])[i] = held[t][i + 1]
    BY <1>1, <1>2, HeadTailProperties
<1> HIDE DEF t, c
<1>5. /\ held'[t] = Tail(held[t]) /\ \A s \in PacedTracks : s # t => held'[s] = held[s]
      /\ held' \in [PacedTracks -> Seq(HeldFrame)]
    BY <1>1, <1>3, <1>4
<1>6. c \in PacerEntry
    BY <1>2 DEF HeldFrame
<1>7. Pushed(c)
    BY <1>3, <1>6, PushedBy
<1>8. c.track = t
    BY <1>1, <1>2 DEF HeldShape
<1>9. /\ Len(held'[t]) = Len(held[t]) - 1
      /\ \A i \in 1 .. Len(held[t]) - 1 : held'[t][i] = held[t][i + 1]
    BY <1>4, <1>5
<1>10. HeldShape'
    <2> SUFFICES ASSUME NEW s \in PacedTracks, NEW i \in 1 .. Len(held'[s])
                 PROVE  held'[s][i].track = s
        BY DEF HeldShape
    <2>1. CASE s = t
        <3>1. i \in 1 .. Len(held[t]) - 1 /\ i + 1 \in 1 .. Len(held[t])
            BY <2>1, <1>2, <1>9
        <3> QED BY <2>1, <3>1, <1>1, <1>9 DEF HeldShape
    <2>2. CASE s # t
        BY <2>2, <1>5 DEF HeldShape
    <2> QED BY <2>1, <2>2
<1>11. stack' \in Seq(PacerEntry) /\ StackShape' /\ ~Pending'
    BY <1>2, <1>7, PushKeepsShape
<1>12. t = P!First
    BY DEF t
<1>13. LetOut(t, c)
    BY <1>1, <1>2, <1>5, <1>7, <1>8, <1>9, <1>10, <1>11, <1>12 DEF LetOut
<1> QED BY <1>1, <1>2, <1>13
------------------------------------------------------------------------------
(* Types, shape and buffers, over the steps of the pacer.                  *)
PacerBase == PacerTypes /\ StackShape /\ HeldShape /\ Buffers

OthersTyped ==
    /\ anchor \in Int \X Int
    /\ pendingBase \in [Programs -> BOOLEAN]
    /\ wire \in [Programs -> [at : Int, value : Int, marked : BOOLEAN, epoch : Nat]]
    /\ rebases \in Nat /\ given \in [PacedTracks -> Nat] /\ bases \in [Programs -> Nat]
    /\ begun \in [PacedTracks -> SUBSET Nat]
HeldTyped == held \in [PacedTracks -> Seq(HeldFrame)] /\ HeldShape
StackTyped == stack \in Seq(PacerEntry) /\ StackShape

LEMMA BaseParts ==
    ASSUME PacerBase
    PROVE  PacerTypes /\ StackShape /\ HeldShape /\ Buffers /\ OthersTyped /\ HeldTyped /\ StackTyped
    BY DEF PacerBase, PacerTypes, OthersTyped, HeldTyped, StackTyped

LEMMA StillBase ==
    ASSUME PacerBase, OthersTyped', HeldTyped', StackTyped', Pending' <=> Pending,
           UNCHANGED P!clockVars
    PROVE  PacerBase'
<1>1. Buffers'
    BY StillKeepsBuffers DEF PacerBase
<1>2. out' = out /\ bsys' = bsys /\ tb' = tb /\ fill' = fill
    BY DEF P!clockVars
<1>3. PacerTypes'
    BY <1>2 DEF PacerBase, PacerTypes, OthersTyped, HeldTyped, StackTyped
<1> QED BY <1>1, <1>3 DEF PacerBase, HeldTyped, StackTyped

LEMMA SlotBase ==
    ASSUME PacerBase, OthersTyped', HeldTyped', StackTyped', ~Pending, ~Pending',
           NEW pid, pid # 0, NEW booking \in BOOLEAN,
           P!Slot(pid, booking), pid \in Paced => booking /\ tb[pid] + Load <= Bucket
    PROVE  PacerBase'
<1>1. Buffers'
    BY SlotKeepsBuffers DEF PacerBase
<1>2. /\ out' \in Nat /\ bsys' \in Nat
      /\ tb' \in [PacedTracks \cup {0} -> Nat] /\ fill' \in [PacedTracks \cup {0} -> Nat]
    BY SlotTyped DEF PacerBase
<1>3. PacerTypes'
    BY <1>2 DEF PacerTypes, OthersTyped, HeldTyped, StackTyped
<1> QED BY <1>1, <1>3 DEF PacerBase, HeldTyped, StackTyped

LEMMA OthersKept ==
    ASSUME PacerBase, anchor' = anchor, pendingBase' = pendingBase, wire' = wire,
           rebases' = rebases, given' = given, bases' = bases, begun' = begun
    PROVE  OthersTyped'
    BY BaseParts DEF OthersTyped

LEMMA HeldKept ==
    ASSUME PacerBase, held' = held PROVE HeldTyped'
    BY BaseParts DEF HeldTyped, HeldShape

LEMMA FrameRuns ==
    ASSUME PacerBase, NEW s, P!At(s)
    PROVE  /\ stack # <<>> /\ P!Top.kind = "frame" /\ P!Top.stage = s /\ ~Pending
           /\ P!Top \in PacerCall /\ SoundCall(P!Top) /\ P!Top \in PacerEntry
           /\ P!Top.track \in PacedTracks
<1>1. stack # <<>> /\ P!Top.kind = "frame" /\ P!Top.stage = s
    BY DEF P!At, P!Running
<1> QED BY <1>1, BaseParts, TopIs, NotPending DEF SoundCall

LEMMA NowTyped == ASSUME PacerTypes, NEW n \in Int PROVE P!Now(n) \in Int
    BY DEF P!Now, PacerTypes

(* A step of the frame on top which moves nothing else that is typed.      *)
LEMMA QuietOnward ==
    ASSUME PacerBase, stack # <<>>, P!Top.kind = "frame",
           NEW s \in FrameStages, s \notin {"start", "send"} => P!Top.time # P!NoTime,
           NEW h \in Int, NEW n \in Nat,
           SwapsTo([P!Top EXCEPT !.stage = s, !.left = P!Top.left, !.horizon = h, !.program = n]),
           OthersTyped', held' = held, UNCHANGED P!clockVars
    PROVE  PacerBase' /\ Onward(s, P!Top.left)
<1>1. PacerTypes /\ StackShape /\ ~Pending /\ P!Top.left \in Int
    BY BaseParts, TopIs, NotPending DEF PacerCall
<1> DEFINE l == P!Top.left
<1>2. SwapsTo([P!Top EXCEPT !.stage = s, !.left = l, !.horizon = h, !.program = n]) /\ l \in Int
    BY <1>1
<1> HIDE DEF l
<1>3. Onward(s, l)
    BY <1>1, <1>2, OnwardBy, Zenon
<1>4. stack' \in Seq(PacerEntry) /\ StackShape' /\ ~Pending'
    BY <1>1, <1>3, OnwardKeepsShape
<1>5. HeldTyped' /\ StackTyped'
    BY <1>4, HeldKept DEF StackTyped
<1>6. PacerBase'
    BY <1>1, <1>4, <1>5, StillBase
<1> QED BY <1>3, <1>6 DEF l

LEMMA StartStep ==
    ASSUME PacerBase, P!Start
    PROVE  /\ PacerBase' /\ P!Top.kind = "frame" /\ P!Top.stage = "start"
           /\ Onward(IF P!Top.time = P!NoTime THEN "send" ELSE "loop", P!Top.left)
<1> DEFINE s == IF P!Top.time = P!NoTime THEN "send" ELSE "loop"
<1>1. P!At("start")
    BY DEF P!Start
<1>2. /\ stack # <<>> /\ P!Top.kind = "frame" /\ P!Top.stage = "start"
      /\ P!Top \in PacerCall /\ SoundCall(P!Top) /\ P!Top.track \in PacedTracks
    BY <1>1, FrameRuns
<1>3. s \in FrameStages /\ (s \notin {"start", "send"} => P!Top.time # P!NoTime)
    BY DEF FrameStages
<1>4. SwapsTo([P!Top EXCEPT !.stage = s])
    BY DEF P!Start, P!Go, SwapsTo
<1>5. [P!Top EXCEPT !.stage = s] =
          [P!Top EXCEPT !.stage = s, !.left = P!Top.left, !.horizon = P!Top.horizon,
                        !.program = P!Top.program]
      /\ P!Top.horizon \in Int /\ P!Top.program \in Nat
    BY <1>2 DEF PacerCall
<1>6. OthersTyped' /\ held' = held /\ UNCHANGED P!clockVars
    <2>1. anchor' \in Int \X Int
        <3>1. out \in Int /\ anchor \in Int \X Int
            BY BaseParts DEF PacerTypes
        <3>2. VideoLead \in Int /\ AudioLead \in Int
            BY PacerAssumption
        <3>3. P!Top.time \in Int
            BY <1>2 DEF PacerCall, P!NoTime, P!Never
        <3>4. <<out, P!Top.time - P!LeadOf(P!Top.track)>> \in Int \X Int
            BY <3>1, <3>2, <3>3 DEF P!LeadOf
        <3> QED BY <3>1, <3>4 DEF P!Start
    <2>2. /\ pendingBase' = pendingBase /\ wire' = wire /\ rebases' = rebases
          /\ given' = given /\ bases' = bases /\ begun' = begun /\ held' = held
          /\ UNCHANGED P!clockVars
        BY DEF P!Start, P!callerVars
    <2> QED BY <2>1, <2>2, BaseParts DEF OthersTyped
<1> HIDE DEF s
<1>7. PacerBase' /\ Onward(s, P!Top.left)
    BY <1>2, <1>3, <1>4, <1>5, <1>6, QuietOnward, Zenon
<1> QED BY <1>2, <1>7 DEF s
(* A step of a frame past its start, which is due once it is not early.    *)
LateStages == {"late", "flush", "pcrs", "send"}
Progress(left) ==
    /\ stack # <<>> /\ P!Top.kind = "frame" /\ P!Top.stage # "start"
    /\ \E s \in FrameStages \ {"start"} :
           /\ Onward(s, left)
           /\ s \in LateStages => P!Top.stage \in LateStages \/ ~P!Early
Kept ==
    /\ anchor' = anchor /\ pendingBase' = pendingBase /\ wire' = wire /\ rebases' = rebases
    /\ given' = given /\ bases' = bases /\ begun' = begun

LEMMA QuietProgress ==
    ASSUME PacerBase, NEW at \in FrameStages \ {"start"}, P!At(at),
           NEW s \in FrameStages \ {"start"}, s # "send" => P!Top.time # P!NoTime,
           s \in LateStages => at \in LateStages \/ ~P!Early,
           NEW h \in Int, NEW n \in Nat,
           SwapsTo([P!Top EXCEPT !.stage = s, !.left = P!Top.left, !.horizon = h, !.program = n]),
           Kept, held' = held, UNCHANGED P!clockVars
    PROVE  PacerBase' /\ Progress(P!Top.left)
<1>1. stack # <<>> /\ P!Top.kind = "frame" /\ P!Top.stage = at
    BY FrameRuns
<1>2. OthersTyped'
    BY OthersKept DEF Kept
<1>3. PacerBase' /\ Onward(s, P!Top.left)
    BY <1>1, <1>2, QuietOnward, Zenon
<1> QED BY <1>1, <1>3 DEF Progress

LEMMA TimeKnown ==
    ASSUME PacerBase, NEW at \in FrameStages \ {"start", "send"}, P!At(at)
    PROVE  P!Top.time # P!NoTime
    BY FrameRuns DEF SoundCall

LEMMA EqualCalls ==
    ASSUME NEW top \in PacerCall, NEW s
    PROVE  /\ top.horizon \in Int /\ top.program \in Nat /\ top.left \in Int
           /\ [top EXCEPT !.stage = s] =
                  [top EXCEPT !.stage = s, !.left = top.left, !.horizon = top.horizon,
                              !.program = top.program]
           /\ \A h : [top EXCEPT !.stage = s, !.horizon = h] =
                  [top EXCEPT !.stage = s, !.left = top.left, !.horizon = h,
                              !.program = top.program]
           /\ \A n : [top EXCEPT !.stage = s, !.program = n] =
                  [top EXCEPT !.stage = s, !.left = top.left, !.horizon = top.horizon,
                              !.program = n]
           /\ \A n : s = top.stage => [top EXCEPT !.program = n] =
                  [top EXCEPT !.stage = s, !.left = top.left, !.horizon = top.horizon,
                              !.program = n]
           /\ \A l : s = top.stage => [top EXCEPT !.left = l] =
                  [top EXCEPT !.stage = s, !.left = l, !.horizon = top.horizon,
                              !.program = top.program]
    BY DEF PacerCall

LEMMA WaitStep ==
    ASSUME PacerBase, P!Wait
    PROVE  PacerBase' /\ Progress(P!Top.left) /\ Kept /\ held' = held /\ UNCHANGED P!clockVars
<1>1. P!At("loop") /\ "loop" \in FrameStages \ {"start", "send"}
    BY DEF P!Wait, FrameStages
<1>2. Kept /\ held' = held /\ UNCHANGED P!clockVars
    BY DEF P!Wait, Kept, P!callerVars
<1>3. /\ "wait" \in FrameStages \ {"start"} /\ "late" \in FrameStages \ {"start"}
      /\ "wait" \notin LateStages
    BY DEF FrameStages, LateStages
<1>4. P!Top \in PacerCall /\ P!Top.time # P!NoTime /\ P!Now(out) \in Int
    <2>1. PacerTypes /\ out \in Int
        BY BaseParts DEF PacerTypes
    <2> QED BY <2>1, <1>1, FrameRuns, TimeKnown, NowTyped
<1>5. CASE P!Early
    <2>1. SwapsTo([P!Top EXCEPT !.stage = "wait", !.horizon = P!Now(out)])
        BY <1>5 DEF P!Wait, SwapsTo
    <2>2. SwapsTo([P!Top EXCEPT !.stage = "wait", !.left = P!Top.left, !.horizon = P!Now(out),
                               !.program = P!Top.program]) /\ P!Top.program \in Nat
        BY <2>1, <1>4, EqualCalls
    <2> QED BY <1>1, <1>2, <1>3, <1>4, <2>2, QuietProgress, Zenon
<1>6. CASE ~P!Early
    <2>1. SwapsTo([P!Top EXCEPT !.stage = "late"])
        BY <1>6 DEF P!Wait, SwapsTo
    <2>2. SwapsTo([P!Top EXCEPT !.stage = "late", !.left = P!Top.left, !.horizon = P!Top.horizon,
                               !.program = P!Top.program])
          /\ P!Top.program \in Nat /\ P!Top.horizon \in Int
        BY <2>1, <1>4, EqualCalls
    <2> QED BY <1>1, <1>2, <1>3, <1>4, <1>6, <2>2, QuietProgress, Zenon
<1> QED BY <1>5, <1>6

LEMMA LookAgainStep ==
    ASSUME PacerBase, P!LookAgain
    PROVE  PacerBase' /\ Progress(P!Top.left) /\ Kept /\ held' = held /\ UNCHANGED P!clockVars
<1>1. P!At("wait") /\ "wait" \in FrameStages \ {"start", "send"}
    BY DEF P!LookAgain, FrameStages
<1>2. Kept /\ held' = held /\ UNCHANGED P!clockVars
    BY DEF P!LookAgain, Kept, P!callerVars
<1>3. /\ "pcr" \in FrameStages \ {"start"} /\ "late" \in FrameStages \ {"start"}
      /\ "pcr" \notin LateStages
    BY DEF FrameStages, LateStages
<1>4. P!Top \in PacerCall /\ P!Top.time # P!NoTime /\ 1 \in Nat
    BY <1>1, FrameRuns, TimeKnown
<1>5. CASE P!Early
    <2>1. SwapsTo([P!Top EXCEPT !.stage = "pcr", !.program = 1])
        BY <1>5 DEF P!LookAgain, SwapsTo
    <2>2. SwapsTo([P!Top EXCEPT !.stage = "pcr", !.left = P!Top.left, !.horizon = P!Top.horizon,
                               !.program = 1]) /\ P!Top.horizon \in Int
        BY <2>1, <1>4, EqualCalls
    <2> QED BY <1>1, <1>2, <1>3, <1>4, <2>2, QuietProgress, Zenon
<1>6. CASE ~P!Early
    <2>1. SwapsTo([P!Top EXCEPT !.stage = "late"])
        BY <1>6 DEF P!LookAgain, SwapsTo
    <2>2. SwapsTo([P!Top EXCEPT !.stage = "late", !.left = P!Top.left, !.horizon = P!Top.horizon,
                               !.program = P!Top.program])
          /\ P!Top.program \in Nat /\ P!Top.horizon \in Int
        BY <2>1, <1>4, EqualCalls
    <2> QED BY <1>1, <1>2, <1>3, <1>4, <1>6, <2>2, QuietProgress, Zenon
<1> QED BY <1>5, <1>6

LEMMA PcrNotDueStep ==
    ASSUME PacerBase, P!PcrNotDue
    PROVE  PacerBase' /\ Progress(P!Top.left) /\ Kept /\ held' = held /\ UNCHANGED P!clockVars
<1> DEFINE at == P!Top.stage
<1>1. P!At(at) /\ at \in {"pcr", "pcrs"}
    BY DEF P!PcrNotDue, P!PcrStage, P!At
<1>2. Kept /\ held' = held /\ UNCHANGED P!clockVars
    BY DEF P!PcrNotDue, Kept, P!callerVars
<1>3. at \in FrameStages \ {"start", "send"} /\ at \in FrameStages \ {"start"}
    BY <1>1 DEF FrameStages
<1>4. P!Top \in PacerCall /\ P!Top.time # P!NoTime
    BY <1>1, <1>3, FrameRuns, TimeKnown
<1>5. SwapsTo([P!Top EXCEPT !.program = @ + 1])
    BY DEF P!PcrNotDue, SwapsTo
<1>6. P!Top.program + 1 \in Nat
    BY <1>4 DEF PacerCall
<1>7. SwapsTo([P!Top EXCEPT !.stage = at, !.left = P!Top.left, !.horizon = P!Top.horizon,
                           !.program = P!Top.program + 1]) /\ P!Top.horizon \in Int
    BY <1>4, <1>5, EqualCalls
<1> HIDE DEF at
<1> QED BY <1>1, <1>2, <1>3, <1>4, <1>6, <1>7, QuietProgress, Zenon

LEMMA FlushedStep ==
    ASSUME PacerBase, P!Flushed
    PROVE  PacerBase' /\ Progress(P!Top.left) /\ Kept /\ held' = held /\ UNCHANGED P!clockVars
<1>1. P!At("flush") /\ "flush" \in FrameStages \ {"start", "send"}
    BY DEF P!Flushed, FrameStages
<1>2. Kept /\ held' = held /\ UNCHANGED P!clockVars
    BY DEF P!Flushed, Kept, P!callerVars
<1>3. "pcrs" \in FrameStages \ {"start"} /\ "flush" \in LateStages /\ 1 \in Nat
    BY DEF FrameStages, LateStages
<1>4. P!Top \in PacerCall /\ P!Top.time # P!NoTime
    BY <1>1, FrameRuns, TimeKnown
<1>5. SwapsTo([P!Top EXCEPT !.stage = "pcrs", !.program = 1])
    BY DEF P!Flushed, SwapsTo
<1>6. SwapsTo([P!Top EXCEPT !.stage = "pcrs", !.left = P!Top.left, !.horizon = P!Top.horizon,
                           !.program = 1]) /\ P!Top.horizon \in Int
    BY <1>4, <1>5, EqualCalls
<1> QED BY <1>1, <1>2, <1>3, <1>4, <1>6, QuietProgress, Zenon

LEMMA PcrsSentStep ==
    ASSUME PacerBase, P!PcrsSent
    PROVE  PacerBase' /\ Progress(P!Top.left) /\ Kept /\ held' = held /\ UNCHANGED P!clockVars
<1>1. P!At("pcrs") /\ "pcrs" \in FrameStages \ {"start", "send"}
    BY DEF P!PcrsSent, FrameStages
<1>2. Kept /\ held' = held /\ UNCHANGED P!clockVars
    BY DEF P!PcrsSent, Kept, P!callerVars
<1>3. "send" \in FrameStages \ {"start"} /\ "pcrs" \in LateStages
    BY DEF FrameStages, LateStages
<1>4. P!Top \in PacerCall /\ P!Top.time # P!NoTime
    BY <1>1, FrameRuns, TimeKnown
<1>5. SwapsTo([P!Top EXCEPT !.stage = "send"])
    BY DEF P!PcrsSent, P!Go, SwapsTo
<1>6. SwapsTo([P!Top EXCEPT !.stage = "send", !.left = P!Top.left, !.horizon = P!Top.horizon,
                           !.program = P!Top.program])
      /\ P!Top.program \in Nat /\ P!Top.horizon \in Int
    BY <1>4, <1>5, EqualCalls
<1> QED BY <1>1, <1>2, <1>3, <1>4, <1>6, QuietProgress, Zenon
LEMMA CheckLateStep ==
    ASSUME PacerBase, P!CheckLate
    PROVE  /\ PacerBase' /\ Kept /\ held' = held /\ UNCHANGED P!clockVars
           /\ \/ Progress(P!Top.left) /\ outcome' = outcome
              \/ stack' = <<>> /\ outcome' = "failed"
<1>1. P!At("late") /\ "late" \in FrameStages \ {"start", "send"}
    BY DEF P!CheckLate, FrameStages
<1>2. Kept /\ held' = held /\ UNCHANGED P!clockVars
    BY DEF P!CheckLate, Kept, P!callerVars
<1>3. "flush" \in FrameStages \ {"start"} /\ "late" \in LateStages
    BY DEF FrameStages, LateStages
<1>4. P!Top \in PacerCall /\ P!Top.time # P!NoTime /\ P!Now(out) \in Int
      /\ P!Top.size \in Nat /\ ~Pending
    <2>1. PacerTypes /\ out \in Int
        BY BaseParts DEF PacerTypes
    <2>2. P!Top \in PacerCall /\ P!Top.time # P!NoTime /\ ~Pending
        BY <1>1, FrameRuns, TimeKnown
    <2> QED BY <2>1, <2>2, NowTyped DEF PacerCall
<1>5. CASE P!Now(out) > P!Top.time
    <2>1. stack' = <<>> /\ outcome' = "failed"
        BY <1>5 DEF P!CheckLate
    <2>2. StackTyped' /\ ~Pending'
        BY <2>1 DEF StackTyped, StackShape, Pending
    <2>3. PacerBase'
        BY <1>2, <1>4, <2>2, StillBase, OthersKept, HeldKept DEF Kept
    <2> QED BY <1>2, <2>1, <2>3
<1>6. CASE ~(P!Now(out) > P!Top.time)
    <2> DEFINE h == P!Now(out) + P!Top.size + 1
    <2>1. SwapsTo([P!Top EXCEPT !.stage = "flush", !.horizon = h]) /\ outcome' = outcome
        BY <1>6 DEF P!CheckLate, SwapsTo
    <2>2. h \in Int
        BY <1>4
    <2> HIDE DEF h
    <2>3. SwapsTo([P!Top EXCEPT !.stage = "flush", !.left = P!Top.left, !.horizon = h,
                               !.program = P!Top.program]) /\ P!Top.program \in Nat
        BY <2>1, <1>4, EqualCalls
    <2>4. PacerBase' /\ Progress(P!Top.left)
        BY <1>1, <1>2, <1>3, <1>4, <2>2, <2>3, QuietProgress, Zenon
    <2> QED BY <1>2, <2>1, <2>4
<1> QED BY <1>5, <1>6

------------------------------------------------------------------------------
(* The packets.                                                            *)
(* A null packet, or a packet of a track with room in its buffer, from the *)
(* frame on top, which goes on.                                            *)
PacketSent(pid) == P!Slot(pid, pid \in Paced) /\ (pid \in Paced => tb[pid] + Load <= Bucket)

LEMMA NullIsPacket ==
    ASSUME PacerBase, P!EmitNull PROVE PacketSent(-1)
<1> DEFINE known == -1 \in Paced
<1>1. known = FALSE
    BY PacerAssumption
<1>2. P!Slot(-1, FALSE)
    BY DEF P!EmitNull
<1> HIDE DEF known
<1>3. P!Slot(-1, known)
    BY <1>1, <1>2, Zenon
<1> QED BY <1>1, <1>3 DEF PacketSent, known

LEMMA OpenIsPacket ==
    ASSUME PacerBase, NEW pid, P!Open(pid), P!Slot(pid, pid \in Paced) PROVE PacketSent(pid)
    BY DEF PacketSent, P!Open, P!HasRoom

LEMMA PacketBase ==
    ASSUME PacerBase, OthersTyped', HeldTyped', StackTyped', ~Pending, ~Pending',
           NEW pid, pid # 0, PacketSent(pid)
    PROVE  PacerBase' /\ out' = out + 1
<1> DEFINE booking == pid \in Paced
<1>1. booking \in BOOLEAN /\ P!Slot(pid, booking) /\ (pid \in Paced => booking /\ tb[pid] + Load <= Bucket)
    BY DEF PacketSent
<1> HIDE DEF booking
<1>2. PacerBase'
    BY <1>1, SlotBase
<1>3. out' = out + 1
    BY <1>1 DEF P!Slot
<1> QED BY <1>2, <1>3

LEMMA NullStep ==
    ASSUME PacerBase, P!Null
    PROVE  PacerBase' /\ Progress(P!Top.left) /\ Kept /\ held' = held /\ out' = out + 1
<1>1. P!At("pcr") /\ "pcr" \in FrameStages \ {"start", "send"}
    BY DEF P!Null, FrameStages
<1>2. Kept /\ held' = held /\ P!EmitNull
    BY DEF P!Null, Kept, P!callerVars, P!NoPcr
<1>3. "loop" \in FrameStages \ {"start"} /\ "loop" \notin LateStages
    BY DEF FrameStages, LateStages
<1>4. /\ P!Top \in PacerCall /\ P!Top.time # P!NoTime /\ ~Pending /\ stack # <<>>
      /\ P!Top.kind = "frame" /\ P!Top.stage = "pcr" /\ PacerTypes /\ StackShape
    BY <1>1, FrameRuns, TimeKnown, BaseParts
<1>5. SwapsTo([P!Top EXCEPT !.stage = "loop"])
    BY DEF P!Null, P!Go, SwapsTo
<1>6. SwapsTo([P!Top EXCEPT !.stage = "loop", !.left = P!Top.left, !.horizon = P!Top.horizon,
                           !.program = P!Top.program])
      /\ P!Top.program \in Nat /\ P!Top.horizon \in Int /\ P!Top.left \in Int
    BY <1>4, <1>5, EqualCalls
<1>7. Onward("loop", P!Top.left)
    BY <1>3, <1>4, <1>6, OnwardBy, Zenon
<1>8. StackTyped' /\ ~Pending'
    BY <1>3, <1>4, <1>7, OnwardKeepsShape DEF StackTyped
<1>9. PacerBase' /\ out' = out + 1
    <2>1. PacketSent(-1) /\ -1 # 0
        BY <1>2, NullIsPacket
    <2>2. OthersTyped' /\ HeldTyped'
        BY <1>2, OthersKept, HeldKept DEF Kept
    <2> HIDE DEF StackTyped
    <2> QED BY <1>4, <1>8, <2>1, <2>2, PacketBase
<1> QED BY <1>2, <1>3, <1>4, <1>7, <1>9 DEF Progress
------------------------------------------------------------------------------
LEMMA StillStack ==
    ASSUME PacerBase, stack' = stack PROVE StackTyped' /\ (Pending' <=> Pending)
    BY BaseParts DEF StackTyped, StackShape, Pending, P!Top, P!Last

LEMMA SetPcrTyped ==
    ASSUME PacerBase, NEW p \in Programs, P!SetPcr(p), anchor' = anchor, rebases' = rebases,
           given' = given, bases' = bases
    PROVE  begun' \in [PacedTracks -> SUBSET Nat] => OthersTyped'
<1> DEFINE w == [at |-> out, value |-> P!Now(out), marked |-> pendingBase[p], epoch |-> rebases]
           Wires == [at : Int, value : Int, marked : BOOLEAN, epoch : Nat]
<1>1. OthersTyped /\ out \in Int /\ P!Now(out) \in Int
    <2>1. PacerTypes /\ OthersTyped
        BY BaseParts
    <2>2. out \in Nat
        BY <2>1 DEF PacerTypes
    <2>3. P!Now(out) \in Int
        BY <2>1, <2>2, NowTyped
    <2> QED BY <2>1, <2>2, <2>3
<1>2. w \in Wires
    BY <1>1 DEF OthersTyped
<1>3. /\ wire' = [wire EXCEPT ![p] = w]
      /\ pendingBase' = [pendingBase EXCEPT ![p] = FALSE]
    BY DEF P!SetPcr
<1> HIDE DEF w
<1>4. wire' \in [Programs -> Wires]
    BY <1>1, <1>2, <1>3 DEF OthersTyped
<1>5. pendingBase' \in [Programs -> BOOLEAN]
    BY <1>1, <1>3 DEF OthersTyped
<1> QED BY <1>1, <1>4, <1>5 DEF OthersTyped

SameClock == anchor' = anchor /\ pendingBase' = pendingBase /\ wire' = wire /\ rebases' = rebases
SameCaller == given' = given /\ bases' = bases /\ outcome' = outcome

(* A packet while the frame on top looks at the PCRs: one of them, or a    *)
(* null packet while its track has no room.                                *)
PcrOut ==
    /\ Progress(P!Top.left) /\ P!Top.time # P!NoTime
    /\ anchor' = anchor /\ rebases' = rebases
    /\ \E p \in Programs : P!SetPcr(p)
NullOut == stack' = stack /\ SameClock

LEMMA PcrOnlyStep ==
    ASSUME PacerBase, P!PcrOnly
    PROVE  /\ PacerBase' /\ held' = held /\ begun' = begun /\ SameCaller /\ out' = out + 1
           /\ PcrOut \/ NullOut
<1> DEFINE at  == P!Top.stage
           p   == P!Top.program
           pid == PacedPcrTrack[p]
<1>1. P!At(at) /\ at \in {"pcr", "pcrs"} /\ p \in Programs
    BY DEF P!PcrOnly, P!PcrStage, P!At
<1>2. at \in FrameStages \ {"start", "send"} /\ at \in FrameStages \ {"start"}
    BY <1>1 DEF FrameStages
<1>3. /\ P!Top \in PacerCall /\ P!Top.time # P!NoTime /\ ~Pending /\ stack # <<>>
      /\ P!Top.kind = "frame" /\ PacerTypes /\ StackShape
    BY <1>1, <1>2, FrameRuns, TimeKnown, BaseParts
<1>4. /\ anchor' = anchor /\ held' = held /\ begun' = begun /\ given' = given /\ bases' = bases
      /\ rebases' = rebases /\ outcome' = outcome
    BY DEF P!PcrOnly, P!callerVars
<1>5. pid \in PacedTracks /\ pid # 0 /\ begun \in [PacedTracks -> SUBSET Nat]
    BY <1>1, BaseParts, PacerAssumption DEF OthersTyped
<1>6. HeldTyped'
    BY <1>4, HeldKept
<1>7. CASE P!Open(pid)
    <2>1. /\ P!Slot(pid, pid \in Paced) /\ P!SetPcr(p)
          /\ SwapsTo([P!Top EXCEPT !.program = @ + 1])
        BY <1>7 DEF P!PcrOnly, SwapsTo
    <2>2. PacketSent(pid)
        BY <1>7, <2>1, OpenIsPacket
    <2>3. OthersTyped'
        BY <1>1, <1>4, <1>5, <2>1, SetPcrTyped
    <2>4. P!Top.program + 1 \in Nat
        BY <1>3 DEF PacerCall
    <2>5. SwapsTo([P!Top EXCEPT !.stage = at, !.left = P!Top.left, !.horizon = P!Top.horizon,
                               !.program = P!Top.program + 1])
          /\ P!Top.horizon \in Int /\ P!Top.left \in Int
        BY <1>3, <2>1, EqualCalls
    <2> DEFINE h == P!Top.horizon
               l == P!Top.left
    <2> HIDE DEF at, h, l
    <2>6. Onward(at, P!Top.left)
        <3>1. l \in Int /\ h \in Int /\ SwapsTo([P!Top EXCEPT !.stage = at, !.left = l, !.horizon = h,
                               !.program = P!Top.program + 1])
            BY <2>5 DEF l, h
        <3> QED BY <1>2, <1>3, <2>4, <3>1, OnwardBy, Zenon DEF l
    <2>7. StackTyped' /\ ~Pending'
        BY <1>2, <1>3, <2>6, OnwardKeepsShape DEF StackTyped
    <2>8. PacerBase' /\ out' = out + 1
        <3> HIDE DEF pid
        <3> QED BY <1>3, <1>5, <1>6, <2>2, <2>3, <2>7, PacketBase
    <2>9. Progress(P!Top.left)
        BY <1>2, <1>3, <2>6 DEF Progress, at
    <2> QED BY <1>1, <1>3, <1>4, <2>1, <2>8, <2>9 DEF PcrOut, SameCaller
<1>8. CASE ~P!Open(pid)
    <2>1. P!EmitNull /\ stack' = stack /\ wire' = wire /\ pendingBase' = pendingBase
        BY <1>8 DEF P!PcrOnly, P!NoPcr
    <2>2. OthersTyped'
        BY <1>4, <2>1, OthersKept
    <2>3. StackTyped' /\ ~Pending'
        BY <1>3, <2>1, StillStack
    <2>4. PacketSent(-1) /\ -1 # 0
        BY <2>1, NullIsPacket
    <2>5. PacerBase' /\ out' = out + 1
        BY <1>3, <1>6, <2>2, <2>3, <2>4, PacketBase
    <2> QED BY <1>4, <2>1, <2>5 DEF NullOut, SameClock, SameCaller
<1> QED BY <1>7, <1>8

(* A packet of the frame on top: its first marks it begun, and its last    *)
(* ends it.                                                                *)
SentOut ==
    /\ P!Top.left = 1 => Popped
    /\ P!Top.left # 1 => Onward("send", P!Top.left - 1)
    /\ anchor' = anchor /\ rebases' = rebases
    /\ (wire' = wire /\ pendingBase' = pendingBase)
           \/ (P!Top.time # P!NoTime /\ \E p \in Programs : P!SetPcr(p))
    /\ begun' = IF P!Top.left = P!Top.size
                THEN [begun EXCEPT ![P!Top.track] = @ \cup {P!Top.seq}] ELSE begun

LEMMA SendStep ==
    ASSUME PacerBase, P!Send
    PROVE  /\ PacerBase' /\ held' = held /\ SameCaller /\ out' = out + 1
           /\ P!Top.kind = "frame" /\ P!Top.stage = "send"
           /\ SentOut \/ (NullOut /\ begun' = begun)
<1> DEFINE t == P!Top.track
<1>1. P!At("send") /\ "send" \in FrameStages
    BY DEF P!Send, FrameStages
<1>2. /\ P!Top \in PacerCall /\ ~Pending /\ stack # <<>> /\ t \in PacedTracks
      /\ P!Top.kind = "frame" /\ P!Top.stage = "send" /\ PacerTypes /\ StackShape
    BY <1>1, FrameRuns, BaseParts
<1>3. /\ anchor' = anchor /\ held' = held /\ given' = given /\ bases' = bases
      /\ rebases' = rebases /\ outcome' = outcome
    BY DEF P!Send, P!callerVars
<1>4. t # 0 /\ begun \in [PacedTracks -> SUBSET Nat] /\ ProgramOf[t] \in Programs
    BY <1>2, BaseParts, PacerAssumption DEF OthersTyped
<1>5. HeldTyped'
    BY <1>3, HeldKept
<1>6. CASE P!Open(t)
    <2>1. /\ P!Slot(t, t \in Paced)
          /\ IF P!Inline THEN P!SetPcr(ProgramOf[t]) ELSE P!NoPcr
          /\ begun' = IF P!Top.left = P!Top.size THEN [begun EXCEPT ![t] = @ \cup {P!Top.seq}] ELSE begun
          /\ IF P!Top.left = 1 THEN P!Return ELSE SwapsTo([P!Top EXCEPT !.left = @ - 1])
        BY <1>6 DEF P!Send, SwapsTo
    <2>2. PacketSent(t)
        BY <1>6, <2>1, OpenIsPacket
    <2>3. begun' \in [PacedTracks -> SUBSET Nat]
        <3>1. P!Top.seq \in Nat
            BY <1>2 DEF PacerCall
        <3> QED BY <2>1, <3>1, <1>2, <1>4
    <2>4. OthersTyped'
        <3>1. CASE P!Inline
            <4>1. P!SetPcr(ProgramOf[t])
                BY <2>1, <3>1
            <4> QED BY <4>1, <1>3, <1>4, <2>3, SetPcrTyped
        <3>2. CASE ~P!Inline
            <4>1. wire' = wire /\ pendingBase' = pendingBase
                BY <2>1, <3>2 DEF P!NoPcr
            <4> QED BY <4>1, <1>3, <2>3, BaseParts DEF OthersTyped
        <3> QED BY <3>1, <3>2
    <2>5. (wire' = wire /\ pendingBase' = pendingBase)
           \/ (P!Top.time # P!NoTime /\ \E p \in Programs : P!SetPcr(p))
        <3>1. P!Inline => P!Top.time # P!NoTime
            BY DEF P!Inline
        <3>2. P!NoPcr => wire' = wire /\ pendingBase' = pendingBase
            BY DEF P!NoPcr
        <3> QED BY <2>1, <1>4, <3>1, <3>2
    <2>6. /\ P!Top.left = 1 => Popped
          /\ P!Top.left # 1 => Onward("send", P!Top.left - 1)
        <3>1. ASSUME P!Top.left = 1 PROVE Popped
            BY <1>2, <2>1, <3>1, PoppedBy
        <3>2. ASSUME P!Top.left # 1 PROVE Onward("send", P!Top.left - 1)
            <4> DEFINE l == P!Top.left - 1
                       h == P!Top.horizon
                       n == P!Top.program
            <4>1. SwapsTo([P!Top EXCEPT !.left = P!Top.left - 1])
                BY <2>1, <3>2
            <4>5. "send" = P!Top.stage /\ P!Top \in PacerCall
                BY <1>2
            <4>6. [P!Top EXCEPT !.left = P!Top.left - 1] =
                      [P!Top EXCEPT !.stage = "send", !.left = P!Top.left - 1,
                                    !.horizon = P!Top.horizon, !.program = P!Top.program]
                BY <4>5, EqualCalls
            <4>2. /\ SwapsTo([P!Top EXCEPT !.stage = "send", !.left = P!Top.left - 1,
                                         !.horizon = P!Top.horizon, !.program = P!Top.program])
                  /\ l \in Int /\ h \in Int /\ n \in Nat
                <5>1. l \in Int /\ h \in Int /\ n \in Nat
                    BY <4>5 DEF PacerCall
                <5> QED BY <4>1, <4>6, <5>1, Zenon
            <4>3. SwapsTo([P!Top EXCEPT !.stage = "send", !.left = l, !.horizon = h, !.program = n])
                BY <4>2
            <4> HIDE DEF l, h, n
            <4>4. Onward("send", l)
                BY <1>1, <1>2, <4>2, <4>3, OnwardBy, Zenon
            <4> QED BY <4>4 DEF l
        <3> QED BY <3>1, <3>2
    <2>7. StackTyped' /\ ~Pending'
        <3>1. CASE P!Top.left = 1
            BY <3>1, <2>6, <1>2, PopKeepsShape DEF StackTyped
        <3>2. CASE P!Top.left # 1
            BY <3>2, <2>6, <1>1, <1>2, OnwardKeepsShape DEF StackTyped
        <3> QED BY <3>1, <3>2
    <2>8. PacerBase' /\ out' = out + 1
        <3> HIDE DEF t
        <3> QED BY <1>2, <1>4, <1>5, <2>2, <2>4, <2>7, PacketBase
    <2>9. SentOut
        BY <1>3, <2>1, <2>5, <2>6 DEF SentOut
    <2> QED BY <1>2, <1>3, <2>8, <2>9 DEF SameCaller
<1>7. CASE ~P!Open(t)
    <2>1. /\ P!EmitNull /\ stack' = stack /\ wire' = wire /\ pendingBase' = pendingBase
          /\ begun' = begun
        BY <1>7 DEF P!Send, P!NoPcr
    <2>2. OthersTyped'
        BY <1>3, <2>1, OthersKept
    <2>3. StackTyped' /\ ~Pending'
        BY <1>2, <2>1, StillStack
    <2>4. PacketSent(-1) /\ -1 # 0
        BY <2>1, NullIsPacket
    <2>5. PacerBase' /\ out' = out + 1
        BY <1>2, <1>5, <2>2, <2>3, <2>4, PacketBase
    <2> QED BY <1>2, <1>3, <2>1, <2>5 DEF NullOut, SameClock, SameCaller
<1> QED BY <1>6, <1>7
------------------------------------------------------------------------------
(* The tables: their packets are booked, wait for the pool, and go out.    *)
TablesGoOn(stage, left) ==
    \E c \in PacerEntry : Swapped(c) /\ SameCall(c, P!Top) /\ c.stage = stage /\ c.left = left
                          /\ c.program = P!Top.program

LEMMA TablesGoOnBy ==
    ASSUME PacerTypes, StackShape, stack # <<>>, P!Top.kind = "tables", NEW s \in {"space", "pool"},
           NEW l \in Int, SwapsTo([P!Top EXCEPT !.left = l, !.stage = s])
    PROVE  /\ TablesGoOn(s, l) /\ StackTyped'
           /\ Pending' <=> s = "pool"
<1> DEFINE top == P!Top
           c   == [top EXCEPT !.left = l, !.stage = s]
<1>1. top \in PacerCall /\ SoundCall(top) /\ top.kind = "tables" /\ top = P!Top
    BY TopIs
<1>2. SwapsTo(c)
    OBVIOUS
<1> HIDE DEF top
<1>3. /\ c \in PacerCall /\ SameCall(c, top) /\ c.stage = s /\ c.left = l
      /\ c.program = top.program
    BY <1>1 DEF PacerCall, SameCall
<1> HIDE DEF c
<1>4. c.kind = "tables"
    BY <1>1, <1>3 DEF SameCall
<1>5. c \in PacerEntry
    BY <1>3, <1>4 DEF PacerEntry, SoundCall
<1>6. Swapped(c)
    BY <1>2, <1>5, SwappedBy, Zenon
<1>7. c.kind # "drain"
    BY <1>4
<1>8. stack' \in Seq(PacerEntry) /\ StackShape' /\ stack' # <<>> /\ P!Top' = c
    BY <1>5, <1>6, <1>7, SwapKeepsShape
<1>9. Pending' <=> s = "pool"
    BY <1>3, <1>8 DEF Pending
<1>10. TablesGoOn(s, l)
    BY <1>1, <1>3, <1>5, <1>6 DEF TablesGoOn
<1> QED BY <1>8, <1>9, <1>10 DEF StackTyped

(* A step of tables which changes only the buffers and the stack.          *)
TablesKept ==
    anchor' = anchor /\ pendingBase' = pendingBase /\ wire' = wire /\ rebases' = rebases
    /\ given' = given /\ bases' = bases /\ begun' = begun /\ held' = held /\ outcome' = outcome

LEMMA EmptyNullKeepsBuffers ==
    ASSUME PacerTypes, Buffers, Pending, Pending', bsys + Load > Pool, P!EmitNull
    PROVE  Buffers'
<1>1. /\ {Load, Bucket, Pool, PoolDrain} \subseteq Nat /\ bsys \in Nat
      /\ \A q \in PacedTracks \cup {0} : tb[q] \in Nat /\ fill[q] \in Nat /\ Drain[q] \in Nat
      /\ Paced \subseteq PacedTracks /\ 0 \notin PacedTracks
      /\ Load <= Pool /\ 2 * PoolDrain <= Drain[0]
    BY BuffersTyped
<1>2. /\ bsys' = P!Left(bsys + 0, PoolDrain)
      /\ \A q \in PacedTracks \cup {0} :
             /\ tb'[q] = P!Left(tb[q] + 0, Drain[q])
             /\ fill'[q] = P!Left(fill[q] + 0, Drain[q])
    <2>1. -1 # 0 /\ \A q \in PacedTracks \cup {0} : q # -1
        BY PacerAssumption
    <2>2. P!Slot(-1, FALSE) /\ FALSE \in BOOLEAN
        BY DEF P!EmitNull
    <2>3. /\ bsys' = P!Left(bsys + IF -1 = 0 THEN Load ELSE 0, PoolDrain)
          /\ \A q \in PacedTracks \cup {0} :
                 /\ tb'[q] = P!Left(tb[q] + IF q = -1 /\ FALSE THEN Load ELSE 0, Drain[q])
                 /\ fill'[q] = P!Left(fill[q] + IF q = -1 THEN Load ELSE 0, Drain[q])
        BY <2>2, SlotTyped
    <2> QED BY <2>1, <2>3
<1>3. ASSUME NEW q \in Paced
      PROVE  fill'[q] <= tb'[q] /\ (fill'[q] > 0 => fill'[q] + Drain[q] <= Bucket)
    <2>1. fill[q] <= tb[q] /\ (fill[q] > 0 => fill[q] + Drain[q] <= Bucket)
        BY DEF Buffers, TrackBooks, P!TransportBuffers
    <2>2. q \in PacedTracks \cup {0}
        BY <1>1
    <2> QED BY <1>1, <1>2, <2>1, <2>2 DEF P!Left
<1>4. /\ tb[0] <= Bucket /\ Load <= Bucket
      /\ \/ fill[0] + Load <= tb[0]
         \/ fill[0] + Pool <= bsys + Load
         \/ fill[0] = 0 /\ Pool < bsys + Load + PoolDrain
      /\ fill[0] > 0 => fill[0] + Drain[0] <= Bucket
    BY DEF Buffers, SystemBooks, P!TransportBuffers, P!System
<1>5. /\ tb'[0] = P!Left(tb[0] + 0, Drain[0])
      /\ fill'[0] = P!Left(fill[0] + 0, Drain[0])
    BY <1>2
<1>6. /\ tb'[0] <= Bucket /\ Load <= Bucket
      /\ fill'[0] > 0 => fill'[0] + Drain[0] <= Bucket
    BY <1>1, <1>4, <1>5 DEF P!Left
<1>7. \/ fill'[0] + Load <= tb'[0]
      \/ fill'[0] + Pool <= bsys' + Load
      \/ fill'[0] = 0 /\ Pool < bsys' + Load + PoolDrain
    <2>1. /\ bsys' + PoolDrain >= bsys /\ bsys' \in Nat /\ fill'[0] \in Nat /\ tb'[0] \in Nat
          /\ {Load, Pool, PoolDrain, bsys, Drain[0], fill[0], tb[0]} \subseteq Nat
        <3>1. /\ Load \in Nat /\ Pool \in Nat /\ PoolDrain \in Nat /\ bsys \in Nat
              /\ Drain[0] \in Nat /\ fill[0] \in Nat /\ tb[0] \in Nat
            BY <1>1
        <3>2. bsys' + PoolDrain >= bsys /\ bsys' \in Nat
            BY <3>1, <1>2 DEF P!Left
        <3>3. fill'[0] \in Nat /\ tb'[0] \in Nat
            BY <3>1, <1>5 DEF P!Left
        <3> QED BY <3>1, <3>2, <3>3
    <2>2. CASE fill'[0] = 0
        BY <2>1, <2>2, <1>1
    <2>3. CASE fill'[0] # 0
        <3>1. fill[0] > Drain[0] /\ fill'[0] = fill[0] - Drain[0]
            BY <2>3, <1>1, <1>5 DEF P!Left
        <3>2. tb'[0] >= tb[0] - Drain[0]
            BY <1>1, <1>5 DEF P!Left
        <3> QED BY <2>1, <3>1, <3>2, <1>1, <1>4
    <2> QED BY <2>2, <2>3
<1> QED BY <1>3, <1>6, <1>7 DEF Buffers, TrackBooks, SystemBooks, P!TransportBuffers, P!System

LEMMA PooledKeepsBuffers ==
    ASSUME PacerTypes, Buffers, Pending, ~Pending', bsys + Load <= Pool, P!Slot(0, FALSE)
    PROVE  Buffers'
<1>1. /\ {Load, Bucket, Pool, PoolDrain} \subseteq Nat /\ bsys \in Nat
      /\ \A q \in PacedTracks \cup {0} : tb[q] \in Nat /\ fill[q] \in Nat /\ Drain[q] \in Nat
      /\ Paced \subseteq PacedTracks /\ 0 \notin PacedTracks
      /\ Load <= Pool /\ 2 * PoolDrain <= Drain[0]
    BY BuffersTyped
<1>2. /\ bsys' = P!Left(bsys + Load, PoolDrain)
      /\ tb'[0] = P!Left(tb[0] + 0, Drain[0])
      /\ fill'[0] = P!Left(fill[0] + Load, Drain[0])
      /\ \A q \in PacedTracks :
             /\ tb'[q] = P!Left(tb[q] + 0, Drain[q])
             /\ fill'[q] = P!Left(fill[q] + 0, Drain[q])
    BY <1>1, SlotTyped
<1>3. ASSUME NEW q \in Paced
      PROVE  fill'[q] <= tb'[q] /\ (fill'[q] > 0 => fill'[q] + Drain[q] <= Bucket)
    <2>1. fill[q] <= tb[q] /\ (fill[q] > 0 => fill[q] + Drain[q] <= Bucket)
        BY DEF Buffers, TrackBooks, P!TransportBuffers
    <2>2. q \in PacedTracks
        BY <1>1
    <2> QED BY <1>1, <1>2, <2>1, <2>2 DEF P!Left
<1>4. /\ tb[0] <= Bucket /\ Load <= Bucket
      /\ \/ fill[0] + Load <= tb[0]
         \/ fill[0] + Pool <= bsys + Load
         \/ fill[0] = 0 /\ Pool < bsys + Load + PoolDrain
      /\ fill[0] > 0 => fill[0] + Drain[0] <= Bucket
    BY DEF Buffers, SystemBooks, P!TransportBuffers, P!System
<1>5. fill[0] + Load <= tb[0] \/ fill[0] = 0
    BY <1>1, <1>4
<1>6. fill[0] + Load <= Bucket
    BY <1>1, <1>4, <1>5
<1>7. fill'[0] > 0 => fill'[0] + Drain[0] <= Bucket
    BY <1>1, <1>2, <1>6 DEF P!Left
<1>8. fill'[0] <= tb'[0] \/ fill'[0] + Pool <= bsys' + Load
    <2>1. CASE fill[0] + Load <= tb[0]
        BY <2>1, <1>1, <1>2 DEF P!Left
    <2>2. CASE fill[0] = 0 /\ ~(fill[0] + Load <= tb[0])
        <3>1. Pool <= bsys + Load + PoolDrain
            BY <2>2, <1>1, <1>4
        <3>2. CASE fill'[0] = 0
            BY <3>2, <1>1, <1>2 DEF P!Left
        <3>3. CASE fill'[0] # 0
            <4>1. fill'[0] = Load - Drain[0] /\ Load > Drain[0]
                BY <3>3, <2>2, <1>1, <1>2 DEF P!Left
            <4>2. /\ bsys' + PoolDrain >= bsys + Load /\ bsys' \in Nat
                  /\ {Load, Pool, PoolDrain, bsys, Drain[0]} \subseteq Nat
                BY <1>1, <1>2 DEF P!Left
            <4> QED BY <4>1, <4>2, <3>1, <1>1
        <3> QED BY <3>2, <3>3
    <2> QED BY <1>5, <2>1, <2>2
<1> QED BY <1>3, <1>7, <1>8 DEF Buffers, TrackBooks, SystemBooks, P!TransportBuffers, P!System

LEMMA BookedKeepsBuffers ==
    ASSUME PacerTypes, Buffers, ~Pending, Pending', tb[0] + Load <= Bucket,
           tb' = [tb EXCEPT ![0] = @ + Load], bsys' = bsys, fill' = fill
    PROVE  Buffers'
<1>1. /\ {Load, Bucket, Pool, PoolDrain} \subseteq Nat /\ bsys \in Nat
      /\ \A q \in PacedTracks \cup {0} : tb[q] \in Nat /\ fill[q] \in Nat /\ Drain[q] \in Nat
      /\ Paced \subseteq PacedTracks /\ 0 \notin PacedTracks
      /\ Load <= Pool /\ 2 * PoolDrain <= Drain[0]
    BY BuffersTyped
<1>2. tb'[0] = tb[0] + Load /\ \A q \in PacedTracks : tb'[q] = tb[q]
    BY <1>1 DEF PacerTypes
<1>3. fill[0] <= tb[0] \/ fill[0] + Pool <= bsys + Load
    BY DEF Buffers, SystemBooks
<1>4. SystemBooks'
    BY <1>1, <1>2, <1>3 DEF SystemBooks
<1>5. TrackBooks'
    BY <1>1, <1>2 DEF Buffers, TrackBooks
<1> QED BY <1>4, <1>5 DEF Buffers, P!TransportBuffers
LEMMA TablesRun ==
    ASSUME PacerBase, P!Running("tables")
    PROVE  /\ stack # <<>> /\ P!Top.kind = "tables" /\ P!Top \in PacerCall /\ P!Top \in PacerEntry
           /\ PacerTypes /\ StackShape /\ Buffers
    BY BaseParts, TopIs DEF P!Running

TablesOut ==
    /\ stack # <<>> /\ P!Top.kind = "tables" /\ TablesKept
    /\ stack' = stack \/ Popped \/ \E s, l : TablesGoOn(s, l)

LEMMA TypedBase ==
    ASSUME OthersTyped', HeldTyped', StackTyped', Buffers', out' \in Nat, bsys' \in Nat,
           tb' \in [PacedTracks \cup {0} -> Nat], fill' \in [PacedTracks \cup {0} -> Nat]
    PROVE  PacerBase'
    BY DEF PacerBase, PacerTypes, OthersTyped, HeldTyped, StackTyped

LEMMA TablesKeptTyped ==
    ASSUME PacerBase, TablesKept PROVE OthersTyped' /\ HeldTyped'
    BY OthersKept, HeldKept DEF TablesKept

LEMMA SpaceStep ==
    ASSUME PacerBase, P!Space
    PROVE  PacerBase' /\ TablesOut
<1>1. P!Running("tables") /\ P!Top.stage = "space" /\ TablesKept
    BY DEF P!Space, TablesKept, P!callerVars
<1>2. /\ stack # <<>> /\ P!Top.kind = "tables" /\ P!Top \in PacerCall /\ P!Top \in PacerEntry
      /\ PacerTypes /\ StackShape /\ Buffers /\ ~Pending
    BY <1>1, TablesRun DEF Pending
<1>3. OthersTyped' /\ HeldTyped'
    BY <1>1, TablesKeptTyped
<1>4. CASE P!HasRoom(P!System)
    <2>1. /\ tb' = [tb EXCEPT ![0] = @ + Load] /\ SwapsTo([P!Top EXCEPT !.stage = "pool"])
          /\ out' = out /\ bsys' = bsys /\ fill' = fill
        BY <1>4 DEF P!Space, P!Go, SwapsTo, P!System
    <2>2. tb[0] + Load <= Bucket
        BY <1>4 DEF P!HasRoom, P!System
    <2> DEFINE l == P!Top.left
    <2>3. l \in Int /\ SwapsTo([P!Top EXCEPT !.left = l, !.stage = "pool"])
        BY <2>1, <1>2 DEF PacerCall
    <2> HIDE DEF l
    <2>4. TablesGoOn("pool", l) /\ StackTyped' /\ Pending'
        BY <1>2, <2>3, TablesGoOnBy
    <2>5. Buffers'
        BY <1>2, <2>1, <2>2, <2>4, BookedKeepsBuffers
    <2>6. /\ tb' \in [PacedTracks \cup {0} -> Nat] /\ out' \in Nat /\ bsys' \in Nat
          /\ fill' \in [PacedTracks \cup {0} -> Nat]
        BY <1>2, <2>1, PacerAssumption DEF PacerTypes
    <2>7. PacerBase'
        BY <1>3, <2>4, <2>5, <2>6, TypedBase
    <2> QED BY <1>1, <1>2, <2>4, <2>7 DEF TablesOut
<1>5. CASE ~P!HasRoom(P!System)
    <2>1. P!EmitNull /\ stack' = stack
        BY <1>5 DEF P!Space
    <2>2. StackTyped' /\ ~Pending'
        BY <1>2, <2>1, StillStack
    <2>3. PacketSent(-1) /\ -1 # 0
        BY <2>1, NullIsPacket
    <2>4. PacerBase'
        BY <1>2, <1>3, <2>2, <2>3, PacketBase
    <2> QED BY <1>1, <1>2, <2>1, <2>4 DEF TablesOut
<1> QED BY <1>4, <1>5

LEMMA PooledStep ==
    ASSUME PacerBase, P!Pooled
    PROVE  PacerBase' /\ TablesOut
<1>1. P!Running("tables") /\ P!Top.stage = "pool" /\ TablesKept
    BY DEF P!Pooled, TablesKept, P!callerVars
<1>2. /\ stack # <<>> /\ P!Top.kind = "tables" /\ P!Top \in PacerCall /\ P!Top \in PacerEntry
      /\ PacerTypes /\ StackShape /\ Buffers /\ Pending
    BY <1>1, TablesRun DEF Pending
<1>3. OthersTyped' /\ HeldTyped'
    BY <1>1, TablesKeptTyped
<1>4. CASE bsys + Load <= Pool
    <2>1. /\ P!Slot(0, FALSE)
          /\ IF P!Top.left = 1 THEN P!Return
             ELSE SwapsTo([P!Top EXCEPT !.left = @ - 1, !.stage = "space"])
        BY <1>4 DEF P!Pooled, SwapsTo, P!System
    <2>2. StackTyped' /\ ~Pending' /\ (Popped \/ \E s, l : TablesGoOn(s, l))
        <3>1. CASE P!Top.left = 1
            <4>1. Popped
                BY <1>2, <2>1, <3>1, PoppedBy
            <4> QED BY <4>1, <1>2, PopKeepsShape DEF StackTyped
        <3>2. CASE P!Top.left # 1
            <4> DEFINE l == P!Top.left - 1
            <4>1. l \in Int /\ SwapsTo([P!Top EXCEPT !.left = l, !.stage = "space"])
                BY <2>1, <3>2, <1>2 DEF PacerCall
            <4> HIDE DEF l
            <4>2. TablesGoOn("space", l) /\ StackTyped' /\ ~Pending'
                BY <1>2, <4>1, TablesGoOnBy
            <4> QED BY <4>2
        <3> QED BY <3>1, <3>2
    <2>3. Buffers'
        BY <1>2, <1>4, <2>1, <2>2, PooledKeepsBuffers
    <2>4. /\ tb' \in [PacedTracks \cup {0} -> Nat] /\ out' \in Nat /\ bsys' \in Nat
          /\ fill' \in [PacedTracks \cup {0} -> Nat]
        BY <1>2, <2>1, SlotTyped
    <2>5. PacerBase'
        BY <1>3, <2>2, <2>3, <2>4, TypedBase
    <2> QED BY <1>1, <1>2, <2>2, <2>5 DEF TablesOut
<1>5. CASE ~(bsys + Load <= Pool)
    <2>1. P!EmitNull /\ stack' = stack
        BY <1>5 DEF P!Pooled
    <2>2. StackTyped' /\ Pending'
        BY <1>2, <2>1, StillStack
    <2>3. bsys + Load > Pool
        BY <1>2, <1>5, BuffersTyped
    <2>4. Buffers'
        BY <1>2, <2>1, <2>2, <2>3, EmptyNullKeepsBuffers
    <2>5. /\ tb' \in [PacedTracks \cup {0} -> Nat] /\ out' \in Nat /\ bsys' \in Nat
          /\ fill' \in [PacedTracks \cup {0} -> Nat]
        BY <1>2, <2>1, SlotTyped DEF P!EmitNull
    <2>6. PacerBase'
        BY <1>3, <2>2, <2>4, <2>5, TypedBase
    <2> QED BY <1>1, <1>2, <2>1, <2>6 DEF TablesOut
<1> QED BY <1>4, <1>5

------------------------------------------------------------------------------
(* The calls of the caller.                                                *)
LEMMA OneCall ==
    ASSUME NEW c \in PacerEntry, stack' = <<c>>, c.stage # "pool"
    PROVE  StackTyped' /\ ~Pending' /\ Len(stack') = 1 /\ stack'[1] = c /\ stack' # <<>>
    BY DEF StackTyped, StackShape, Pending, P!Top, P!Last

LEMMA TwoCalls ==
    ASSUME NEW c \in PacerEntry, NEW d \in PacerEntry, stack' \in Seq(PacerEntry),
           Len(stack') = 2, stack'[1] = c, stack'[2] = d, c.stage # "pool",
           d.stage # "pool", d.kind = "drain" => c.kind = "tables" /\ d.program = 0
    PROVE  /\ StackTyped' /\ ~Pending' /\ Len(stack') = 2 /\ stack'[1] = c /\ stack'[2] = d
           /\ stack' # <<>>
    BY DEF StackTyped, StackShape, Pending, P!Top, P!Last

LEMMA CallTyped ==
    /\ P!TableCall \in PacerEntry /\ P!TableCall.kind = "tables" /\ P!TableCall.stage = "space"
    /\ \A n \in Nat : LET c == [P!Call("drain", P!System, 0, P!NoTime, 0) EXCEPT !.program = n]
                      IN  c \in PacerEntry /\ c.kind = "drain" /\ c.stage = "start" /\ c.program = n
<1>1. Tables \in Nat
    BY PacerAssumption
<1>2. P!TableCall \in PacerEntry /\ P!TableCall.kind = "tables" /\ P!TableCall.stage = "space"
    BY <1>1 DEF P!TableCall, P!Call, P!System, P!NoTime, P!Never, PacerEntry, PacerCall, SoundCall,
                CallKinds, FrameStages
<1>3. ASSUME NEW n \in Nat
      PROVE  LET c == [P!Call("drain", P!System, 0, P!NoTime, 0) EXCEPT !.program = n]
             IN  c \in PacerEntry /\ c.kind = "drain" /\ c.stage = "start" /\ c.program = n
    BY DEF P!Call, P!System, P!NoTime, P!Never, PacerEntry, PacerCall, SoundCall, CallKinds, FrameStages
<1> QED BY <1>2, <1>3

LEMMA FrameCall ==
    ASSUME NEW t \in PacedTracks, NEW n \in Nat, NEW time \in Nat \cup {P!NoTime}, NEW size \in Nat,
           NEW c, c = P!Call("frame", t, n, time, size)
    PROVE  /\ c \in PacerEntry /\ c.kind = "frame" /\ c.track = t /\ c.seq = n /\ c.time = time
           /\ c.left = size /\ c.size = size /\ c.stage = "start"
    BY DEF P!Call, PacerEntry, PacerCall, SoundCall, CallKinds, FrameStages

LEMMA HoldCall ==
    ASSUME NEW t \in PacedTracks \ Video, NEW n \in Nat, NEW time \in Nat, NEW size \in Nat,
           NEW c, c = P!Call("hold", t, n, time, size)
    PROVE  /\ c \in PacerEntry /\ c.kind = "hold" /\ c.track = t /\ c.seq = n /\ c.time = time
           /\ c.left = size /\ c.size = size /\ c.stage = "start"
<1>1. time # P!NoTime /\ time \in Nat \cup {P!NoTime}
    BY DEF P!NoTime, P!Never
<1> QED BY <1>1 DEF P!Call, PacerEntry, PacerCall, SoundCall, CallKinds, FrameStages
LEMMA IdleIs ==
    ASSUME PacerBase, P!Idle
    PROVE  stack = <<>> /\ ~Pending /\ outcome = "running"
    BY DEF P!Idle, Pending

(* A frame is given: it goes out, or it will be held.                      *)
GivenOut(t) ==
    /\ outcome = "running" /\ stack = <<>> /\ given' = [given EXCEPT ![t] = @ + 1]
    /\ SameClock /\ held' = held /\ begun' = begun /\ outcome' = outcome
    /\ Len(stack') \in {1, 2} /\ (Len(stack') = 2 => stack'[2].kind = "tables")
    /\ stack'[1].track = t /\ stack'[1].seq = given[t] + 1 /\ stack'[1].stage = "start"
    /\ \/ stack'[1].kind = "hold" /\ P!Anchored /\ t \notin Video
       \/ /\ stack'[1].kind = "frame" /\ stack'[1].left = stack'[1].size
          /\ ~P!Anchored \/ t \in Video \/ t \in Untimed

LEMMA TimeTyped ==
    ASSUME PacerBase, NEW t \in PacedTracks PROVE P!TimeOf(t) \in Nat
<1>1. /\ given[t] + 1 \in Nat /\ Gap[t] \in Nat /\ VideoLead \in Nat /\ bases[ProgramOf[t]] \in Nat
    <2>1. given \in [PacedTracks -> Nat] /\ bases \in [Programs -> Nat]
        BY BaseParts DEF OthersTyped
    <2>2. Gap \in [PacedTracks -> Nat] /\ VideoLead \in Nat /\ ProgramOf \in [PacedTracks -> Programs]
        BY PacerAssumption
    <2> QED BY <2>1, <2>2
<1>2. \A m, n \in Nat : m * n \in Nat
    OBVIOUS
<1>3. (given[t] + 1) * Gap[t] \in Nat
    BY <1>1, <1>2
<1> QED BY <1>1, <1>3 DEF P!TimeOf

LEMMA WriteFrameStep ==
    ASSUME PacerBase, NEW t \in PacedTracks, NEW size \in PacedSizes, NEW timed \in BOOLEAN,
           P!WriteFrame(t, size, timed)
    PROVE  PacerBase' /\ GivenOut(t)
<1> DEFINE time == IF timed THEN P!TimeOf(t) ELSE P!NoTime
           next == given[t] + 1
           frame == P!Call("frame", t, next, time, size)
           hold  == P!Anchored /\ t \notin Video /\ timed
           rest  == IF hold THEN P!Call("hold", t, next, time, size) ELSE frame
           repeat == /\ timed /\ psiSent # P!Never /\ time - psiSent >= PacedPsiInterval
                     /\ bsys + Tables * Load <= Pool
<1>1. stack = <<>> /\ ~Pending /\ outcome = "running"
    BY IdleIs DEF P!WriteFrame
<1>2. size \in Nat /\ next \in Nat /\ time \in Nat \cup {P!NoTime}
      /\ (timed => time \in Nat) /\ (~timed => t \in Untimed)
    <2>1. next \in Nat
        BY BaseParts DEF OthersTyped
    <2>2. time \in Nat \cup {P!NoTime} /\ (timed => time \in Nat)
        BY TimeTyped
    <2>3. ~timed => t \in Untimed
        BY DEF P!WriteFrame
    <2> QED BY <2>1, <2>2, <2>3, PacerAssumption
<1>3. /\ stack' = <<rest>> \o IF repeat THEN <<P!TableCall>> ELSE <<>>
      /\ given' = [given EXCEPT ![t] = @ + 1]
      /\ anchor' = anchor /\ pendingBase' = pendingBase /\ wire' = wire /\ rebases' = rebases
      /\ bases' = bases /\ begun' = begun /\ held' = held /\ outcome' = outcome
      /\ UNCHANGED P!clockVars
    BY DEF P!WriteFrame
<1>4. /\ rest \in PacerEntry /\ rest.track = t /\ rest.seq = next /\ rest.stage = "start"
      /\ \/ rest.kind = "hold" /\ hold
         \/ rest.kind = "frame" /\ rest.left = rest.size /\ ~hold
    <2> HIDE DEF time, next
    <2>1. CASE hold
        <3>1. t \in PacedTracks \ Video /\ time \in Nat /\ size \in Nat /\ next \in Nat
            BY <2>1, <1>2
        <3>2. rest = P!Call("hold", t, next, time, size)
            BY <2>1
        <3> HIDE DEF rest
        <3>3. /\ rest \in PacerEntry /\ rest.kind = "hold" /\ rest.track = t /\ rest.seq = next
              /\ rest.stage = "start"
            BY <3>1, <3>2, HoldCall
        <3> QED BY <2>1, <3>3
    <2>2. CASE ~hold
        <3>1. size \in Nat /\ next \in Nat /\ time \in Nat \cup {P!NoTime}
            BY <1>2
        <3>2. rest = P!Call("frame", t, next, time, size)
            BY <2>2
        <3> HIDE DEF rest
        <3>3. /\ rest \in PacerEntry /\ rest.kind = "frame" /\ rest.track = t /\ rest.seq = next
              /\ rest.left = size /\ rest.size = size /\ rest.stage = "start"
            BY <3>1, <3>2, FrameCall
        <3> QED BY <2>2, <3>3
    <2> QED BY <2>1, <2>2
<1> HIDE DEF repeat, rest
<1>5. StackTyped' /\ ~Pending' /\ stack'[1] = rest /\ Len(stack') \in {1, 2}
      /\ (Len(stack') = 2 => stack'[2].kind = "tables")
    <2>1. rest.stage # "pool"
        BY <1>4
    <2>2. CASE repeat
        <3> DEFINE tables == P!TableCall
        <3>1. stack' = <<rest>> \o <<tables>>
            BY <2>2, <1>3
        <3>2. tables \in PacerEntry /\ tables.kind = "tables" /\ tables.stage = "space"
            BY CallTyped
        <3> HIDE DEF tables
        <3>3. stack' \in Seq(PacerEntry) /\ Len(stack') = 2 /\ stack'[1] = rest /\ stack'[2] = tables
            <4> DEFINE r == <<rest>>
                       s == <<tables>>
            <4>1. r \in Seq(PacerEntry) /\ s \in Seq(PacerEntry) /\ Len(r) = 1 /\ Len(s) = 1
                  /\ r[1] = rest /\ s[1] = tables
                BY <1>4, <3>2
            <4>2. stack' = r \o s
                BY <3>1
            <4> HIDE DEF r, s
            <4>3. /\ r \o s \in Seq(PacerEntry) /\ Len(r \o s) = Len(r) + Len(s)
                  /\ \A i \in 1 .. Len(r) + Len(s) :
                         (r \o s)[i] = IF i <= Len(r) THEN r[i] ELSE s[i - Len(r)]
                BY <4>1, ConcatProperties
            <4> DEFINE u == r \o s
            <4>4. /\ u \in Seq(PacerEntry) /\ Len(u) = Len(r) + Len(s) /\ stack' = u
                  /\ \A i \in 1 .. Len(r) + Len(s) :
                         u[i] = IF i <= Len(r) THEN r[i] ELSE s[i - Len(r)]
                BY <4>2, <4>3
            <4> HIDE DEF u
            <4> QED BY <4>1, <4>4
        <3>4. tables.stage # "pool" /\ tables.kind # "drain"
            BY <3>2
        <3>5. StackTyped' /\ ~Pending' /\ Len(stack') = 2 /\ stack'[1] = rest /\ stack'[2] = tables
            BY <1>4, <2>1, <3>2, <3>3, <3>4, TwoCalls, Zenon
        <3> QED BY <3>2, <3>5
    <2>3. CASE ~repeat
        <3>1. stack' = <<rest>> \o <<>>
            BY <2>3, <1>3
        <3>4. <<rest>> \o <<>> = <<rest>>
            OBVIOUS
        <3>2. stack' = <<rest>>
            BY <3>1, <3>4, Zenon
        <3>3. StackTyped' /\ ~Pending' /\ Len(stack') = 1 /\ stack'[1] = rest
            BY <1>4, <2>1, <3>2, OneCall, Zenon
        <3> QED BY <3>3
    <2> QED BY <2>2, <2>3
<1>6. OthersTyped' /\ HeldTyped'
    <2>1. given' \in [PacedTracks -> Nat]
        BY <1>3, BaseParts DEF OthersTyped
    <2>2. OthersTyped'
        BY <1>3, <2>1, BaseParts DEF OthersTyped
    <2> QED BY <1>3, <2>2, HeldKept
<1>7. PacerBase'
    BY <1>1, <1>3, <1>5, <1>6, StillBase
<1>8. ~hold => ~P!Anchored \/ t \in Video \/ t \in Untimed
    BY <1>2
<1>9. GivenOut(t)
    <2> HIDE DEF time
    <2> QED BY <1>1, <1>3, <1>4, <1>5, <1>8 DEF GivenOut, SameClock
<1> QED BY <1>7, <1>9

LEMMA SignalStep ==
    ASSUME PacerBase, NEW p \in Programs, NEW b \in PacedBases, P!Signal(p, b)
    PROVE  /\ PacerBase' /\ stack = <<>> /\ Len(stack') = 1 /\ stack'[1].kind = "drain"
           /\ SameClock /\ held' = held /\ begun' = begun /\ given' = given /\ outcome' = outcome
<1> DEFINE c == [P!Call("drain", P!System, 0, P!NoTime, 0) EXCEPT !.program = p]
<1>1. stack = <<>> /\ ~Pending /\ outcome = "running"
    BY IdleIs DEF P!Signal
<1>2. /\ stack' = <<c>> /\ bases' = [bases EXCEPT ![p] = b]
      /\ SameClock /\ held' = held /\ begun' = begun /\ given' = given /\ outcome' = outcome
      /\ UNCHANGED P!clockVars
    BY DEF P!Signal, SameClock
<1>3. c \in PacerEntry /\ c.kind = "drain" /\ c.stage = "start"
    <2>1. p \in Nat
        BY PacerAssumption
    <2> QED BY <2>1, CallTyped, Zenon
<1> HIDE DEF c
<1>4. c.stage # "pool"
    BY <1>3
<1>5. StackTyped' /\ ~Pending' /\ Len(stack') = 1 /\ stack'[1] = c
    BY <1>2, <1>3, <1>4, OneCall, Zenon
<1>6. OthersTyped' /\ HeldTyped'
    <2>1. b \in Nat
        BY PacerAssumption
    <2>2. bases' \in [Programs -> Nat]
        BY <1>2, <2>1, BaseParts DEF OthersTyped
    <2>3. OthersTyped'
        BY <1>2, <2>2, BaseParts DEF OthersTyped, SameClock
    <2> QED BY <1>2, <2>3, HeldKept
<1>7. PacerBase'
    BY <1>1, <1>2, <1>5, <1>6, StillBase
<1> QED BY <1>1, <1>2, <1>3, <1>5, <1>7

LEMMA WriteTrailerStep ==
    ASSUME PacerBase, P!WriteTrailer
    PROVE  /\ PacerBase' /\ stack = <<>> /\ Len(stack') = 2
           /\ stack'[1].kind = "tables" /\ stack'[2].kind = "drain"
           /\ SameClock /\ held' = held /\ begun' = begun /\ given' = given /\ outcome' = "closing"
<1> DEFINE d == [P!Call("drain", P!System, 0, P!NoTime, 0) EXCEPT !.program = 0]
           c == P!TableCall
<1>1. stack = <<>> /\ ~Pending
    BY IdleIs DEF P!WriteTrailer
<1>2. /\ stack' = <<c, d>> /\ bases' = bases
      /\ SameClock /\ held' = held /\ begun' = begun /\ given' = given /\ outcome' = "closing"
      /\ UNCHANGED P!clockVars
    BY DEF P!WriteTrailer, P!callerVars, SameClock
<1>3. /\ c \in PacerEntry /\ c.kind = "tables" /\ c.stage = "space"
      /\ d \in PacerEntry /\ d.kind = "drain" /\ d.stage = "start" /\ d.program = 0
    <2>1. 0 \in Nat
        OBVIOUS
    <2> QED BY <2>1, CallTyped, Zenon
<1> HIDE DEF c, d
<1>4. c.stage # "pool" /\ d.stage # "pool"
    BY <1>3
<1>5. StackTyped' /\ ~Pending' /\ Len(stack') = 2 /\ stack'[1] = c /\ stack'[2] = d
    <2>1. stack' \in Seq(PacerEntry) /\ Len(stack') = 2 /\ stack'[1] = c /\ stack'[2] = d
        BY <1>2, <1>3
    <2> QED BY <2>1, <1>3, <1>4, TwoCalls, Zenon
<1>6. OthersTyped' /\ HeldTyped'
    BY <1>2, OthersKept, HeldKept DEF SameClock
<1>7. PacerBase'
    BY <1>1, <1>2, <1>5, <1>6, StillBase
<1> QED BY <1>1, <1>2, <1>3, <1>5, <1>7

(* A frame is held until the call that holds it, or another, lets it out.  *)
HeldIn(f) ==
    LET t == f.track
    IN  /\ f.track = P!Top.track /\ f.seq = P!Top.seq
        /\ held' \in [PacedTracks -> Seq(HeldFrame)]
        /\ Len(held'[t]) = Len(held[t]) + 1 /\ held'[t][Len(held[t]) + 1] = f
        /\ \A i \in 1 .. Len(held[t]) : held'[t][i] = held[t][i]
        /\ \A s \in PacedTracks : s # t => held'[s] = held[s]

LEMMA HoldStep ==
    ASSUME PacerBase, P!Hold
    PROVE  /\ PacerBase' /\ stack # <<>> /\ P!Top.kind = "hold" /\ P!Top.track \in PacedTracks \ Video
           /\ Len(stack') = 1 /\ stack'[1].kind = "release"
           /\ SameClock /\ SameCaller /\ begun' = begun
           /\ \E f \in HeldFrame : HeldIn(f)
<1> DEFINE top == P!Top
           f == [top EXCEPT !.kind = "frame"]
           h == P!Now(out)
           c == [top EXCEPT !.kind = "release", !.horizon = h]
<1>1. /\ stack # <<>> /\ top.kind = "hold" /\ top \in PacerCall /\ SoundCall(top) /\ ~Pending
    BY BaseParts, TopIs, NotPending DEF P!Hold, P!Running
<1>2. /\ held' = [held EXCEPT ![top.track] = Append(@, f)]
      /\ stack' = <<c>>
      /\ SameClock /\ SameCaller /\ bases' = bases /\ begun' = begun /\ UNCHANGED P!clockVars
    BY DEF P!Hold, P!callerVars, SameClock, SameCaller
<1>3. top.track \in PacedTracks \ Video /\ top.time # P!NoTime /\ top.left = top.size
      /\ top.stage = "start"
    BY <1>1 DEF SoundCall
<1>4. h \in Int
    BY BaseParts, NowTyped DEF PacerTypes
<1> HIDE DEF top, h
<1>5. f \in PacerCall /\ f.kind = "frame" /\ f.stage = "start" /\ f.time # P!NoTime
      /\ f.left = f.size /\ f.track = top.track /\ f.seq = top.seq
    BY <1>1, <1>3 DEF PacerCall, CallKinds
<1>6. c \in PacerCall /\ c.kind = "release" /\ c.stage = "start"
    BY <1>1, <1>3, <1>4 DEF PacerCall, CallKinds
<1> HIDE DEF f, c
<1>7. f \in HeldFrame /\ c \in PacerEntry
    BY <1>3, <1>5, <1>6 DEF HeldFrame, PacerEntry, SoundCall, FrameStages
<1>8. c.stage # "pool"
    BY <1>6
<1>9. StackTyped' /\ ~Pending' /\ Len(stack') = 1 /\ stack'[1] = c
    BY <1>2, <1>7, <1>8, OneCall, Zenon
<1>10. HeldTyped' /\ HeldIn(f)
    <2> DEFINE t == top.track
               q == held[t]
    <2>1. held \in [PacedTracks -> Seq(HeldFrame)] /\ t \in PacedTracks /\ HeldShape
        BY <1>3, BaseParts DEF HeldTyped
    <2>2. q \in Seq(HeldFrame)
        BY <2>1
    <2>3. /\ Append(q, f) \in Seq(HeldFrame) /\ Len(Append(q, f)) = Len(q) + 1
          /\ Append(q, f)[Len(q) + 1] = f /\ \A i \in 1 .. Len(q) : Append(q, f)[i] = q[i]
          /\ Len(q) \in Nat
        <3> HIDE DEF q
        <3> QED BY <1>7, <2>2, AppendProperties
    <2>4. /\ held' \in [PacedTracks -> Seq(HeldFrame)] /\ held'[t] = Append(q, f)
          /\ \A s \in PacedTracks : s # t => held'[s] = held[s]
        BY <1>2, <2>1, <2>3
    <2> HIDE DEF t
    <2>5. /\ Len(held'[t]) = Len(held[t]) + 1 /\ held'[t][Len(held[t]) + 1] = f
          /\ \A i \in 1 .. Len(held[t]) : held'[t][i] = held[t][i]
        BY <2>3, <2>4
    <2>6. f.track = t /\ f.seq = P!Top.seq /\ t = P!Top.track
        BY <1>5 DEF top, t
    <2>7. HeldIn(f)
        BY <2>4, <2>5, <2>6 DEF HeldIn
    <2>8. HeldShape'
        <3> SUFFICES ASSUME NEW s \in PacedTracks, NEW i \in 1 .. Len(held'[s])
                     PROVE  held'[s][i].track = s
            BY DEF HeldShape
        <3>1. CASE s = t /\ i = Len(held[t]) + 1
            BY <3>1, <2>5, <2>6
        <3>2. CASE s = t /\ i # Len(held[t]) + 1
            <4>1. i \in 1 .. Len(held[t])
                BY <3>2, <2>3, <2>5
            <4> QED BY <3>2, <4>1, <2>1, <2>5 DEF HeldShape
        <3>3. CASE s # t
            BY <3>3, <2>1, <2>4 DEF HeldShape
        <3> QED BY <3>1, <3>2, <3>3
    <2> QED BY <2>4, <2>7, <2>8 DEF HeldTyped
<1>11. OthersTyped'
    BY <1>2, OthersKept DEF SameClock, SameCaller
<1>12. PacerBase'
    BY <1>1, <1>2, <1>9, <1>10, <1>11, StillBase
<1> QED BY <1>1, <1>2, <1>3, <1>6, <1>7, <1>9, <1>10, <1>12 DEF top
------------------------------------------------------------------------------
(* What is held is let out.                                                *)
LEMMA LetOutBase ==
    ASSUME PacerBase, ~Pending, NEW t, NEW c, LetOut(t, c), OthersTyped', UNCHANGED P!clockVars
    PROVE  PacerBase'
<1>1. HeldTyped' /\ StackTyped' /\ ~Pending'
    BY DEF LetOut, HeldTyped, StackTyped
<1> QED BY <1>1, StillBase

LEMMA FlushDueStep ==
    ASSUME PacerBase, P!FlushDue
    PROVE  /\ PacerBase' /\ SameClock /\ SameCaller /\ begun' = begun /\ UNCHANGED P!clockVars
           /\ stack # <<>> /\ ~P!Flushing /\ P!Top.kind \in {"frame", "release"}
           /\ P!Top.kind = "frame" => P!Top.stage \in {"wait", "flush"}
           /\ \E t \in PacedTracks : \E c \in HeldFrame : LetOut(t, c)
<1>1. /\ stack # <<>> /\ P!Top.kind \in {"frame", "release"}
      /\ P!Top.kind = "frame" => P!Top.stage \in {"wait", "flush"}
    BY DEF P!FlushDue, P!At, P!Running
<1>2. ~P!Flushing /\ P!Holding # {} /\ P!Release
    BY DEF P!FlushDue, P!Due
<1>3. SameClock /\ SameCaller /\ bases' = bases /\ begun' = begun /\ UNCHANGED P!clockVars
    BY DEF P!FlushDue, P!callerVars, SameClock, SameCaller
<1>4. PacerTypes /\ StackShape /\ HeldShape /\ ~Pending
    <2>1. P!Top.kind # "tables"
        BY <1>1
    <2> QED BY <2>1, <1>1, BaseParts, NotPending
<1>5. PICK t \in PacedTracks : \E c \in HeldFrame : LetOut(t, c)
    BY <1>1, <1>2, <1>4, Released
<1>6. PICK c \in HeldFrame : LetOut(t, c)
    BY <1>5
<1>7. OthersTyped'
    BY <1>3, OthersKept DEF SameClock, SameCaller
<1>8. PacerBase'
    BY <1>3, <1>4, <1>6, <1>7, LetOutBase
<1> QED BY <1>1, <1>2, <1>3, <1>6, <1>8

LEMMA ReleasedStep ==
    ASSUME PacerBase, P!Released
    PROVE  /\ PacerBase' /\ SameClock /\ SameCaller /\ begun' = begun /\ held' = held
           /\ stack # <<>> /\ P!Top.kind = "release" /\ Popped
<1>1. stack # <<>> /\ P!Top.kind = "release"
    BY DEF P!Released, P!Running
<1>2. P!Return /\ SameClock /\ SameCaller /\ bases' = bases /\ begun' = begun /\ held' = held
      /\ UNCHANGED P!clockVars
    BY DEF P!Released, P!callerVars, SameClock, SameCaller
<1>3. PacerTypes /\ StackShape /\ ~Pending
    <2>1. P!Top.kind # "tables"
        BY <1>1
    <2> QED BY <2>1, <1>1, BaseParts, NotPending
<1>4. Popped
    BY <1>1, <1>2, <1>3, PoppedBy
<1>5. StackTyped' /\ ~Pending'
    BY <1>3, <1>4, PopKeepsShape DEF StackTyped
<1>6. OthersTyped' /\ HeldTyped'
    BY <1>2, OthersKept, HeldKept DEF SameClock, SameCaller
<1>7. PacerBase'
    BY <1>2, <1>3, <1>5, <1>6, StillBase
<1> QED BY <1>1, <1>2, <1>4, <1>7

(* All that was held has been let out: the clock starts anew, or the last  *)
(* tables follow.                                                          *)
DrainEnds ==
    /\ Popped /\ held' = held /\ wire' = wire /\ \A t \in PacedTracks : held[t] = <<>>
    /\ SameClock \/ (Len(stack) = 1 /\ rebases' = rebases + 1)
    /\ Len(stack) = 1 \/ (Len(stack) = 2 /\ stack[1].kind = "tables")

LEMMA DrainedStep ==
    ASSUME PacerBase, P!Drained
    PROVE  /\ PacerBase' /\ SameCaller /\ begun' = begun
           /\ stack # <<>> /\ P!Top.kind = "drain"
           /\ \/ SameClock /\ \E t \in PacedTracks : \E c \in HeldFrame : LetOut(t, c)
              \/ DrainEnds
<1>1. stack # <<>> /\ P!Top.kind = "drain"
    BY DEF P!Drained, P!Running
<1>2. wire' = wire /\ SameCaller /\ bases' = bases /\ begun' = begun /\ UNCHANGED P!clockVars
    BY DEF P!Drained, SameCaller
<1>3. PacerTypes /\ StackShape /\ HeldShape /\ ~Pending
    <2>1. P!Top.kind # "tables"
        BY <1>1
    <2> QED BY <2>1, <1>1, BaseParts, NotPending
<1>4. CASE P!Holding # {}
    <2>1. P!Release /\ SameClock
        BY <1>2, <1>4 DEF P!Drained, SameClock
    <2>2. PICK t \in PacedTracks : \E c \in HeldFrame : LetOut(t, c)
        BY <1>1, <1>3, <1>4, <2>1, Released
    <2>3. PICK c \in HeldFrame : LetOut(t, c)
        BY <2>2
    <2>4. OthersTyped'
        BY <1>2, <2>1, OthersKept DEF SameClock, SameCaller
    <2>5. PacerBase'
        BY <1>2, <1>3, <2>3, <2>4, LetOutBase
    <2> QED BY <1>1, <1>2, <2>1, <2>3, <2>5
<1>5. CASE ~(P!Holding # {})
    <2>1. P!Return /\ held' = held
        BY <1>5 DEF P!Drained
    <2>2. Popped
        BY <1>1, <1>3, <2>1, PoppedBy
    <2>3. StackTyped' /\ ~Pending'
        BY <1>3, <2>2, PopKeepsShape DEF StackTyped
    <2>4. /\ Len(stack) \in Nat \ {0} /\ P!Top = stack[Len(stack)]
          /\ Len(stack) = 1 \/ (Len(stack) = 2 /\ stack[1].kind = "tables" /\ stack[2].program = 0)
        <3>1. Len(stack) \in Nat \ {0} /\ P!Top = stack[Len(stack)]
            BY <1>1, <1>3, TopIs
        <3>2. stack[Len(stack)].kind = "drain" /\ Len(stack) \in 1 .. Len(stack)
            BY <1>1, <3>1
        <3>3. Len(stack) = 1 \/ (Len(stack) = 2 /\ stack[1].kind = "tables" /\ stack[2].program = 0)
            BY <1>3, <3>2 DEF StackShape
        <3> QED BY <3>1, <3>3
    <2>5. \A t \in PacedTracks : held[t] = <<>>
        BY <1>5 DEF P!Holding
    <2>6. CASE P!Top.program = 0
        <3>1. SameClock
            BY <1>2, <1>5, <2>6 DEF P!Drained, SameClock
        <3>2. OthersTyped' /\ HeldTyped'
            BY <1>2, <2>1, <3>1, OthersKept, HeldKept DEF SameClock, SameCaller
        <3>3. PacerBase'
            BY <1>2, <1>3, <2>3, <3>2, StillBase
        <3> QED BY <1>1, <1>2, <2>1, <2>2, <2>4, <2>5, <3>1, <3>3 DEF DrainEnds
    <2>7. CASE P!Top.program # 0
        <3>1. /\ pendingBase' = [pendingBase EXCEPT ![P!Top.program] = TRUE]
              /\ anchor' = P!NoAnchor /\ rebases' = rebases + 1
            BY <1>5, <2>7 DEF P!Drained
        <3>2. OthersTyped'
            <4>1. anchor' \in Int \X Int
                BY <3>1 DEF P!NoAnchor, P!Never
            <4>2. OthersTyped
                BY BaseParts
            <4>3. pendingBase' \in [Programs -> BOOLEAN] /\ rebases' \in Nat
                <5> DEFINE n == P!Top.program
                <5>1. pendingBase \in [Programs -> BOOLEAN] /\ rebases \in Nat
                    BY <4>2 DEF OthersTyped
                <5>2. pendingBase' = [pendingBase EXCEPT ![n] = TRUE]
                    BY <3>1
                <5> HIDE DEF n
                <5>3. pendingBase' \in [Programs -> BOOLEAN]
                    BY <5>1, <5>2
                <5> QED BY <3>1, <5>1, <5>3
            <4> QED BY <1>2, <4>1, <4>2, <4>3 DEF OthersTyped, SameCaller
        <3>3. PacerBase'
            BY <1>2, <1>3, <2>1, <2>3, <3>2, HeldKept, StillBase
        <3>4. Len(stack) = 1
            BY <2>4, <2>7
        <3> QED BY <1>1, <1>2, <2>1, <2>2, <2>5, <3>1, <3>3, <3>4 DEF DrainEnds
    <2> QED BY <2>6, <2>7
<1> QED BY <1>4, <1>5

------------------------------------------------------------------------------
LEMMA PacerBegins == ASSUME P!Init PROVE PacerBase
<1> DEFINE c == P!TableCall
<1>1. /\ out = 0 /\ anchor = <<P!Never, P!Never>> /\ bsys = 0
      /\ tb = [q \in PacedTracks \cup {0} |-> 0] /\ fill = [q \in PacedTracks \cup {0} |-> 0]
      /\ held = [t \in PacedTracks |-> << >>]
      /\ pendingBase = [p \in Programs |-> FALSE]
      /\ stack = <<c>>
      /\ given = [t \in PacedTracks |-> 0]
      /\ bases = [p \in Programs |-> 0] /\ rebases = 0
      /\ wire = [p \in Programs |-> [at |-> P!Never, value |-> 0, marked |-> FALSE, epoch |-> 0]]
      /\ begun = [t \in PacedTracks |-> {}]
    BY DEF P!Init, P!Pids, P!System, P!NoAnchor
<1>2. c \in PacerEntry /\ c.kind = "tables" /\ c.stage = "space"
    BY CallTyped
<1> HIDE DEF c
<1>3. P!Never \in Int
    BY DEF P!Never
<1>4. PacerTypes
    <2>1. \A t \in PacedTracks : held[t] \in Seq(HeldFrame)
        BY <1>1
    <2>2. stack \in Seq(PacerEntry)
        BY <1>1, <1>2
    <2>3. held \in [PacedTracks -> Seq(HeldFrame)]
        BY <1>1, <2>1
    <2>4. /\ tb \in [PacedTracks \cup {0} -> Nat] /\ fill \in [PacedTracks \cup {0} -> Nat]
          /\ out \in Nat /\ bsys \in Nat /\ rebases \in Nat /\ anchor \in Int \X Int
        BY <1>1, <1>3
    <2>5. /\ wire \in [Programs -> [at : Int, value : Int, marked : BOOLEAN, epoch : Nat]]
          /\ pendingBase \in [Programs -> BOOLEAN]
        BY <1>1, <1>3
    <2>6. given \in [PacedTracks -> Nat] /\ bases \in [Programs -> Nat] /\ begun \in [PacedTracks -> SUBSET Nat]
        BY <1>1
    <2> QED BY <2>2, <2>3, <2>4, <2>5, <2>6 DEF PacerTypes
<1>5. StackShape /\ ~Pending
    <2>1. Len(stack) = 1 /\ stack[1] = c
        BY <1>1
    <2>2. P!Top = c
        BY <2>1 DEF P!Top, P!Last
    <2> QED BY <1>2, <2>1, <2>2 DEF StackShape, Pending
<1>6. HeldShape
    <2>1. \A t \in PacedTracks : Len(held[t]) = 0
        BY <1>1
    <2> QED BY <2>1 DEF HeldShape
<1>7. Buffers
    <2>1. \A q \in PacedTracks \cup {0} : tb[q] = 0 /\ fill[q] = 0
        BY <1>1
    <2>2. Paced \subseteq PacedTracks
        BY PacerAssumption
    <2> QED BY <1>5, <2>1, <2>2 DEF Buffers, TrackBooks, SystemBooks, P!TransportBuffers, P!System
<1> QED BY <1>4, <1>5, <1>6, <1>7 DEF PacerBase

LEMMA PacerStep ==
    ASSUME PacerBase, P!Next
    PROVE  PacerBase'
<1>1. CASE P!FlushDue    BY <1>1, FlushDueStep
<1>2. CASE P!Released    BY <1>2, ReleasedStep
<1>3. CASE P!Start       BY <1>3, StartStep
<1>4. CASE P!Wait        BY <1>4, WaitStep
<1>5. CASE P!LookAgain   BY <1>5, LookAgainStep
<1>6. CASE P!PcrOnly     BY <1>6, PcrOnlyStep
<1>7. CASE P!PcrNotDue   BY <1>7, PcrNotDueStep
<1>8. CASE P!Null        BY <1>8, NullStep
<1>9. CASE P!CheckLate   BY <1>9, CheckLateStep
<1>10. CASE P!Flushed    BY <1>10, FlushedStep
<1>11. CASE P!PcrsSent   BY <1>11, PcrsSentStep
<1>12. CASE P!Send       BY <1>12, SendStep
<1>13. CASE P!Space      BY <1>13, SpaceStep
<1>14. CASE P!Pooled     BY <1>14, PooledStep
<1>15. CASE P!Hold       BY <1>15, HoldStep
<1>16. CASE \E t \in PacedTracks, size \in PacedSizes, timed \in BOOLEAN : P!WriteFrame(t, size, timed)
    BY <1>16, WriteFrameStep
<1>17. CASE \E p \in Programs, b \in PacedBases : P!Signal(p, b)
    BY <1>17, SignalStep
<1>18. CASE P!WriteTrailer BY <1>18, WriteTrailerStep
<1>19. CASE P!Drained    BY <1>19, DrainedStep
<1> QED BY <1>1, <1>2, <1>3, <1>4, <1>5, <1>6, <1>7, <1>8, <1>9, <1>10, <1>11, <1>12, <1>13,
           <1>14, <1>15, <1>16, <1>17, <1>18, <1>19 DEF P!Next

LEMMA BaseStill == ASSUME PacerBase, UNCHANGED pacerVars PROVE PacerBase'
<1>1. PacerTypes'
    BY DEF pacerVars, PacerBase, PacerTypes
<1>2. StackShape' /\ HeldShape'
    BY DEF pacerVars, PacerBase, StackShape, HeldShape
<1>3. Pending' <=> Pending
    BY DEF pacerVars, Pending, P!Top, P!Last
<1>4. Buffers'
    BY <1>3, StillKeepsBuffers DEF pacerVars, P!clockVars, PacerBase
<1> QED BY <1>1, <1>2, <1>4 DEF PacerBase

(* The buffers of the receiver (muxer.rs: cbr_pace_tb, cbr_pace_bsys): no  *)
(* transport buffer whose drain is known ever overflows, whatever frames,  *)
(* PCRs, tables and null packets compete for the byte clock.               *)
THEOREM PacedBuffers == AllSpec => []TransportBuffers
<1> DEFINE Inv == cbr => PacerBase
<1>1. AllInit => Inv
    BY PacerBegins DEF AllInit
<1>2. Inv /\ [AllNext]_allVars => Inv'
    <2> SUFFICES ASSUME Inv, [AllNext]_allVars PROVE Inv'
        OBVIOUS
    <2>1. CASE Unpaced
        BY <2>1 DEF Unpaced
    <2>2. CASE Constant
        BY <2>2, PacerStep DEF Constant
    <2>3. CASE UNCHANGED allVars
        BY <2>3, BaseStill DEF allVars
    <2> QED BY <2>1, <2>2, <2>3 DEF AllNext
<1>3. Inv => TransportBuffers
    BY DEF PacerBase, Buffers, TransportBuffers
<1> QED BY <1>1, <1>2, <1>3, PTL DEF AllSpec
------------------------------------------------------------------------------
(* The clock of the pacer, and the frames that wait for it.                *)
LEMMA OutMoves ==
    ASSUME PacerBase, P!Next PROVE out' = out \/ out' = out + 1
<1>1. CASE P!FlushDue    BY <1>1 DEF P!FlushDue, P!clockVars
<1>2. CASE P!Released    BY <1>2 DEF P!Released, P!clockVars
<1>3. CASE P!Start       BY <1>3 DEF P!Start, P!clockVars
<1>4. CASE P!Wait        BY <1>4 DEF P!Wait, P!clockVars
<1>5. CASE P!LookAgain   BY <1>5 DEF P!LookAgain, P!clockVars
<1>6. CASE P!PcrOnly     BY <1>6, PcrOnlyStep
<1>7. CASE P!PcrNotDue   BY <1>7 DEF P!PcrNotDue, P!clockVars
<1>8. CASE P!Null        BY <1>8, NullStep
<1>9. CASE P!CheckLate   BY <1>9 DEF P!CheckLate, P!clockVars
<1>10. CASE P!Flushed    BY <1>10 DEF P!Flushed, P!clockVars
<1>11. CASE P!PcrsSent   BY <1>11 DEF P!PcrsSent, P!clockVars
<1>12. CASE P!Send       BY <1>12, SendStep
<1>13. CASE P!Space      BY <1>13 DEF P!Space, P!EmitNull, P!Slot
<1>14. CASE P!Pooled     BY <1>14 DEF P!Pooled, P!EmitNull, P!Slot
<1>15. CASE P!Hold       BY <1>15 DEF P!Hold, P!clockVars
<1>16. CASE \E t \in PacedTracks, size \in PacedSizes, timed \in BOOLEAN : P!WriteFrame(t, size, timed)
    BY <1>16 DEF P!WriteFrame, P!clockVars
<1>17. CASE \E p \in Programs, b \in PacedBases : P!Signal(p, b)
    BY <1>17 DEF P!Signal, P!clockVars
<1>18. CASE P!WriteTrailer BY <1>18 DEF P!WriteTrailer, P!clockVars
<1>19. CASE P!Drained    BY <1>19 DEF P!Drained, P!clockVars
<1> QED BY <1>1, <1>2, <1>3, <1>4, <1>5, <1>6, <1>7, <1>8, <1>9, <1>10, <1>11, <1>12, <1>13,
           <1>14, <1>15, <1>16, <1>17, <1>18, <1>19 DEF P!Next

(* A step leaves the clock alone, sends a PCR, anchors the clock, or       *)
(* announces a time base.                                                  *)
PcrMove ==
    /\ stack # <<>> /\ P!Top.kind = "frame" /\ P!Top.stage # "start" /\ P!Top.time # P!NoTime
    /\ anchor' = anchor /\ rebases' = rebases /\ \E p \in Programs : P!SetPcr(p)
AnchorMove ==
    /\ wire' = wire /\ pendingBase' = pendingBase /\ rebases' = rebases
    /\ anchor' = anchor \/ ~P!Anchored
BaseMove == wire' = wire /\ rebases' = rebases + 1

LEMMA KeptIsSameClock == Kept => SameClock
    BY DEF Kept, SameClock

LEMMA ClockMoves ==
    ASSUME PacerBase, P!Next PROVE SameClock \/ PcrMove \/ AnchorMove \/ BaseMove
<1>1. CASE P!FlushDue    BY <1>1, FlushDueStep
<1>2. CASE P!Released    BY <1>2, ReleasedStep
<1>3. CASE P!Start       BY <1>3 DEF P!Start, P!callerVars, AnchorMove
<1>4. CASE P!Wait        BY <1>4, WaitStep, KeptIsSameClock
<1>5. CASE P!LookAgain   BY <1>5, LookAgainStep, KeptIsSameClock
<1>6. CASE P!PcrOnly
    <2>1. PcrOut \/ NullOut
        BY <1>6, PcrOnlyStep
    <2> QED BY <2>1 DEF PcrOut, NullOut, Progress, PcrMove
<1>7. CASE P!PcrNotDue   BY <1>7, PcrNotDueStep, KeptIsSameClock
<1>8. CASE P!Null        BY <1>8, NullStep, KeptIsSameClock
<1>9. CASE P!CheckLate   BY <1>9, CheckLateStep, KeptIsSameClock
<1>10. CASE P!Flushed    BY <1>10, FlushedStep, KeptIsSameClock
<1>11. CASE P!PcrsSent   BY <1>11, PcrsSentStep, KeptIsSameClock
<1>12. CASE P!Send
    <2>1. /\ P!Top.kind = "frame" /\ P!Top.stage = "send" /\ stack # <<>>
          /\ SentOut \/ NullOut
        BY <1>12, SendStep DEF P!Send, P!At, P!Running
    <2> QED BY <2>1 DEF SentOut, NullOut, PcrMove, SameClock
<1>13. CASE P!Space      BY <1>13, SpaceStep DEF TablesOut, TablesKept, SameClock
<1>14. CASE P!Pooled     BY <1>14, PooledStep DEF TablesOut, TablesKept, SameClock
<1>15. CASE P!Hold       BY <1>15, HoldStep
<1>16. CASE \E t \in PacedTracks, size \in PacedSizes, timed \in BOOLEAN : P!WriteFrame(t, size, timed)
    BY <1>16, WriteFrameStep DEF GivenOut
<1>17. CASE \E p \in Programs, b \in PacedBases : P!Signal(p, b)
    BY <1>17, SignalStep
<1>18. CASE P!WriteTrailer BY <1>18, WriteTrailerStep
<1>19. CASE P!Drained    BY <1>19, DrainedStep DEF DrainEnds, BaseMove
<1> QED BY <1>1, <1>2, <1>3, <1>4, <1>5, <1>6, <1>7, <1>8, <1>9, <1>10, <1>11, <1>12, <1>13,
           <1>14, <1>15, <1>16, <1>17, <1>18, <1>19 DEF P!Next

(* What a step makes of the frames under way.                              *)
Fresh == \A i \in 1 .. Len(stack') :
             stack'[i].kind = "frame" => stack'[i].stage = "start"
Restarted == \E c \in HeldFrame : Pushed(c)
SentOn ==
    /\ stack # <<>> /\ P!Top.kind = "frame" /\ P!Top.stage = "send"
    /\ \E l : Onward("send", l)
StackMove ==
    \/ anchor' = anchor /\ \/ stack' = stack \/ Popped \/ Fresh \/ Restarted \/ SentOn
                           \/ Progress(P!Top.left)
                           \/ P!Top.kind = "tables" /\ \E s, l : TablesGoOn(s, l)
    \/ Len(stack) = 1 /\ Popped
    \/ P!Start

LEMMA StackMoves ==
    ASSUME PacerBase, P!Next PROVE StackMove
<1>1. CASE P!FlushDue
    <2>1. anchor' = anchor /\ \E t \in PacedTracks : \E c \in HeldFrame : LetOut(t, c)
        BY <1>1, FlushDueStep DEF SameClock
    <2> QED BY <2>1 DEF LetOut, Restarted, StackMove
<1>2. CASE P!Released    BY <1>2, ReleasedStep DEF SameClock, StackMove
<1>3. CASE P!Start       BY <1>3 DEF StackMove
<1>4. CASE P!Wait        BY <1>4, WaitStep DEF Kept, StackMove
<1>5. CASE P!LookAgain   BY <1>5, LookAgainStep DEF Kept, StackMove
<1>6. CASE P!PcrOnly
    <2>1. PcrOut \/ NullOut
        BY <1>6, PcrOnlyStep
    <2> QED BY <2>1 DEF PcrOut, NullOut, SameClock, StackMove
<1>7. CASE P!PcrNotDue   BY <1>7, PcrNotDueStep DEF Kept, StackMove
<1>8. CASE P!Null        BY <1>8, NullStep DEF Kept, StackMove
<1>9. CASE P!CheckLate
    <2>1. anchor' = anchor /\ (Progress(P!Top.left) \/ stack' = <<>>)
        BY <1>9, CheckLateStep DEF Kept
    <2> QED BY <2>1 DEF Fresh, StackMove
<1>10. CASE P!Flushed    BY <1>10, FlushedStep DEF Kept, StackMove
<1>11. CASE P!PcrsSent   BY <1>11, PcrsSentStep DEF Kept, StackMove
<1>12. CASE P!Send
    <2>1. /\ P!Top.kind = "frame" /\ P!Top.stage = "send" /\ stack # <<>>
          /\ SentOut \/ NullOut
        BY <1>12, SendStep DEF P!Send, P!At, P!Running
    <2>2. anchor' = anchor
        BY <2>1 DEF SentOut, NullOut, SameClock
    <2>3. Popped \/ SentOn \/ stack' = stack
        BY <2>1 DEF SentOut, NullOut, SentOn
    <2> QED BY <2>2, <2>3 DEF StackMove
<1>13. CASE P!Space      BY <1>13, SpaceStep DEF TablesOut, TablesKept, StackMove
<1>14. CASE P!Pooled     BY <1>14, PooledStep DEF TablesOut, TablesKept, StackMove
<1>15. CASE P!Hold
    <2>1. Len(stack') = 1 /\ stack'[1].kind = "release" /\ anchor' = anchor
        BY <1>15, HoldStep DEF SameClock
    <2> QED BY <2>1 DEF Fresh, StackMove
<1>16. CASE \E t \in PacedTracks, size \in PacedSizes, timed \in BOOLEAN : P!WriteFrame(t, size, timed)
    <2>1. PICK t \in PacedTracks : GivenOut(t)
        BY <1>16, WriteFrameStep
    <2>2. /\ Len(stack') \in {1, 2} /\ (Len(stack') = 2 => stack'[2].kind = "tables")
          /\ stack'[1].stage = "start" /\ anchor' = anchor
        BY <2>1 DEF GivenOut, SameClock
    <2> QED BY <2>2 DEF Fresh, StackMove
<1>17. CASE \E p \in Programs, b \in PacedBases : P!Signal(p, b)
    <2>1. Len(stack') = 1 /\ stack'[1].kind = "drain" /\ anchor' = anchor
        BY <1>17, SignalStep DEF SameClock
    <2> QED BY <2>1 DEF Fresh, StackMove
<1>18. CASE P!WriteTrailer
    <2>1. /\ Len(stack') = 2 /\ stack'[1].kind = "tables" /\ stack'[2].kind = "drain"
          /\ anchor' = anchor
        BY <1>18, WriteTrailerStep DEF SameClock
    <2> QED BY <2>1 DEF Fresh, StackMove
<1>19. CASE P!Drained
    <2>1. \/ anchor' = anchor /\ \E t \in PacedTracks : \E c \in HeldFrame : LetOut(t, c)
          \/ DrainEnds
        BY <1>19, DrainedStep DEF SameClock
    <2>2. DrainEnds => Popped /\ (anchor' = anchor \/ Len(stack) = 1)
        BY DEF DrainEnds, SameClock
    <2>3. (\E t \in PacedTracks : \E c \in HeldFrame : LetOut(t, c)) => Restarted
        BY DEF LetOut, Restarted
    <2> QED BY <2>1, <2>2, <2>3 DEF StackMove
<1> QED BY <1>1, <1>2, <1>3, <1>4, <1>5, <1>6, <1>7, <1>8, <1>9, <1>10, <1>11, <1>12, <1>13,
           <1>14, <1>15, <1>16, <1>17, <1>18, <1>19 DEF P!Next
------------------------------------------------------------------------------
(* Once a frame with a time has been looked at, the clock is anchored; and *)
(* from when it is due, it is.  Each program's last PCR is on the clock,   *)
(* unless a time base has been announced since.                            *)
FrameClocked(c) ==
    c.kind = "frame" /\ c.stage # "start" /\ c.time # P!NoTime =>
        /\ P!Anchored
        /\ c.stage \in LateStages => P!Now(out) >= c.time - P!LeadOf(c.track)
FramesClocked == \A i \in 1 .. Len(stack) : FrameClocked(stack[i])
PcrsClocked ==
    \A p \in Programs :
        /\ wire[p].epoch <= rebases
        /\ wire[p].at # P!Never /\ wire[p].epoch = rebases =>
               P!Anchored /\ wire[p].value = P!Now(wire[p].at) /\ ~pendingBase[p]

(* The mark that waits for a program's next PCR stands for a base which    *)
(* that program has announced since its last PCR.                          *)
Announcements ==
    /\ announced \in [Programs -> Nat]
    /\ \A p \in Programs :
           /\ announced[p] <= rebases
           /\ pendingBase[p] <=> announced[p] > wire[p].epoch
PacerClock == PacerBase /\ FramesClocked /\ PcrsClocked /\ Announcements

LEMMA ClockRunsOn ==
    ASSUME PacerTypes, out' = out \/ out' = out + 1, anchor' = anchor,
           NEW c \in PacerCall, FrameClocked(c)
    PROVE  FrameClocked(c)'
<1>1. P!Anchored' <=> P!Anchored
    BY DEF P!Anchored
<1>2. P!Now(out)' >= P!Now(out)
    <2>1. out \in Int /\ anchor[1] \in Int /\ anchor[2] \in Int
        BY DEF PacerTypes
    <2> QED BY <2>1 DEF P!Now
<1>3. P!Now(out) \in Int /\ P!Now(out)' \in Int
    BY DEF PacerTypes, P!Now
<1>4. P!LeadOf(c.track) \in Int /\ c.time \in Int
    BY PacerAssumption DEF P!LeadOf, PacerCall, P!NoTime, P!Never
<1>5. c.time - P!LeadOf(c.track) \in Int
    BY <1>4
<1> DEFINE due == c.time - P!LeadOf(c.track)
<1> HIDE DEF due
<1>6. P!Now(out) >= due => P!Now(out)' >= due
    BY <1>2, <1>3, <1>5 DEF due
<1>7. FrameClocked(c)' = (c.kind = "frame" /\ c.stage # "start" /\ c.time # P!NoTime =>
        /\ P!Anchored'
        /\ c.stage \in LateStages => P!Now(out)' >= due)
    BY DEF FrameClocked, due, P!LeadOf
<1> QED BY <1>1, <1>6, <1>7 DEF FrameClocked, due

LEMMA BelowClocked ==
    ASSUME PacerTypes, out' = out \/ out' = out + 1, anchor' = anchor, FramesClocked,
           NEW i \in 1 .. Len(stack), stack'[i] = stack[i]
    PROVE  FrameClocked(stack[i])'
<1> DEFINE c == stack[i]
<1>1. stack \in Seq(PacerEntry) /\ Len(stack) \in Nat
    BY DEF PacerTypes
<1>2. c \in PacerCall
    BY <1>1 DEF PacerEntry
<1>3. PICK d \in PacerCall : d = c
    BY <1>2
<1>4. FrameClocked(d)
    BY <1>3 DEF FramesClocked
<1>5. FrameClocked(d)'
    BY <1>4, ClockRunsOn
<1>6. d = stack'[i]
    BY <1>3
<1>7. FrameClocked(d)' <=> FrameClocked(stack[i])'
    BY <1>6 DEF FrameClocked
<1> QED BY <1>5, <1>7

(* The calls under way, as the step leaves them: the top is settled apart. *)
LEMMA SwapClocked ==
    ASSUME PacerTypes, out' = out \/ out' = out + 1, anchor' = anchor, FramesClocked,
           NEW c \in PacerEntry, Swapped(c), FrameClocked(c)'
    PROVE  FramesClocked'
<1>1. /\ Len(stack') = Len(stack) /\ Len(stack) \in Nat /\ stack'[Len(stack)] = c
      /\ \A i \in 1 .. Len(stack) - 1 : stack'[i] = stack[i]
    <2>1. Len(stack) \in Nat
        BY DEF PacerTypes
    <2> QED BY <2>1 DEF Swapped
<1>2. ASSUME NEW i \in 1 .. Len(stack) PROVE FrameClocked(stack[i])'
    <2>1. CASE i = Len(stack)
        <3>1. stack'[i] = c
            BY <1>1, <2>1
        <3>2. FrameClocked(stack[i])' <=> FrameClocked(c)'
            BY <3>1 DEF FrameClocked
        <3> QED BY <3>2
    <2>2. CASE i # Len(stack)
        <3>1. stack'[i] = stack[i]
            BY <1>1, <2>2
        <3> QED BY <3>1, BelowClocked
    <2> QED BY <2>1, <2>2
<1> QED BY <1>1, <1>2 DEF FramesClocked

LEMMA PopClocked ==
    ASSUME PacerTypes, out' = out \/ out' = out + 1, anchor' = anchor, FramesClocked, Popped
    PROVE  FramesClocked'
<1>1. /\ Len(stack') = Len(stack) - 1 /\ Len(stack) \in Nat
      /\ \A i \in 1 .. Len(stack) - 1 : stack'[i] = stack[i]
    BY DEF Popped, PacerTypes
<1>2. ASSUME NEW i \in 1 .. Len(stack') PROVE FrameClocked(stack[i])'
    <2>1. i \in 1 .. Len(stack) /\ stack'[i] = stack[i]
        BY <1>1
    <2> QED BY <2>1, BelowClocked
<1> QED BY <1>2 DEF FramesClocked

LEMMA StartClocked ==
    ASSUME NEW i, stack'[i].kind = "frame" => stack'[i].stage = "start"
    PROVE  FrameClocked(stack[i])'
    BY DEF FrameClocked

LEMMA PushClocked ==
    ASSUME PacerTypes, out' = out \/ out' = out + 1, anchor' = anchor, FramesClocked,
           NEW c \in HeldFrame, Pushed(c)
    PROVE  FramesClocked'
<1>1. /\ Len(stack') = Len(stack) + 1 /\ Len(stack) \in Nat /\ stack'[Len(stack) + 1] = c
      /\ \A i \in 1 .. Len(stack) : stack'[i] = stack[i]
    BY DEF Pushed, PacerTypes
<1>2. c.stage = "start"
    BY DEF HeldFrame
<1>3. ASSUME NEW i \in 1 .. Len(stack') PROVE FrameClocked(stack[i])'
    <2>1. CASE i = Len(stack) + 1
        <3>1. stack'[i].stage = "start"
            BY <1>1, <1>2, <2>1
        <3> QED BY <3>1, StartClocked
    <2>2. CASE i # Len(stack) + 1
        <3>1. i \in 1 .. Len(stack) /\ stack'[i] = stack[i]
            BY <1>1, <2>2
        <3> QED BY <3>1, BelowClocked
    <2> QED BY <2>1, <2>2
<1> QED BY <1>3 DEF FramesClocked

(* The frame on top goes on, to a stage where it is due only if it is.     *)
LEMMA OnwardClocked ==
    ASSUME PacerTypes, out' = out \/ out' = out + 1, anchor' = anchor, FramesClocked,
           stack # <<>>, P!Top.kind = "frame", P!Top.stage # "start",
           NEW s \in FrameStages \ {"start"}, NEW l, Onward(s, l),
           s \in LateStages => P!Top.stage \in LateStages \/ ~P!Early
    PROVE  FramesClocked'
<1>1. PICK c \in PacerEntry : Swapped(c) /\ SameCall(c, P!Top) /\ c.stage = s /\ c.left = l
    BY DEF Onward
<1>2. PICK top \in PacerCall : top = P!Top
    BY TopIs
<1>3. /\ top.kind = "frame" /\ top.stage # "start" /\ c.kind = top.kind /\ c.time = top.time
      /\ c.track = top.track /\ c.stage = s
    BY <1>1, <1>2 DEF SameCall
<1>4. FrameClocked(top)
    <2>1. Len(stack) \in Nat \ {0} /\ top = stack[Len(stack)]
        BY <1>2, TopIs
    <2> QED BY <2>1 DEF FramesClocked
<1>5. FrameClocked(c)
    <2> SUFFICES ASSUME c.time # P!NoTime
                 PROVE  /\ P!Anchored
                        /\ c.stage \in LateStages => P!Now(out) >= c.time - P!LeadOf(c.track)
        BY DEF FrameClocked
    <2>1. P!Anchored /\ (top.stage \in LateStages => P!Now(out) >= top.time - P!LeadOf(top.track))
        BY <1>3, <1>4 DEF FrameClocked
    <2>2. ~P!Early => P!Now(out) >= top.time - P!LeadOf(top.track)
        <3>1. P!Now(out) \in Int
            BY DEF PacerTypes, P!Now
        <3>2. top.time - P!LeadOf(top.track) \in Int
            <4>1. P!LeadOf(top.track) \in Int /\ top.time \in Int
                BY PacerAssumption DEF P!LeadOf, PacerCall, P!NoTime, P!Never
            <4> QED BY <4>1
        <3> DEFINE due == top.time - P!LeadOf(top.track)
        <3>3. P!Early <=> P!Now(out) < due
            BY <1>2 DEF P!Early
        <3>4. due \in Int
            BY <3>2
        <3> HIDE DEF due
        <3>5. ~P!Early => P!Now(out) >= due
            BY <3>1, <3>3, <3>4
        <3> QED BY <3>5 DEF due
    <2>3. P!LeadOf(c.track) = P!LeadOf(top.track)
        BY <1>3 DEF P!LeadOf
    <2> QED BY <1>2, <1>3, <2>1, <2>2, <2>3
<1>6. FrameClocked(c)'
    <2>1. c \in PacerCall
        BY DEF PacerEntry
    <2> QED BY <1>5, <2>1, ClockRunsOn
<1> QED BY <1>1, <1>6, SwapClocked
(* The frame on top starts: it anchors the clock, if it has a time and no  *)
(* frame had one before it.                                                *)
LEMMA StartedClocked ==
    ASSUME PacerClock, P!Start
    PROVE  FramesClocked'
<1>1. /\ PacerBase' /\ P!Top.kind = "frame" /\ P!Top.stage = "start"
      /\ Onward(IF P!Top.time = P!NoTime THEN "send" ELSE "loop", P!Top.left)
    BY StartStep DEF PacerClock
<1>2. PICK c \in PacerEntry :
          /\ Swapped(c) /\ SameCall(c, P!Top)
          /\ c.stage = IF P!Top.time = P!NoTime THEN "send" ELSE "loop"
    BY <1>1 DEF Onward
<1>3. PacerTypes /\ FramesClocked
    BY BaseParts DEF PacerClock
<1>4. out' = out /\ anchor' = IF P!Top.time # P!NoTime /\ ~P!Anchored
                              THEN <<out, P!Top.time - P!LeadOf(P!Top.track)>> ELSE anchor
    BY DEF P!Start, P!clockVars
<1>5. CASE anchor' = anchor /\ (P!Anchored \/ P!Top.time = P!NoTime)
    <2>1. FrameClocked(c)'
        <3>1. c.time # P!NoTime => c.stage = "loop" /\ P!Anchored'
            BY <1>2, <1>5 DEF SameCall, P!Anchored
        <3>2. "loop" \notin LateStages
            BY DEF LateStages
        <3> QED BY <3>1, <3>2 DEF FrameClocked
    <2> QED BY <1>2, <1>3, <1>4, <1>5, <2>1, SwapClocked
<1>6. CASE P!Top.time # P!NoTime /\ ~P!Anchored
    <2>1. anchor' = <<out, P!Top.time - P!LeadOf(P!Top.track)>>
        BY <1>4, <1>6
    <2>2. P!Anchored'
        <3>1. out # P!Never
            BY <1>3 DEF PacerTypes, P!Never
        <3>2. anchor'[1] = out
            BY <2>1
        <3> QED BY <3>1, <3>2 DEF P!Anchored, P!NoAnchor
    <2>3. FrameClocked(c)'
        <3>1. c.time # P!NoTime => c.stage = "loop"
            BY <1>2 DEF SameCall
        <3>2. "loop" \notin LateStages
            BY DEF LateStages
        <3> QED BY <2>2, <3>1, <3>2 DEF FrameClocked
    <2>4. /\ Len(stack') = Len(stack) /\ Len(stack) \in Nat /\ stack'[Len(stack)] = c
          /\ \A i \in 1 .. Len(stack) - 1 : stack'[i] = stack[i]
        <3>1. Len(stack) \in Nat
            BY <1>3 DEF PacerTypes
        <3> QED BY <1>2, <3>1 DEF Swapped
    <2>5. ASSUME NEW i \in 1 .. Len(stack) PROVE FrameClocked(stack[i])'
        <3>1. CASE i = Len(stack)
            <4>1. stack'[i] = c
                BY <2>4, <3>1
            <4>2. FrameClocked(stack[i])' <=> FrameClocked(c)'
                BY <4>1 DEF FrameClocked
            <4> QED BY <4>2, <2>3
        <3>2. CASE i # Len(stack)
            <4>1. stack'[i] = stack[i]
                BY <2>4, <3>2
            <4>2. stack[i].kind = "frame" /\ stack[i].stage # "start" => stack[i].time = P!NoTime
                BY <1>3, <1>6 DEF FramesClocked, FrameClocked
            <4>3. stack'[i].kind = "frame" /\ stack'[i].stage # "start" => stack'[i].time = P!NoTime
                BY <4>1, <4>2
            <4> QED BY <4>3 DEF FrameClocked
        <3> QED BY <3>1, <3>2
    <2> QED BY <2>4, <2>5 DEF FramesClocked
<1> QED BY <1>4, <1>5, <1>6

LEMMA FramesStayClocked ==
    ASSUME PacerClock, P!Next
    PROVE  FramesClocked'
<1>1. PacerTypes /\ FramesClocked /\ (out' = out \/ out' = out + 1)
    BY BaseParts, OutMoves DEF PacerClock
<1>2. StackMove
    BY StackMoves DEF PacerClock
<1>3. CASE anchor' = anchor /\ stack' = stack
    <2>1. ASSUME NEW i \in 1 .. Len(stack) PROVE FrameClocked(stack[i])'
        <3>1. stack'[i] = stack[i]
            BY <1>3
        <3> QED BY <3>1, <1>1, <1>3, BelowClocked
    <2> QED BY <2>1, <1>3 DEF FramesClocked
<1>4. CASE anchor' = anchor /\ Popped
    BY <1>1, <1>4, PopClocked
<1>5. CASE Fresh
    <2>1. ASSUME NEW i \in 1 .. Len(stack') PROVE FrameClocked(stack[i])'
        BY <1>5, StartClocked DEF Fresh
    <2> QED BY <2>1 DEF FramesClocked
<1>6. CASE anchor' = anchor /\ Restarted
    BY <1>1, <1>6, PushClocked DEF Restarted
<1>7. CASE anchor' = anchor /\ SentOn
    <2>1. /\ stack # <<>> /\ P!Top.kind = "frame" /\ P!Top.stage = "send"
          /\ "send" \in FrameStages \ {"start"} /\ "send" \in LateStages
        BY <1>7 DEF SentOn, FrameStages, LateStages
    <2>2. PICK l : Onward("send", l)
        BY <1>7 DEF SentOn
    <2> QED BY <1>1, <1>7, <2>1, <2>2, OnwardClocked
<1>8. CASE anchor' = anchor /\ Progress(P!Top.left)
    <2>1. /\ stack # <<>> /\ P!Top.kind = "frame" /\ P!Top.stage # "start"
          /\ \E s \in FrameStages \ {"start"} :
                 /\ Onward(s, P!Top.left)
                 /\ s \in LateStages => P!Top.stage \in LateStages \/ ~P!Early
        BY <1>8 DEF Progress
    <2>2. PICK s \in FrameStages \ {"start"} :
                 /\ Onward(s, P!Top.left)
                 /\ s \in LateStages => P!Top.stage \in LateStages \/ ~P!Early
        BY <2>1
    <2> QED BY <1>1, <1>8, <2>1, <2>2, OnwardClocked
<1>9. CASE anchor' = anchor /\ P!Top.kind = "tables" /\ \E s, l : TablesGoOn(s, l)
    <2>1. PICK c \in PacerEntry : Swapped(c) /\ SameCall(c, P!Top)
        BY <1>9 DEF TablesGoOn
    <2>2. c.kind # "frame"
        BY <1>9, <2>1 DEF SameCall
    <2>3. FrameClocked(c)'
        BY <2>2 DEF FrameClocked
    <2> QED BY <1>1, <1>9, <2>1, <2>3, SwapClocked
<1>10. CASE Len(stack) = 1 /\ Popped
    <2>1. Len(stack') = 0
        BY <1>10 DEF Popped
    <2> QED BY <2>1 DEF FramesClocked
<1>11. CASE P!Start
    BY <1>11, StartedClocked
<1> QED BY <1>2, <1>3, <1>4, <1>5, <1>6, <1>7, <1>8, <1>9, <1>10, <1>11 DEF StackMove

(* Each program's last PCR stays on the clock.                             *)
LEMMA WireTyped ==
    ASSUME PacerTypes, NEW p \in Programs
    PROVE  /\ out \in Nat /\ anchor[1] \in Int /\ anchor[2] \in Int /\ rebases \in Nat
           /\ wire[p].at \in Int /\ wire[p].value \in Int /\ wire[p].epoch \in Nat
           /\ pendingBase[p] \in BOOLEAN
    BY DEF PacerTypes

LEMMA PcrSent ==
    ASSUME PacerTypes, NEW p \in Programs, P!SetPcr(p)
    PROVE  /\ wire'[p].at = out /\ wire'[p].value = P!Now(out) /\ wire'[p].epoch = rebases
           /\ wire'[p].marked = pendingBase[p] /\ ~pendingBase'[p]
           /\ \A q \in Programs : q # p => wire'[q] = wire[q] /\ pendingBase'[q] = pendingBase[q]
    BY DEF PacerTypes, P!SetPcr

LEMMA PcrsStayClocked ==
    ASSUME PacerClock, P!Next
    PROVE  PcrsClocked'
<1>1. PacerTypes /\ FramesClocked /\ PcrsClocked
    BY BaseParts DEF PacerClock
<1>2. SameClock \/ PcrMove \/ AnchorMove \/ BaseMove
    BY ClockMoves DEF PacerClock
<1>3. ASSUME anchor' = anchor
      PROVE  (P!Anchored' <=> P!Anchored) /\ \A n : P!Now(n)' = P!Now(n)
    BY <1>3 DEF P!Anchored, P!Now
<1>4. CASE SameClock
    <2>1. /\ anchor' = anchor /\ wire' = wire /\ pendingBase' = pendingBase /\ rebases' = rebases
        BY <1>4 DEF SameClock
    <2> QED BY <2>1, <1>1 DEF PcrsClocked, P!Anchored, P!Now
<1>5. CASE PcrMove
    <2>1. PICK p \in Programs : P!SetPcr(p)
        BY <1>5 DEF PcrMove
    <2>2. /\ wire'[p].at = out /\ wire'[p].value = P!Now(out) /\ wire'[p].epoch = rebases
          /\ wire'[p].marked = pendingBase[p] /\ ~pendingBase'[p]
          /\ \A q \in Programs : q # p => wire'[q] = wire[q] /\ pendingBase'[q] = pendingBase[q]
        BY <1>1, <2>1, PcrSent
    <2>3. anchor' = anchor /\ rebases' = rebases /\ rebases \in Nat
        BY <1>1, <1>5, <2>1, WireTyped DEF PcrMove
    <2>4. P!Anchored
        <3>1. PICK top \in PacerCall : top = P!Top
            BY <1>1, <1>5, TopIs DEF PcrMove
        <3>2. top.kind = "frame" /\ top.stage # "start" /\ top.time # P!NoTime
            BY <1>5, <3>1 DEF PcrMove
        <3>3. FrameClocked(top)
            <4>1. Len(stack) \in Nat \ {0} /\ top = stack[Len(stack)]
                BY <1>1, <1>5, <3>1, TopIs DEF PcrMove
            <4> QED BY <1>1, <4>1 DEF FramesClocked
        <3> QED BY <3>2, <3>3 DEF FrameClocked
    <2>5. P!Anchored' /\ P!Now(out) = anchor[2] + (out - anchor[1])
        BY <2>3, <2>4 DEF P!Anchored, P!Now
    <2> SUFFICES ASSUME NEW q \in Programs
                 PROVE  /\ wire'[q].epoch <= rebases'
                        /\ wire'[q].at # P!Never /\ wire'[q].epoch = rebases' =>
                             /\ P!Anchored'
                             /\ wire'[q].value = anchor'[2] + (wire'[q].at - anchor'[1])
                             /\ ~pendingBase'[q]
        BY DEF PcrsClocked, P!Now
    <2>6. CASE q = p
        BY <2>2, <2>3, <2>5, <2>6
    <2>7. CASE q # p
        <3>1. /\ wire[q].epoch <= rebases
              /\ wire[q].at # P!Never /\ wire[q].epoch = rebases =>
                     /\ wire[q].value = anchor[2] + (wire[q].at - anchor[1])
                     /\ ~pendingBase[q]
            BY <1>1 DEF PcrsClocked, P!Now
        <3> QED BY <2>2, <2>3, <2>5, <2>7, <3>1
    <2> QED BY <2>6, <2>7
<1>6. CASE AnchorMove
    <2>1. /\ wire' = wire /\ pendingBase' = pendingBase /\ rebases' = rebases
          /\ anchor' = anchor \/ ~P!Anchored
        BY <1>6 DEF AnchorMove
    <2>2. CASE anchor' = anchor
        BY <2>1, <2>2, <1>1 DEF PcrsClocked, P!Anchored, P!Now
    <2>3. CASE ~P!Anchored
        <3>1. \A q \in Programs :
                 /\ wire[q].epoch <= rebases
                 /\ ~(wire[q].at # P!Never /\ wire[q].epoch = rebases)
            BY <1>1, <2>3 DEF PcrsClocked
        <3>2. \A q \in Programs :
                 /\ wire'[q].epoch <= rebases'
                 /\ ~(wire'[q].at # P!Never /\ wire'[q].epoch = rebases')
            BY <2>1, <3>1
        <3> QED BY <3>2 DEF PcrsClocked
    <2> QED BY <2>1, <2>2, <2>3
<1>7. CASE BaseMove
    <2>1. wire' = wire /\ rebases' = rebases + 1
        BY <1>7 DEF BaseMove
    <2>2. ASSUME NEW q \in Programs PROVE wire'[q].epoch < rebases'
        <3>1. wire[q].epoch <= rebases /\ wire[q].epoch \in Nat /\ rebases \in Nat
            BY <1>1, WireTyped DEF PcrsClocked
        <3> QED BY <2>1, <3>1
    <2>3. ASSUME NEW q \in Programs PROVE wire'[q].epoch <= rebases' /\ wire'[q].epoch # rebases'
        <3>1. wire[q].epoch \in Nat /\ rebases \in Nat
            BY <1>1, WireTyped
        <3> QED BY <2>1, <2>2, <3>1
    <2> QED BY <2>3 DEF PcrsClocked
<1> QED BY <1>2, <1>4, <1>5, <1>6, <1>7

(* A base is announced by the program that drops the clock, and counted.   *)
Announces(n) ==
    /\ announced' = [announced EXCEPT ![n] = rebases + 1] /\ rebases' = rebases + 1
    /\ pendingBase' = [pendingBase EXCEPT ![n] = TRUE] /\ wire' = wire
QuietBases == announced' = announced /\ rebases' = rebases

LEMMA BasesMove == ASSUME P!Next PROVE QuietBases \/ Announces(P!Top.program)
<1>1. CASE P!FlushDue \/ P!Released \/ P!Start \/ P!Wait \/ P!LookAgain \/ P!PcrOnly \/ P!PcrNotDue
    BY <1>1 DEF QuietBases, P!FlushDue, P!Released, P!Start, P!Wait, P!LookAgain, P!PcrOnly,
           P!PcrNotDue, P!callerVars
<1>2. CASE P!Null \/ P!CheckLate \/ P!Flushed \/ P!PcrsSent \/ P!Send \/ P!Space \/ P!Pooled \/ P!Hold
    BY <1>2 DEF QuietBases, P!Null, P!CheckLate, P!Flushed, P!PcrsSent, P!Send, P!Space, P!Pooled,
           P!Hold, P!callerVars
<1>3. CASE \E t \in PacedTracks, size \in PacedSizes, timed \in BOOLEAN : P!WriteFrame(t, size, timed)
    BY <1>3 DEF QuietBases, P!WriteFrame
<1>4. CASE \E p \in Programs, b \in PacedBases : P!Signal(p, b)
    BY <1>4 DEF QuietBases, P!Signal
<1>5. CASE P!WriteTrailer
    BY <1>5 DEF QuietBases, P!WriteTrailer, P!callerVars
<1>6. CASE P!Drained
    <2>1. CASE P!Holding # {} \/ P!Top.program = 0
        BY <1>6, <2>1 DEF QuietBases, P!Drained
    <2>2. CASE ~(P!Holding # {}) /\ P!Top.program # 0
        BY <1>6, <2>2 DEF Announces, P!Drained
    <2> QED BY <2>1, <2>2
<1> QED BY <1>1, <1>2, <1>3, <1>4, <1>5, <1>6 DEF P!Next

LEMMA AnnouncementsKept == ASSUME PacerClock, P!Next PROVE Announcements'
<1>1. PacerTypes /\ PcrsClocked /\ Announcements
    BY BaseParts DEF PacerClock
<1>2. SameClock \/ PcrMove \/ AnchorMove \/ BaseMove
    BY ClockMoves DEF PacerClock
<1>3. rebases \in Nat /\ announced \in [Programs -> Nat]
    BY <1>1 DEF PacerTypes, Announcements
<1>4. ASSUME NEW p \in Programs
      PROVE  /\ announced[p] \in Nat /\ announced[p] <= rebases /\ wire[p].epoch \in Nat
             /\ wire[p].epoch <= rebases /\ pendingBase[p] \in BOOLEAN
             /\ pendingBase[p] <=> announced[p] > wire[p].epoch
    BY <1>1, <1>3, WireTyped DEF Announcements, PcrsClocked
<1>5. CASE QuietBases /\ wire' = wire /\ pendingBase' = pendingBase
    BY <1>1, <1>5 DEF QuietBases, Announcements
<1>6. CASE QuietBases /\ PcrMove
    <2>1. PICK n \in Programs : P!SetPcr(n)
        BY <1>6 DEF PcrMove
    <2>2. /\ wire'[n].epoch = rebases /\ ~pendingBase'[n]
          /\ \A q \in Programs : q # n => wire'[q] = wire[q] /\ pendingBase'[q] = pendingBase[q]
        BY <1>1, <2>1, PcrSent
    <2>3. announced' = announced /\ rebases' = rebases
        BY <1>6 DEF QuietBases
    <2>4. ASSUME NEW p \in Programs
          PROVE  announced'[p] <= rebases' /\ (pendingBase'[p] <=> announced'[p] > wire'[p].epoch)
        <3>1. CASE p = n
            <4>1. ~(announced[p] > rebases)
                BY <1>3, <1>4
            <4> QED BY <1>4, <2>2, <2>3, <3>1, <4>1
        <3>2. CASE p # n
            BY <1>4, <2>2, <2>3, <3>2
        <3> QED BY <3>1, <3>2
    <2> QED BY <1>3, <2>3, <2>4 DEF Announcements
<1>7. CASE Announces(P!Top.program)
    <2> DEFINE n == P!Top.program
    <2>1. /\ announced' = [announced EXCEPT ![n] = rebases + 1] /\ rebases' = rebases + 1
          /\ pendingBase' = [pendingBase EXCEPT ![n] = TRUE] /\ wire' = wire
        BY <1>7 DEF Announces
    <2> HIDE DEF n
    <2>2. announced' \in [Programs -> Nat]
        <3> DEFINE m == rebases + 1
        <3>1. m \in Nat
            BY <1>3
        <3>2. announced' = [announced EXCEPT ![n] = m]
            BY <2>1
        <3> HIDE DEF m
        <3> QED BY <1>3, <3>1, <3>2
    <2>3. pendingBase \in [Programs -> BOOLEAN]
        BY <1>1 DEF PacerTypes
    <2>4. ASSUME NEW p \in Programs
          PROVE  announced'[p] <= rebases' /\ (pendingBase'[p] <=> announced'[p] > wire'[p].epoch)
        <3>1. CASE p = n
            <4>1. announced'[p] = rebases + 1 /\ pendingBase'[p]
                BY <1>3, <2>1, <2>3, <3>1
            <4>2. rebases + 1 > wire'[p].epoch
                BY <1>3, <1>4, <2>1
            <4> QED BY <1>3, <2>1, <4>1, <4>2
        <3>2. CASE p # n
            <4>1. announced'[p] = announced[p] /\ pendingBase'[p] = pendingBase[p]
                BY <1>3, <2>1, <2>3, <3>2
            <4> QED BY <1>3, <1>4, <2>1, <4>1
        <3> QED BY <3>1, <3>2
    <2> QED BY <2>2, <2>4 DEF Announcements
<1>8. CASE QuietBases /\ BaseMove
    <2>1. rebases = rebases + 1
        BY <1>8 DEF QuietBases, BaseMove
    <2> QED BY <1>3, <2>1
<1>9. QuietBases \/ Announces(P!Top.program)
    BY BasesMove
<1>10. SameClock \/ AnchorMove => wire' = wire /\ pendingBase' = pendingBase
    BY DEF SameClock, AnchorMove
<1> QED BY <1>2, <1>5, <1>6, <1>7, <1>8, <1>9, <1>10

LEMMA ClockStep == ASSUME PacerClock, P!Next PROVE PacerClock'
    BY PacerStep, FramesStayClocked, PcrsStayClocked, AnnouncementsKept DEF PacerClock

LEMMA LinearStep == ASSUME PacerClock, P!Next PROVE P!Linear
<1>1. PacerTypes /\ PcrsClocked /\ Announcements
    BY BaseParts DEF PacerClock
<1>2. SameClock \/ PcrMove \/ AnchorMove \/ BaseMove
    BY ClockMoves DEF PacerClock
<1>3. CASE wire' = wire
    BY <1>3 DEF P!Linear
<1>4. CASE PcrMove
    <2>1. PICK p \in Programs : P!SetPcr(p)
        BY <1>4 DEF PcrMove
    <2>2. /\ wire'[p].at = out /\ wire'[p].value = P!Now(out) /\ wire'[p].epoch = rebases
          /\ wire'[p].marked = pendingBase[p]
          /\ \A q \in Programs : q # p => wire'[q] = wire[q]
        BY <1>1, <2>1, PcrSent
    <2>3. wire[p].at # P!Never /\ wire[p].epoch = rebases =>
              wire[p].value = anchor[2] + (wire[p].at - anchor[1])
        BY <1>1 DEF PcrsClocked, P!Now
    <2>4. P!Now(out) = anchor[2] + (out - anchor[1])
        BY DEF P!Now
    <2>5. wire[p].at # P!Never /\ wire[p].epoch = rebases => P!Ahead(p)
        BY <1>1, <2>2, <2>3, <2>4, WireTyped DEF P!Ahead
    <2>6. wire'[p].marked <=> announced[p] > wire[p].epoch
        BY <1>1, <2>2 DEF Announcements
    <2> QED BY <2>2, <2>5, <2>6 DEF P!Linear
<1> QED BY <1>2, <1>3, <1>4 DEF SameClock, AnchorMove, BaseMove
LEMMA BegunMoves == ASSUME PacerBase, P!Next PROVE begun' = begun \/ P!Send
<1>1. CASE P!FlushDue    BY <1>1, FlushDueStep
<1>2. CASE P!Released    BY <1>2, ReleasedStep
<1>3. CASE P!Start       BY <1>3 DEF P!Start
<1>4. CASE P!Wait        BY <1>4, WaitStep DEF Kept
<1>5. CASE P!LookAgain   BY <1>5, LookAgainStep DEF Kept
<1>6. CASE P!PcrOnly     BY <1>6, PcrOnlyStep
<1>7. CASE P!PcrNotDue   BY <1>7, PcrNotDueStep DEF Kept
<1>8. CASE P!Null        BY <1>8, NullStep DEF Kept
<1>9. CASE P!CheckLate   BY <1>9, CheckLateStep DEF Kept
<1>10. CASE P!Flushed    BY <1>10, FlushedStep DEF Kept
<1>11. CASE P!PcrsSent   BY <1>11, PcrsSentStep DEF Kept
<1>12. CASE P!Send       BY <1>12
<1>13. CASE P!Space      BY <1>13, SpaceStep DEF TablesOut, TablesKept
<1>14. CASE P!Pooled     BY <1>14, PooledStep DEF TablesOut, TablesKept
<1>15. CASE P!Hold       BY <1>15, HoldStep
<1>16. CASE \E t \in PacedTracks, size \in PacedSizes, timed \in BOOLEAN : P!WriteFrame(t, size, timed)
    BY <1>16, WriteFrameStep DEF GivenOut
<1>17. CASE \E p \in Programs, b \in PacedBases : P!Signal(p, b)
    BY <1>17, SignalStep
<1>18. CASE P!WriteTrailer BY <1>18, WriteTrailerStep
<1>19. CASE P!Drained    BY <1>19, DrainedStep
<1> QED BY <1>1, <1>2, <1>3, <1>4, <1>5, <1>6, <1>7, <1>8, <1>9, <1>10, <1>11, <1>12, <1>13,
           <1>14, <1>15, <1>16, <1>17, <1>18, <1>19 DEF P!Next

LEMMA NotEarlyStep == ASSUME PacerClock, P!Next PROVE P!NotEarly
<1>1. PacerBase /\ PacerTypes /\ FramesClocked
    BY BaseParts DEF PacerClock
<1>2. CASE begun' = begun
    BY <1>2 DEF P!NotEarly
<1>3. CASE P!Send
    <2>1. P!At("send") /\ "send" \in LateStages
        BY <1>3 DEF P!Send, LateStages
    <2>2. stack # <<>> /\ P!Top.kind = "frame" /\ P!Top.stage = "send"
        BY <1>1, <2>1, FrameRuns
    <2>3. Len(stack) \in Nat \ {0} /\ P!Top = stack[Len(stack)]
        BY <1>1, <2>2, TopIs
    <2>4. FrameClocked(P!Top)
        <3>1. FrameClocked(stack[Len(stack)])
            BY <1>1, <2>3 DEF FramesClocked
        <3> QED BY <2>3, <3>1
    <2> QED BY <2>1, <2>2, <2>4 DEF FrameClocked, P!NotEarly
<1> QED BY <1>1, <1>2, <1>3, BegunMoves

LEMMA ClockBegins == ASSUME P!Init PROVE PacerClock
<1>1. PacerBase
    BY PacerBegins
<1>2. FramesClocked
    <2>1. Len(stack) = 1 /\ stack[1].kind = "tables"
        BY CallTyped DEF P!Init
    <2> QED BY <2>1 DEF FramesClocked, FrameClocked
<1>3. PcrsClocked
    BY DEF P!Init, PcrsClocked
<1>4. Announcements
    BY DEF P!Init, Announcements
<1> QED BY <1>1, <1>2, <1>3, <1>4 DEF PacerClock

LEMMA ClockStill == ASSUME PacerClock, UNCHANGED pacerVars PROVE PacerClock'
<1>1. PacerBase'
    BY BaseStill DEF PacerClock
<1>2. out' = out /\ anchor' = anchor /\ stack' = stack /\ wire' = wire /\ rebases' = rebases
      /\ pendingBase' = pendingBase /\ announced' = announced
    BY DEF pacerVars
<1>3. PacerTypes /\ FramesClocked /\ PcrsClocked /\ Announcements
    BY BaseParts DEF PacerClock
<1>4. FramesClocked'
    <2>1. ASSUME NEW i \in 1 .. Len(stack) PROVE FrameClocked(stack[i])'
        <3>1. stack'[i] = stack[i]
            BY <1>2
        <3> QED BY <3>1, <1>2, <1>3, BelowClocked
    <2> QED BY <1>2, <2>1 DEF FramesClocked
<1>5. PcrsClocked'
    BY <1>2, <1>3 DEF PcrsClocked, P!Anchored, P!Now
<1>6. Announcements'
    BY <1>2, <1>3 DEF Announcements
<1> QED BY <1>1, <1>4, <1>5, <1>6 DEF PacerClock

(* The PCRs of a paced stream (muxer.rs: cbr_maybe_pcr,                    *)
(* write_pcr_only_packet_cbr, signal_time_base_discontinuity): each is     *)
(* ahead of its program's last by just the time of the packets between,    *)
(* unless a time base was announced in between, in whichever program; and  *)
(* it is marked as breaking the clock if its own program announced a base  *)
(* since its last PCR, and only then.                                      *)
THEOREM PcrsAreAClock == AllSpec => ClockLinear
<1> DEFINE Inv == cbr => PacerClock
<1>1. AllInit => Inv
    BY ClockBegins DEF AllInit
<1>2. Inv /\ [AllNext]_allVars => Inv'
    <2> SUFFICES ASSUME Inv, [AllNext]_allVars PROVE Inv'
        OBVIOUS
    <2>1. CASE Unpaced
        BY <2>1 DEF Unpaced
    <2>2. CASE Constant
        BY <2>2, ClockStep DEF Constant
    <2>3. CASE UNCHANGED allVars
        BY <2>3, ClockStill DEF allVars
    <2> QED BY <2>1, <2>2, <2>3 DEF AllNext
<1>3. Inv /\ [AllNext]_allVars => [cbr => P!Linear]_allVars
    <2> SUFFICES ASSUME Inv, AllNext, cbr PROVE P!Linear
        OBVIOUS
    <2> QED BY LinearStep DEF AllNext, Unpaced, Constant
<1> QED BY <1>1, <1>2, <1>3, PTL DEF AllSpec, ClockLinear
------------------------------------------------------------------------------
(* What a step makes of the order of the frames.                           *)
StillAnchored == P!Anchored => P!Anchored'
SameOrder == held' = held /\ begun' = begun /\ given' = given

(* The top goes on, as the same call with as much left.                    *)
GoesOn ==
    /\ stack # <<>> /\ P!Top.kind \in {"frame", "tables"}
    /\ \E c \in PacerEntry : Swapped(c) /\ SameCall(c, P!Top)
                             /\ (P!Top.kind = "frame" => c.left = P!Top.left)
StayMove == StillAnchored /\ SameOrder /\ outcome' = outcome /\ (stack' = stack \/ GoesOn)
PopMove ==
    /\ StillAnchored /\ SameOrder /\ outcome' = outcome
    /\ stack # <<>> /\ P!Top.kind # "drain" /\ Popped
FailMove == StillAnchored /\ SameOrder /\ outcome' = "failed" /\ stack' = <<>>
SendMove ==
    /\ StillAnchored /\ held' = held /\ given' = given /\ outcome' = outcome
    /\ stack # <<>> /\ P!Top.kind = "frame" /\ SentOut
LetOutMove ==
    /\ StillAnchored /\ begun' = begun /\ given' = given /\ outcome' = outcome /\ stack # <<>>
    /\ P!Top.kind = "drain" \/ (P!Top.kind \in {"frame", "release"} /\ ~P!Flushing)
    /\ \E t \in PacedTracks : \E c \in HeldFrame : LetOut(t, c)
DrainMove ==
    /\ begun' = begun /\ given' = given /\ outcome' = outcome
    /\ stack # <<>> /\ P!Top.kind = "drain" /\ DrainEnds
HoldMove ==
    /\ StillAnchored /\ begun' = begun /\ given' = given /\ outcome' = outcome
    /\ stack # <<>> /\ P!Top.kind = "hold" /\ P!Top.track \in PacedTracks \ Video
    /\ Len(stack') = 1 /\ stack'[1].kind = "release" /\ \E f \in HeldFrame : HeldIn(f)
GivenMove == StillAnchored /\ \E t \in PacedTracks : GivenOut(t)
DrainsMove ==
    /\ StillAnchored /\ SameOrder /\ stack = <<>>
    /\ outcome # "failed" /\ outcome' # "failed"
    /\ \/ Len(stack') = 1 /\ stack'[1].kind = "drain"
       \/ Len(stack') = 2 /\ stack'[1].kind = "tables" /\ stack'[2].kind = "drain"

OrderMove == \/ StayMove \/ PopMove \/ FailMove \/ SendMove \/ LetOutMove \/ DrainMove \/ HoldMove
             \/ GivenMove \/ DrainsMove

LEMMA SameAnchored == anchor' = anchor => StillAnchored
    BY DEF StillAnchored, P!Anchored

LEMMA OnwardIsGoesOn ==
    ASSUME stack # <<>>, P!Top.kind = "frame", NEW s, Onward(s, P!Top.left)
    PROVE  GoesOn
    BY DEF Onward, GoesOn

LEMMA ProgressMoves ==
    ASSUME Progress(P!Top.left), anchor' = anchor, SameOrder, outcome' = outcome
    PROVE  OrderMove
<1>1. GoesOn
    BY OnwardIsGoesOn DEF Progress
<1> QED BY <1>1, SameAnchored DEF OrderMove, StayMove

LEMMA OrderMoves == ASSUME PacerBase, P!Next PROVE OrderMove
<1>1. CASE P!FlushDue
    <2>1. LetOutMove
        BY <1>1, FlushDueStep, SameAnchored DEF LetOutMove, SameClock, SameCaller
    <2> QED BY <2>1 DEF OrderMove
<1>2. CASE P!Released
    <2>1. PopMove
        BY <1>2, ReleasedStep, SameAnchored DEF PopMove, SameClock, SameCaller, SameOrder
    <2> QED BY <2>1 DEF OrderMove
<1>3. CASE P!Start
    <2>1. held' = held /\ begun' = begun /\ given' = given /\ outcome' = outcome /\ stack # <<>>
        BY <1>3 DEF P!Start, P!callerVars, P!At, P!Running
    <2>2. GoesOn
        BY <1>3, <2>1, StartStep, OnwardIsGoesOn
    <2>3. StillAnchored
        BY <1>3 DEF P!Start, StillAnchored, P!Anchored
    <2> QED BY <2>1, <2>2, <2>3 DEF OrderMove, StayMove, SameOrder
<1>4. CASE P!Wait
    <2>1. outcome' = outcome
        BY <1>4 DEF P!Wait
    <2> QED BY <1>4, <2>1, WaitStep, ProgressMoves DEF Kept, SameOrder
<1>5. CASE P!LookAgain
    <2>1. outcome' = outcome
        BY <1>5 DEF P!LookAgain
    <2> QED BY <1>5, <2>1, LookAgainStep, ProgressMoves DEF Kept, SameOrder
<1>6. CASE P!PcrOnly
    <2>1. held' = held /\ begun' = begun /\ SameCaller /\ (PcrOut \/ NullOut)
        BY <1>6, PcrOnlyStep
    <2>2. SameOrder /\ outcome' = outcome
        BY <2>1 DEF SameOrder, SameCaller
    <2>3. CASE PcrOut
        BY <2>2, <2>3, ProgressMoves DEF PcrOut
    <2>4. CASE NullOut
        BY <2>2, <2>4, SameAnchored DEF NullOut, SameClock, OrderMove, StayMove
    <2> QED BY <2>1, <2>3, <2>4
<1>7. CASE P!PcrNotDue
    <2>1. outcome' = outcome
        BY <1>7 DEF P!PcrNotDue
    <2> QED BY <1>7, <2>1, PcrNotDueStep, ProgressMoves DEF Kept, SameOrder
<1>8. CASE P!Null
    <2>1. outcome' = outcome
        BY <1>8 DEF P!Null
    <2> QED BY <1>8, <2>1, NullStep, ProgressMoves DEF Kept, SameOrder
<1>9. CASE P!CheckLate
    <2>1. anchor' = anchor /\ SameOrder
        BY <1>9, CheckLateStep DEF Kept, SameOrder
    <2>2. \/ Progress(P!Top.left) /\ outcome' = outcome
          \/ stack' = <<>> /\ outcome' = "failed"
        BY <1>9, CheckLateStep
    <2>3. CASE Progress(P!Top.left) /\ outcome' = outcome
        BY <2>1, <2>3, ProgressMoves
    <2>4. CASE stack' = <<>> /\ outcome' = "failed"
        BY <2>1, <2>4, SameAnchored DEF OrderMove, FailMove
    <2> QED BY <2>2, <2>3, <2>4
<1>10. CASE P!Flushed
    <2>1. outcome' = outcome
        BY <1>10 DEF P!Flushed
    <2> QED BY <1>10, <2>1, FlushedStep, ProgressMoves DEF Kept, SameOrder
<1>11. CASE P!PcrsSent
    <2>1. outcome' = outcome
        BY <1>11 DEF P!PcrsSent
    <2> QED BY <1>11, <2>1, PcrsSentStep, ProgressMoves DEF Kept, SameOrder
<1>12. CASE P!Send
    <2>1. /\ held' = held /\ SameCaller /\ P!Top.kind = "frame" /\ stack # <<>>
          /\ SentOut \/ (NullOut /\ begun' = begun)
        BY <1>12, SendStep DEF P!Send, P!At, P!Running
    <2>2. CASE SentOut
        <3>1. SendMove
            BY <2>1, <2>2, SameAnchored DEF SendMove, SentOut, SameCaller
        <3> QED BY <3>1 DEF OrderMove
    <2>3. CASE NullOut /\ begun' = begun
        BY <2>1, <2>3, SameAnchored DEF NullOut, SameClock, SameCaller, SameOrder, OrderMove, StayMove
    <2> QED BY <2>1, <2>2, <2>3
<1>13. CASE P!Space \/ P!Pooled
    <2>1. /\ stack # <<>> /\ P!Top.kind = "tables" /\ TablesKept
          /\ stack' = stack \/ Popped \/ \E s, l : TablesGoOn(s, l)
        BY <1>13, SpaceStep, PooledStep DEF TablesOut
    <2>2. StillAnchored /\ SameOrder /\ outcome' = outcome
        BY <2>1, SameAnchored DEF TablesKept, SameOrder
    <2>3. CASE stack' = stack
        BY <2>2, <2>3 DEF OrderMove, StayMove
    <2>4. CASE Popped
        BY <2>1, <2>2, <2>4 DEF OrderMove, PopMove
    <2>5. CASE \E s, l : TablesGoOn(s, l)
        <3>1. GoesOn
            BY <2>1, <2>5 DEF TablesGoOn, GoesOn
        <3> QED BY <2>2, <3>1 DEF OrderMove, StayMove
    <2> QED BY <2>1, <2>3, <2>4, <2>5
<1>15. CASE P!Hold
    <2>1. HoldMove
        BY <1>15, HoldStep, SameAnchored DEF HoldMove, SameClock, SameCaller
    <2> QED BY <2>1 DEF OrderMove
<1>16. CASE \E t \in PacedTracks, size \in PacedSizes, timed \in BOOLEAN : P!WriteFrame(t, size, timed)
    <2>1. PICK t \in PacedTracks : GivenOut(t)
        BY <1>16, WriteFrameStep
    <2> QED BY <2>1, SameAnchored DEF GivenOut, SameClock, OrderMove, GivenMove
<1>17. CASE \E p \in Programs, b \in PacedBases : P!Signal(p, b)
    <2>1. /\ stack = <<>> /\ Len(stack') = 1 /\ stack'[1].kind = "drain"
          /\ SameClock /\ held' = held /\ begun' = begun /\ given' = given /\ outcome' = outcome
        BY <1>17, SignalStep
    <2>2. outcome # "failed"
        BY <1>17 DEF P!Signal, P!Idle
    <2> QED BY <2>1, <2>2, SameAnchored DEF SameClock, SameOrder, OrderMove, DrainsMove
<1>18. CASE P!WriteTrailer
    <2>1. /\ stack = <<>> /\ Len(stack') = 2 /\ stack'[1].kind = "tables" /\ stack'[2].kind = "drain"
          /\ SameClock /\ held' = held /\ begun' = begun /\ given' = given /\ outcome' # "failed"
        BY <1>18, WriteTrailerStep
    <2>2. outcome # "failed"
        BY <1>18 DEF P!WriteTrailer, P!Idle
    <2> QED BY <2>1, <2>2, SameAnchored DEF SameClock, SameOrder, OrderMove, DrainsMove
<1>19. CASE P!Drained
    <2>1. /\ SameCaller /\ begun' = begun /\ stack # <<>> /\ P!Top.kind = "drain"
          /\ \/ SameClock /\ \E t \in PacedTracks : \E c \in HeldFrame : LetOut(t, c)
             \/ DrainEnds
        BY <1>19, DrainedStep
    <2>2. CASE DrainEnds
        BY <2>1, <2>2 DEF SameCaller, OrderMove, DrainMove
    <2>3. CASE SameClock /\ \E t \in PacedTracks : \E c \in HeldFrame : LetOut(t, c)
        <3>1. LetOutMove
            BY <2>1, <2>3, SameAnchored DEF SameClock, SameCaller, LetOutMove
        <3> QED BY <3>1 DEF OrderMove
    <2> QED BY <2>1, <2>2, <2>3
<1> QED BY <1>1, <1>2, <1>3, <1>4, <1>5, <1>6, <1>7, <1>8, <1>9, <1>10, <1>11, <1>12, <1>13,
           <1>15, <1>16, <1>17, <1>18, <1>19 DEF P!Next
------------------------------------------------------------------------------
(* What holds of the frames in any order: a call that will hold a frame    *)
(* has only tables on top of it; what is held waits for a clock that is    *)
(* anchored, and is no video; none is numbered beyond those given; and a   *)
(* call that failed has ended all.                                         *)
HoldsAlone ==
    \A i \in 1 .. Len(stack) : stack[i].kind = "hold" =>
        /\ i = 1 /\ P!Anchored
        /\ Len(stack) = 1 \/ (Len(stack) = 2 /\ stack[2].kind = "tables")
HeldLater  == \A t \in PacedTracks : held[t] # <<>> => P!Anchored /\ t \notin Video
Numbered(c) == c.kind \in {"frame", "hold"} => c.seq <= given[c.track]
Counted ==
    /\ \A t \in PacedTracks : \A s \in begun[t] : s <= given[t]
    /\ \A t \in PacedTracks : \A i \in 1 .. Len(held[t]) : held[t][i].seq <= given[t]
    /\ \A i \in 1 .. Len(stack) : Numbered(stack[i])
FailedEnds == outcome = "failed" => stack = <<>>
Settled == HoldsAlone /\ HeldLater /\ Counted /\ FailedEnds

LEMMA StackIs ==
    ASSUME PacerTypes, stack # <<>>
    PROVE  /\ Len(stack) \in Nat \ {0} /\ P!Top = stack[Len(stack)]
           /\ \A i \in 1 .. Len(stack) : stack[i] \in PacerCall /\ SoundCall(stack[i])
<1>1. stack \in Seq(PacerEntry)
    BY DEF PacerTypes
<1> QED BY <1>1, TopIs DEF PacerEntry

LEMMA SwapHolds ==
    ASSUME PacerTypes, HoldsAlone, StillAnchored, stack # <<>>, P!Top.kind # "hold",
           NEW c, Swapped(c), c.kind = P!Top.kind
    PROVE  HoldsAlone'
<1>1. Len(stack) \in Nat \ {0} /\ P!Top = stack[Len(stack)]
    BY StackIs
<1>2. /\ Len(stack') = Len(stack) /\ stack'[Len(stack)] = c
      /\ \A i \in 1 .. Len(stack) - 1 : stack'[i] = stack[i]
    BY DEF Swapped
<1>3. ASSUME NEW i \in 1 .. Len(stack), stack'[i].kind = "hold"
      PROVE  /\ i = 1 /\ P!Anchored'
             /\ Len(stack) = 1 \/ (Len(stack) = 2 /\ stack'[2].kind = "tables")
    <2>1. i \in 1 .. Len(stack) - 1 /\ stack'[i] = stack[i]
        BY <1>1, <1>2, <1>3
    <2>2. i = 1 /\ P!Anchored /\ Len(stack) = 2 /\ stack[2].kind = "tables"
        BY <1>1, <1>3, <2>1 DEF HoldsAlone
    <2>3. stack'[2].kind = "tables"
        BY <1>1, <1>2, <2>2
    <2> QED BY <2>2, <2>3 DEF StillAnchored
<1> QED BY <1>2, <1>3 DEF HoldsAlone

LEMMA NoHold ==
    ASSUME PacerTypes, HoldsAlone, stack # <<>>, P!Top.kind \notin {"hold", "tables"}
    PROVE  \A i \in 1 .. Len(stack) : stack[i].kind # "hold"
    BY StackIs DEF HoldsAlone

LEMMA PopHolds ==
    ASSUME PacerTypes, HoldsAlone, StillAnchored \/ P!Top.kind = "drain", stack # <<>>, Popped
    PROVE  HoldsAlone'
<1>1. /\ Len(stack') = Len(stack) - 1 /\ Len(stack) \in Nat \ {0}
      /\ \A i \in 1 .. Len(stack) - 1 : stack'[i] = stack[i]
    BY StackIs DEF Popped
<1>2. ASSUME NEW i \in 1 .. Len(stack) - 1, stack'[i].kind = "hold"
      PROVE  i = 1 /\ P!Anchored' /\ Len(stack) = 2
    <2>1. stack'[i] = stack[i] /\ i \in 1 .. Len(stack) /\ i < Len(stack)
        BY <1>1
    <2>2. i = 1 /\ P!Anchored /\ Len(stack) = 2
        BY <1>1, <1>2, <2>1 DEF HoldsAlone
    <2>3. StillAnchored
        <3>1. stack[i].kind = "hold"
            BY <1>2, <2>1
        <3> QED BY <2>1, <3>1, NoHold
    <2> QED BY <2>2, <2>3 DEF StillAnchored
<1> QED BY <1>1, <1>2 DEF HoldsAlone

LEMMA HoldsStayAlone ==
    ASSUME PacerBase, Settled, OrderMove PROVE HoldsAlone'
<1>1. PacerTypes /\ HoldsAlone
    BY BaseParts DEF Settled
<1>2. CASE StayMove
    <2>1. CASE stack' = stack
        BY <1>1, <1>2, <2>1 DEF StayMove, HoldsAlone, StillAnchored
    <2>2. CASE GoesOn
        <3>1. PICK c \in PacerEntry : Swapped(c) /\ SameCall(c, P!Top)
            BY <2>2 DEF GoesOn
        <3>2. c.kind = P!Top.kind /\ P!Top.kind # "hold" /\ stack # <<>>
            BY <2>2, <3>1 DEF GoesOn, SameCall
        <3> QED BY <1>1, <1>2, <3>1, <3>2, SwapHolds DEF StayMove
    <2> QED BY <1>2, <2>1, <2>2 DEF StayMove
<1>3. CASE PopMove
    BY <1>1, <1>3, PopHolds DEF PopMove
<1>4. CASE FailMove
    <2>1. Len(stack') = 0
        BY <1>4 DEF FailMove
    <2> QED BY <2>1 DEF HoldsAlone
<1>5. CASE SendMove
    <2>1. StillAnchored /\ stack # <<>> /\ P!Top.kind = "frame" /\ SentOut
        BY <1>5 DEF SendMove
    <2>2. CASE P!Top.left = 1
        BY <1>1, <2>1, <2>2, PopHolds DEF SentOut
    <2>3. CASE P!Top.left # 1
        <3>1. PICK c \in PacerEntry : Swapped(c) /\ SameCall(c, P!Top)
            BY <2>1, <2>3 DEF SentOut, Onward
        <3>2. c.kind = P!Top.kind /\ P!Top.kind # "hold"
            BY <2>1, <3>1 DEF SameCall
        <3> QED BY <1>1, <2>1, <3>1, <3>2, SwapHolds
    <2> QED BY <2>2, <2>3
<1>6. CASE LetOutMove
    <2>1. PICK t \in PacedTracks : \E c \in HeldFrame : LetOut(t, c)
        BY <1>6 DEF LetOutMove
    <2>2. PICK c \in HeldFrame : LetOut(t, c)
        BY <2>1
    <2>3. /\ Len(stack') = Len(stack) + 1 /\ stack'[Len(stack) + 1] = c
          /\ \A i \in 1 .. Len(stack) : stack'[i] = stack[i]
        BY <2>2 DEF LetOut, Pushed
    <2>4. c.kind = "frame"
        BY DEF HeldFrame
    <2>5. stack # <<>> /\ P!Top.kind \notin {"hold", "tables"}
        BY <1>6 DEF LetOutMove
    <2>6. \A i \in 1 .. Len(stack) : stack[i].kind # "hold"
        BY <1>1, <2>5, NoHold
    <2>7. \A i \in 1 .. Len(stack) + 1 : stack'[i].kind # "hold"
        <3>1. Len(stack) \in Nat
            BY <1>1 DEF PacerTypes
        <3> QED BY <2>3, <2>4, <2>6, <3>1
    <2> QED BY <2>3, <2>7 DEF HoldsAlone
<1>7. CASE DrainMove
    BY <1>1, <1>7, PopHolds DEF DrainMove, DrainEnds
<1>8. CASE HoldMove
    BY <1>8 DEF HoldMove, HoldsAlone
<1>9. CASE GivenMove
    <2>1. PICK t \in PacedTracks : GivenOut(t)
        BY <1>9 DEF GivenMove
    <2>2. /\ Len(stack') \in {1, 2} /\ (Len(stack') = 2 => stack'[2].kind = "tables")
          /\ stack'[1].kind = "hold" => P!Anchored
        BY <2>1 DEF GivenOut
    <2>3. P!Anchored => P!Anchored'
        BY <1>9 DEF GivenMove, StillAnchored
    <2> QED BY <2>2, <2>3 DEF HoldsAlone
<1>10. CASE DrainsMove
    BY <1>10 DEF DrainsMove, HoldsAlone
<1> QED BY <1>2, <1>3, <1>4, <1>5, <1>6, <1>7, <1>8, <1>9, <1>10 DEF OrderMove

LEMMA HeldStaysLater ==
    ASSUME PacerBase, Settled, OrderMove PROVE HeldLater'
<1>1. PacerTypes /\ HeldLater
    BY BaseParts DEF Settled
<1>2. ASSUME StillAnchored, held' = held PROVE HeldLater'
    BY <1>1, <1>2 DEF HeldLater, StillAnchored
<1>3. CASE StayMove \/ PopMove \/ FailMove \/ SendMove \/ DrainsMove
    BY <1>2, <1>3 DEF StayMove, PopMove, FailMove, SendMove, DrainsMove, SameOrder
<1>4. CASE GivenMove
    BY <1>2, <1>4 DEF GivenMove, GivenOut
<1>5. CASE LetOutMove
    <2>1. PICK t \in PacedTracks : \E c \in HeldFrame : LetOut(t, c)
        BY <1>5 DEF LetOutMove
    <2>2. /\ held[t] # <<>> /\ \A s \in PacedTracks : s # t => held'[s] = held[s]
        BY <2>1 DEF LetOut
    <2>3. StillAnchored
        BY <1>5 DEF LetOutMove
    <2>4. \A s \in PacedTracks : held'[s] # <<>> => held[s] # <<>>
        BY <2>2
    <2> QED BY <1>1, <2>3, <2>4 DEF HeldLater, StillAnchored
<1>6. CASE DrainMove
    <2>1. held' = held /\ (StillAnchored \/ \A t \in PacedTracks : held[t] = <<>>)
        BY <1>6, SameAnchored DEF DrainMove, DrainEnds, SameClock
    <2>2. CASE StillAnchored
        BY <1>2, <2>1, <2>2
    <2>3. CASE \A t \in PacedTracks : held[t] = <<>>
        BY <2>1, <2>3 DEF HeldLater
    <2> QED BY <2>1, <2>2, <2>3
<1>7. CASE HoldMove
    <2>1. PICK f \in HeldFrame : HeldIn(f)
        BY <1>7 DEF HoldMove
    <2> DEFINE t == f.track
    <2>2. /\ t = P!Top.track /\ \A s \in PacedTracks : s # t => held'[s] = held[s]
        BY <2>1 DEF HeldIn
    <2>3. t \in PacedTracks \ Video /\ StillAnchored /\ stack # <<>> /\ P!Top.kind = "hold"
        BY <1>7, <2>2 DEF HoldMove
    <2>4. P!Anchored
        BY <1>1, <2>3, StackIs DEF Settled, HoldsAlone
    <2> HIDE DEF t
    <2> QED BY <1>1, <2>2, <2>3, <2>4 DEF HeldLater, StillAnchored
<1> QED BY <1>3, <1>4, <1>5, <1>6, <1>7 DEF OrderMove

LEMMA FailedStaysEnded ==
    ASSUME Settled, OrderMove PROVE FailedEnds'
<1>1. FailedEnds
    BY DEF Settled
<1>2. CASE StayMove
    BY <1>1, <1>2 DEF StayMove, GoesOn, FailedEnds
<1>3. CASE ~StayMove
    BY <1>1, <1>3 DEF OrderMove, PopMove, FailMove, SendMove, LetOutMove, DrainMove, HoldMove,
                      GivenMove, GivenOut, DrainsMove, FailedEnds
<1> QED BY <1>2, <1>3
LEMMA GivenTyped ==
    ASSUME PacerTypes, NEW t \in PacedTracks
    PROVE  given[t] \in Nat /\ begun[t] \subseteq Nat /\ Len(held[t]) \in Nat
           /\ \A i \in 1 .. Len(held[t]) : held[t][i] \in HeldFrame /\ held[t][i].seq \in Nat
<1>1. given[t] \in Nat /\ begun[t] \subseteq Nat /\ held[t] \in Seq(HeldFrame)
    BY DEF PacerTypes
<1> DEFINE q == held[t]
<1>2. q \in Seq(HeldFrame)
    BY <1>1
<1> HIDE DEF q
<1>3. Len(q) \in Nat /\ \A i \in 1 .. Len(q) : q[i] \in HeldFrame
    BY <1>2, ElementOfSeq
<1>4. \A c \in HeldFrame : c.seq \in Nat
    BY DEF HeldFrame, PacerEntry, PacerCall
<1>5. \A i \in 1 .. Len(q) : q[i].seq \in Nat
    BY <1>3, <1>4
<1> QED BY <1>1, <1>3, <1>5 DEF q

(* A step that gives no frame counts the same; the calls are settled apart.*)
LEMMA CountedBy ==
    ASSUME PacerTypes, Counted, given' = given,
           \A t \in PacedTracks : \A s \in begun'[t] : s <= given[t],
           \A t \in PacedTracks : \A i \in 1 .. Len(held'[t]) : held'[t][i].seq <= given[t],
           \A i \in 1 .. Len(stack') : stack'[i].kind \in {"frame", "hold"} =>
                                           stack'[i].seq <= given[stack'[i].track]
    PROVE  Counted'
    BY DEF Counted, Numbered

LEMMA CountedSame ==
    ASSUME PacerTypes, Counted, SameOrder,
           \A i \in 1 .. Len(stack') : stack'[i].kind \in {"frame", "hold"} =>
                                           stack'[i].seq <= given[stack'[i].track]
    PROVE  Counted'
<1>1. held' = held /\ begun' = begun /\ given' = given
    BY DEF SameOrder
<1>2. /\ \A t \in PacedTracks : \A s \in begun'[t] : s <= given[t]
      /\ \A t \in PacedTracks : \A i \in 1 .. Len(held'[t]) : held'[t][i].seq <= given[t]
    BY <1>1 DEF Counted
<1> QED BY <1>1, <1>2, CountedBy

LEMMA SwapNumbered ==
    ASSUME PacerTypes, Counted, stack # <<>>, NEW c, Swapped(c), SameCall(c, P!Top),
           NEW i \in 1 .. Len(stack'), stack'[i].kind \in {"frame", "hold"}
    PROVE  stack'[i].seq <= given[stack'[i].track]
<1>1. /\ Len(stack') = Len(stack) /\ Len(stack) \in Nat \ {0} /\ stack'[Len(stack)] = c
      /\ P!Top = stack[Len(stack)]
      /\ \A j \in 1 .. Len(stack) - 1 : stack'[j] = stack[j]
    BY StackIs DEF Swapped
<1>2. CASE i = Len(stack)
    <2>1. Numbered(P!Top)
        <3>1. Numbered(stack[Len(stack)])
            BY <1>1 DEF Counted
        <3> QED BY <3>1, <1>1
    <2> QED BY <1>1, <1>2, <2>1 DEF Numbered, SameCall
<1>3. CASE i # Len(stack)
    BY <1>1, <1>3 DEF Counted, Numbered
<1> QED BY <1>2, <1>3

LEMMA PopNumbered ==
    ASSUME PacerTypes, Counted, Popped,
           NEW i \in 1 .. Len(stack'), stack'[i].kind \in {"frame", "hold"}
    PROVE  stack'[i].seq <= given[stack'[i].track]
<1>1. /\ Len(stack') = Len(stack) - 1 /\ Len(stack) \in Nat
      /\ \A j \in 1 .. Len(stack) - 1 : stack'[j] = stack[j]
    BY DEF Popped, PacerTypes
<1>2. stack'[i] = stack[i] /\ i \in 1 .. Len(stack)
    BY <1>1
<1> QED BY <1>2 DEF Counted, Numbered

LEMMA StaysCounted ==
    ASSUME PacerBase, Settled, OrderMove PROVE Counted'
<1>1. PacerTypes /\ Counted
    BY BaseParts DEF Settled
<1>2. CASE StayMove
    <2>1. CASE stack' = stack
        <3>1. \A i \in 1 .. Len(stack') : stack'[i].kind \in {"frame", "hold"} =>
                                           stack'[i].seq <= given[stack'[i].track]
            BY <1>1, <2>1 DEF Counted, Numbered
        <3> QED BY <1>1, <1>2, <3>1, CountedSame DEF StayMove
    <2>2. CASE GoesOn
        <3>1. PICK c \in PacerEntry : Swapped(c) /\ SameCall(c, P!Top)
            BY <2>2 DEF GoesOn
        <3>2. \A i \in 1 .. Len(stack') : stack'[i].kind \in {"frame", "hold"} =>
                                           stack'[i].seq <= given[stack'[i].track]
            BY <1>1, <2>2, <3>1, SwapNumbered DEF GoesOn
        <3> QED BY <1>1, <1>2, <3>2, CountedSame DEF StayMove
    <2> QED BY <1>2, <2>1, <2>2 DEF StayMove
<1>3. CASE PopMove
    <2>1. \A i \in 1 .. Len(stack') : stack'[i].kind \in {"frame", "hold"} =>
                                           stack'[i].seq <= given[stack'[i].track]
        BY <1>1, <1>3, PopNumbered DEF PopMove
    <2> QED BY <1>1, <1>3, <2>1, CountedSame DEF PopMove
<1>4. CASE FailMove
    <2>1. SameOrder /\ Len(stack') = 0
        BY <1>4 DEF FailMove
    <2> QED BY <1>1, <2>1, CountedSame
<1>5. CASE SendMove
    <2>1. /\ held' = held /\ given' = given /\ stack # <<>> /\ P!Top.kind = "frame" /\ SentOut
        BY <1>5 DEF SendMove
    <2>2. \A i \in 1 .. Len(stack') : stack'[i].kind \in {"frame", "hold"} =>
                                           stack'[i].seq <= given[stack'[i].track]
        <3>1. CASE P!Top.left = 1
            BY <1>1, <2>1, <3>1, PopNumbered DEF SentOut
        <3>2. CASE P!Top.left # 1
            <4>1. PICK c \in PacerEntry : Swapped(c) /\ SameCall(c, P!Top)
                BY <2>1, <3>2 DEF SentOut, Onward
            <4> QED BY <1>1, <2>1, <4>1, SwapNumbered
        <3> QED BY <3>1, <3>2
    <2>3. \A t \in PacedTracks : \A s \in begun'[t] : s <= given[t]
        <3>1. P!Top.seq <= given[P!Top.track]
            <4>1. Len(stack) \in Nat \ {0} /\ P!Top = stack[Len(stack)]
                BY <1>1, <2>1, StackIs
            <4>2. Numbered(stack[Len(stack)])
                BY <1>1, <4>1 DEF Counted
            <4> QED BY <2>1, <4>1, <4>2 DEF Numbered
        <3>2. \/ begun' = begun
              \/ begun' = [begun EXCEPT ![P!Top.track] = @ \cup {P!Top.seq}]
            BY <2>1 DEF SentOut
        <3>3. begun \in [PacedTracks -> SUBSET Nat] /\ \A t \in PacedTracks : \A s \in begun[t] : s <= given[t]
            BY <1>1 DEF PacerTypes, Counted
        <3> DEFINE u == P!Top.track
                   n == P!Top.seq
        <3>4. n <= given[u] /\ (begun' = begun \/ begun' = [begun EXCEPT ![u] = @ \cup {n}])
            BY <3>1, <3>2
        <3> HIDE DEF u, n
        <3> QED BY <3>3, <3>4
    <2>4. \A t \in PacedTracks : \A i \in 1 .. Len(held'[t]) : held'[t][i].seq <= given[t]
        BY <1>1, <2>1 DEF Counted
    <2> QED BY <1>1, <2>1, <2>2, <2>3, <2>4, CountedBy
<1>6. CASE LetOutMove
    <2>1. PICK t \in PacedTracks : \E c \in HeldFrame : LetOut(t, c)
        BY <1>6 DEF LetOutMove
    <2>2. PICK c \in HeldFrame : LetOut(t, c)
        BY <2>1
    <2>3. /\ Len(stack') = Len(stack) + 1 /\ stack'[Len(stack) + 1] = c /\ Len(stack) \in Nat
          /\ \A i \in 1 .. Len(stack) : stack'[i] = stack[i]
          /\ c = held[t][1] /\ c.track = t /\ begun' = begun /\ given' = given
          /\ Len(held'[t]) = Len(held[t]) - 1 /\ Len(held[t]) > 0 /\ Len(held[t]) \in Nat
          /\ \A i \in 1 .. Len(held[t]) - 1 : held'[t][i] = held[t][i + 1]
          /\ \A s \in PacedTracks : s # t => held'[s] = held[s]
        BY <1>1, <1>6, <2>2, GivenTyped, BaseParts DEF LetOut, Pushed, LetOutMove, PacerTypes
    <2>4. \A s \in PacedTracks : \A i \in 1 .. Len(held[s]) : held[s][i].seq <= given[s]
        BY <1>1 DEF Counted
    <2>5. ASSUME NEW s \in PacedTracks, NEW i \in 1 .. Len(held'[s])
          PROVE  held'[s][i].seq <= given[s]
        <3>1. CASE s = t
            <4>1. i \in 1 .. Len(held[t]) - 1 /\ i + 1 \in 1 .. Len(held[t])
                BY <2>3, <3>1
            <4> QED BY <2>3, <2>4, <3>1, <4>1
        <3>2. CASE s # t
            BY <2>3, <2>4, <3>2
        <3> QED BY <3>1, <3>2
    <2>6. ASSUME NEW i \in 1 .. Len(stack'), stack'[i].kind \in {"frame", "hold"}
          PROVE  stack'[i].seq <= given[stack'[i].track]
        <3>1. CASE i = Len(stack) + 1
            BY <2>3, <2>4, <3>1
        <3>2. CASE i # Len(stack) + 1
            <4>1. stack'[i] = stack[i] /\ i \in 1 .. Len(stack)
                BY <2>3, <3>2
            <4> QED BY <1>1, <2>6, <4>1 DEF Counted, Numbered
        <3> QED BY <3>1, <3>2
    <2>7. \A s \in PacedTracks : \A n \in begun'[s] : n <= given[s]
        BY <1>1, <2>3 DEF Counted
    <2> QED BY <1>1, <2>3, <2>5, <2>6, <2>7, CountedBy
<1>7. CASE DrainMove
    <2>1. Popped /\ SameOrder
        BY <1>7 DEF DrainMove, DrainEnds, SameOrder
    <2>2. \A i \in 1 .. Len(stack') : stack'[i].kind \in {"frame", "hold"} =>
                                           stack'[i].seq <= given[stack'[i].track]
        BY <1>1, <2>1, PopNumbered
    <2> QED BY <1>1, <2>1, <2>2, CountedSame
<1>8. CASE HoldMove
    <2>1. PICK f \in HeldFrame : HeldIn(f)
        BY <1>8 DEF HoldMove
    <2> DEFINE t == f.track
    <2>2. /\ t = P!Top.track /\ f.seq = P!Top.seq
          /\ Len(held'[t]) = Len(held[t]) + 1 /\ held'[t][Len(held[t]) + 1] = f
          /\ \A i \in 1 .. Len(held[t]) : held'[t][i] = held[t][i]
          /\ \A s \in PacedTracks : s # t => held'[s] = held[s]
        BY <2>1 DEF HeldIn
    <2>3. /\ t \in PacedTracks /\ stack # <<>> /\ P!Top.kind = "hold"
          /\ begun' = begun /\ given' = given /\ Len(stack') = 1 /\ stack'[1].kind = "release"
        BY <1>8, <2>2 DEF HoldMove
    <2>4. f.seq <= given[t]
        <3>1. Len(stack) \in Nat \ {0} /\ P!Top = stack[Len(stack)]
            BY <1>1, <2>3, StackIs
        <3>2. Numbered(stack[Len(stack)])
            BY <1>1, <3>1 DEF Counted
        <3> QED BY <2>2, <2>3, <3>1, <3>2 DEF Numbered
    <2>5. Len(held[t]) \in Nat
        BY <1>1, <2>3, GivenTyped
    <2> HIDE DEF t
    <2>6. ASSUME NEW s \in PacedTracks, NEW i \in 1 .. Len(held'[s])
          PROVE  held'[s][i].seq <= given[s]
        <3>1. \A r \in PacedTracks : \A j \in 1 .. Len(held[r]) : held[r][j].seq <= given[r]
            BY <1>1 DEF Counted
        <3>2. CASE s = t /\ i = Len(held[t]) + 1
            BY <2>2, <2>4, <3>2
        <3>3. CASE s = t /\ i # Len(held[t]) + 1
            <4>1. i \in 1 .. Len(held[t])
                BY <2>2, <2>5, <3>3
            <4> QED BY <2>2, <3>1, <3>3, <4>1
        <3>4. CASE s # t
            BY <2>2, <3>1, <3>4
        <3> QED BY <3>2, <3>3, <3>4
    <2>7. \A i \in 1 .. Len(stack') : stack'[i].kind \notin {"frame", "hold"}
        BY <2>3
    <2>8. \A s \in PacedTracks : \A n \in begun'[s] : n <= given[s]
        BY <1>1, <2>3 DEF Counted
    <2> QED BY <1>1, <2>3, <2>6, <2>7, <2>8, CountedBy
<1>9. CASE GivenMove
    <2>1. PICK t \in PacedTracks : GivenOut(t)
        BY <1>9 DEF GivenMove
    <2>2. /\ given' = [given EXCEPT ![t] = @ + 1] /\ held' = held /\ begun' = begun
          /\ Len(stack') \in {1, 2} /\ (Len(stack') = 2 => stack'[2].kind = "tables")
          /\ stack'[1].track = t /\ stack'[1].seq = given[t] + 1
        BY <2>1 DEF GivenOut
    <2>3. given'[t] = given[t] + 1 /\ \A s \in PacedTracks : given[s] \in Nat /\ given[s] <= given'[s]
          /\ given'[s] \in Nat
        BY <1>1, <2>2 DEF PacerTypes
    <2>4. ASSUME NEW s \in PacedTracks, NEW n \in begun'[s] PROVE n <= given'[s]
        <3>1. n \in begun[s] /\ n <= given[s] /\ n \in Nat
            BY <1>1, <2>2, GivenTyped DEF Counted
        <3> QED BY <2>3, <3>1
    <2>5. ASSUME NEW s \in PacedTracks, NEW i \in 1 .. Len(held'[s]) PROVE held'[s][i].seq <= given'[s]
        <3>1. held'[s][i].seq <= given[s] /\ held'[s][i].seq \in Nat
            BY <1>1, <2>2, GivenTyped DEF Counted
        <3> QED BY <2>3, <3>1
    <2>6. ASSUME NEW i \in 1 .. Len(stack'), stack'[i].kind \in {"frame", "hold"}
          PROVE  stack'[i].seq <= given'[stack'[i].track]
        BY <2>2, <2>3, <2>6
    <2> QED BY <2>4, <2>5, <2>6 DEF Counted, Numbered
<1>10. CASE DrainsMove
    <2>1. SameOrder /\ \A i \in 1 .. Len(stack') : stack'[i].kind \notin {"frame", "hold"}
        BY <1>10 DEF DrainsMove
    <2> QED BY <1>1, <2>1, CountedSame
<1> QED BY <1>2, <1>3, <1>4, <1>5, <1>6, <1>7, <1>8, <1>9, <1>10 DEF OrderMove

LEMMA StaysSettled == ASSUME PacerBase, Settled, OrderMove PROVE Settled'
    BY HoldsStayAlone, HeldStaysLater, FailedStaysEnded, StaysCounted DEF Settled
------------------------------------------------------------------------------
(* The order of the frames, while no call lets out all that is held: those *)
(* held are in the order given, after those that went out; a frame under   *)
(* way comes between them, and is the only one of its track; what is held  *)
(* of the track of the first call under way was given before it.           *)
HeldAscend == \A t \in PacedTracks : \A i, j \in 1 .. Len(held[t]) :
                  i < j => held[t][i].seq < held[t][j].seq
BegunFirst == \A t \in PacedTracks : \A i \in 1 .. Len(held[t]) : \A n \in begun[t] :
                  n < held[t][i].seq
AfterBegun(c)  == \A n \in begun[c.track] : n < c.seq \/ (n = c.seq /\ c.left < c.size)
BeforeHeld(c)  == \A j \in 1 .. Len(held[c.track]) : c.seq < held[c.track][j].seq
FramesInLine ==
    \A i \in 1 .. Len(stack) : stack[i].kind = "frame" =>
        /\ AfterBegun(stack[i]) /\ BeforeHeld(stack[i])
        /\ \A j \in 1 .. Len(stack) : stack[j].kind = "frame" /\ j # i =>
               stack[j].track # stack[i].track
FirstInLine ==
    Len(stack) > 0 /\ stack[1].kind = "frame" => held[stack[1].track] = <<>>
HoldsInLine ==
    \A i \in 1 .. Len(stack) : stack[i].kind = "hold" =>
        /\ \A n \in begun[stack[i].track] : n < stack[i].seq
        /\ \A j \in 1 .. Len(held[stack[i].track]) : held[stack[i].track][j].seq < stack[i].seq
InLine == HeldAscend /\ BegunFirst /\ FramesInLine /\ FirstInLine /\ HoldsInLine

Free == outcome # "failed" /\ ~P!Draining
PacerOrder == PacerBase /\ Settled /\ (Free => InLine)

LEMMA DrainingIs ==
    ASSUME PacerTypes
    PROVE  P!Draining <=> \E i \in 1 .. Len(stack) : stack[i].kind = "drain"
<1>1. DOMAIN stack = 1 .. Len(stack)
    BY DEF PacerTypes
<1> QED BY <1>1 DEF P!Draining

LEMMA DrainingNext ==
    ASSUME PacerTypes'
    PROVE  P!Draining' <=> \E i \in 1 .. Len(stack') : stack'[i].kind = "drain"
<1>1. DOMAIN stack' = 1 .. Len(stack')
    BY DEF PacerTypes
<1> QED BY <1>1 DEF P!Draining

LEMMA StillDraining ==
    ASSUME PacerBase, PacerBase', Settled, OrderMove, Free'
    PROVE  Free \/ DrainMove
<1>1. PacerTypes /\ PacerTypes' /\ HoldsAlone
    BY DEF PacerBase, Settled
<1>2. ASSUME NEW i \in 1 .. Len(stack), stack[i].kind = "drain",
             i \in 1 .. Len(stack') /\ stack'[i].kind = "drain"
      PROVE  FALSE
    <2>1. P!Draining' <=> \E j \in 1 .. Len(stack') : stack'[j].kind = "drain"
        BY <1>1, DrainingNext
    <2> QED BY <2>1, <1>2 DEF Free
<1> SUFFICES ASSUME ~DrainMove PROVE Free
    OBVIOUS
<1>3. outcome # "failed" \/ GivenMove \/ DrainsMove
    BY DEF OrderMove, StayMove, PopMove, FailMove, SendMove, LetOutMove, HoldMove, Free
<1>4. (GivenMove \/ DrainsMove) => Free
    <2>1. (GivenMove \/ DrainsMove) => Len(stack) = 0 /\ outcome # "failed"
        BY DEF GivenMove, GivenOut, DrainsMove, Settled
    <2> QED BY <1>1, <2>1, DrainingIs DEF Free
<1> SUFFICES ASSUME OrderMove, ~GivenMove, ~DrainsMove, outcome # "failed",
                    NEW i \in 1 .. Len(stack), stack[i].kind = "drain"
             PROVE  FALSE
    BY <1>1, <1>3, <1>4, DrainingIs DEF Free
<1>5. stack # <<>> /\ Len(stack) \in Nat \ {0} /\ P!Top = stack[Len(stack)]
    <2>1. Len(stack) # 0
        OBVIOUS
    <2>2. stack # <<>>
        BY <2>1
    <2> QED BY <1>1, <2>2, StackIs
<1>6. ASSUME P!Top.kind # "drain",
             \A j \in 1 .. Len(stack) - 1 : stack'[j] = stack[j] /\ j \in 1 .. Len(stack')
      PROVE  FALSE
    <2>1. i # Len(stack) /\ i \in 1 .. Len(stack) - 1
        BY <1>5, <1>6
    <2> QED BY <1>2, <1>6, <2>1
<1>7. CASE StayMove
    <2>1. CASE stack' = stack
        BY <1>2, <2>1
    <2>2. CASE GoesOn
        <3>1. PICK c \in PacerEntry : Swapped(c)
            BY <2>2 DEF GoesOn
        <3> QED BY <1>5, <1>6, <2>2, <3>1 DEF GoesOn, Swapped
    <2> QED BY <1>7, <2>1, <2>2 DEF StayMove
<1>8. CASE PopMove
    BY <1>5, <1>6, <1>8 DEF PopMove, Popped
<1>9. CASE FailMove
    BY <1>9 DEF FailMove, Free
<1>10. CASE SendMove
    <2>1. CASE Popped
        BY <1>5, <1>6, <1>10, <2>1 DEF SendMove, Popped
    <2>2. CASE \E l : Onward("send", l)
        <3>1. PICK c \in PacerEntry : Swapped(c)
            BY <2>2 DEF Onward
        <3> QED BY <1>5, <1>6, <1>10, <3>1 DEF SendMove, Swapped
    <2> QED BY <1>10, <2>1, <2>2 DEF SendMove, SentOut
<1>11. CASE LetOutMove
    <2>1. \E c : Pushed(c)
        BY <1>11 DEF LetOutMove, LetOut
    <2>2. Len(stack') = Len(stack) + 1 /\ \A j \in 1 .. Len(stack) : stack'[j] = stack[j]
        BY <2>1 DEF Pushed
    <2> QED BY <1>2, <1>5, <2>2
<1>12. CASE HoldMove
    <2>1. stack[Len(stack)].kind = "hold"
        BY <1>5, <1>12 DEF HoldMove
    <2>2. Len(stack) = 1
        BY <1>1, <1>5, <2>1 DEF HoldsAlone
    <2> QED BY <2>1, <2>2
<1> QED BY <1>7, <1>8, <1>9, <1>10, <1>11, <1>12 DEF OrderMove

(* A step that keeps what is held and begun, and moves the calls on.       *)
LEMMA SameInLine ==
    ASSUME PacerTypes, InLine, SameOrder, Len(stack') <= Len(stack), Len(stack') \in Nat,
           \A i \in 1 .. Len(stack') : stack'[i].kind \in {"frame", "hold"} =>
               /\ stack'[i].kind = stack[i].kind /\ stack'[i].track = stack[i].track
               /\ stack'[i].seq = stack[i].seq
               /\ stack'[i].kind = "frame" => /\ stack'[i].left = stack[i].left
                                              /\ stack'[i].size = stack[i].size
    PROVE  InLine'
<1>1. held' = held /\ begun' = begun
    BY DEF SameOrder
<1>2. HeldAscend' /\ BegunFirst'
    BY <1>1 DEF InLine, HeldAscend, BegunFirst
<1>3. \A i \in 1 .. Len(stack') : i \in 1 .. Len(stack)
    <2>1. Len(stack) \in Nat
        BY DEF PacerTypes
    <2> QED BY <2>1
<1>4. FramesInLine'
    <2> SUFFICES ASSUME NEW i \in 1 .. Len(stack'), stack'[i].kind = "frame"
                 PROVE  /\ AfterBegun(stack[i])' /\ BeforeHeld(stack[i])'
                        /\ \A j \in 1 .. Len(stack') : stack'[j].kind = "frame" /\ j # i =>
                               stack'[j].track # stack'[i].track
        BY DEF FramesInLine
    <2>1. i \in 1 .. Len(stack) /\ stack[i].kind = "frame"
        BY <1>3
    <2>2. /\ AfterBegun(stack[i]) /\ BeforeHeld(stack[i])
          /\ \A j \in 1 .. Len(stack) : stack[j].kind = "frame" /\ j # i =>
                 stack[j].track # stack[i].track
        BY <2>1 DEF InLine, FramesInLine
    <2>3. /\ stack'[i].track = stack[i].track /\ stack'[i].seq = stack[i].seq
          /\ stack'[i].left = stack[i].left /\ stack'[i].size = stack[i].size
        OBVIOUS
    <2>4. AfterBegun(stack[i])'
        BY <1>1, <2>2, <2>3 DEF AfterBegun
    <2>5. BeforeHeld(stack[i])'
        BY <1>1, <2>2, <2>3 DEF BeforeHeld
    <2>6. ASSUME NEW j \in 1 .. Len(stack'), stack'[j].kind = "frame", j # i
          PROVE  stack'[j].track # stack'[i].track
        <3>1. j \in 1 .. Len(stack) /\ stack[j].kind = "frame" /\ stack'[j].track = stack[j].track
            BY <1>3, <2>6
        <3> QED BY <2>2, <2>3, <2>6, <3>1
    <2> QED BY <2>4, <2>5, <2>6
<1>5. FirstInLine'
    <2> SUFFICES ASSUME Len(stack') > 0, stack'[1].kind = "frame"
                 PROVE  held'[stack'[1].track] = <<>>
        BY DEF FirstInLine
    <2>3. 1 \in 1 .. Len(stack')
        OBVIOUS
    <2>1. 1 \in 1 .. Len(stack) /\ stack[1].kind = "frame" /\ stack'[1].track = stack[1].track
        BY <1>3, <2>3
    <2>2. Len(stack) > 0
        BY <2>1
    <2> QED BY <1>1, <2>1, <2>2 DEF InLine, FirstInLine
<1>6. HoldsInLine'
    <2> SUFFICES ASSUME NEW i \in 1 .. Len(stack'), stack'[i].kind = "hold"
                 PROVE  /\ \A n \in begun'[stack'[i].track] : n < stack'[i].seq
                        /\ \A j \in 1 .. Len(held'[stack'[i].track]) : held'[stack'[i].track][j].seq < stack'[i].seq
        BY DEF HoldsInLine
    <2>1. i \in 1 .. Len(stack) /\ stack[i].kind = "hold" /\ stack'[i].track = stack[i].track
          /\ stack'[i].seq = stack[i].seq
        BY <1>3
    <2> QED BY <1>1, <2>1 DEF InLine, HoldsInLine
<1> QED BY <1>2, <1>4, <1>5, <1>6 DEF InLine

LEMMA GoesOnInLine ==
    ASSUME PacerTypes, InLine, SameOrder, GoesOn PROVE InLine'
<1>1. PICK c \in PacerEntry : /\ Swapped(c) /\ SameCall(c, P!Top)
                              /\ P!Top.kind = "frame" => c.left = P!Top.left
    BY DEF GoesOn
<1>2. /\ Len(stack) \in Nat \ {0} /\ P!Top = stack[Len(stack)]
      /\ Len(stack') = Len(stack) /\ stack'[Len(stack)] = c
      /\ \A i \in 1 .. Len(stack) - 1 : stack'[i] = stack[i]
    BY <1>1, StackIs DEF GoesOn, Swapped
<1>3. ASSUME NEW i \in 1 .. Len(stack'), stack'[i].kind \in {"frame", "hold"}
      PROVE  /\ stack'[i].kind = stack[i].kind /\ stack'[i].track = stack[i].track
             /\ stack'[i].seq = stack[i].seq
             /\ stack'[i].kind = "frame" => /\ stack'[i].left = stack[i].left
                                            /\ stack'[i].size = stack[i].size
    <2>1. CASE i = Len(stack)
        BY <1>1, <1>2, <2>1 DEF SameCall
    <2>2. CASE i # Len(stack)
        BY <1>2, <2>2
    <2> QED BY <2>1, <2>2
<1> QED BY <1>2, <1>3, SameInLine

LEMMA PopInLine ==
    ASSUME PacerTypes, InLine, SameOrder, Popped PROVE InLine'
<1>1. /\ Len(stack') = Len(stack) - 1 /\ Len(stack) \in Nat /\ Len(stack) > 0
      /\ \A i \in 1 .. Len(stack) - 1 : stack'[i] = stack[i]
    BY DEF Popped, PacerTypes
<1> QED BY <1>1, SameInLine

(* The first packet of a frame marks it begun.                             *)
LEMMA SendInLine ==
    ASSUME PacerBase, Settled, InLine, SendMove PROVE InLine'
<1>1. PacerTypes /\ HoldsAlone
    BY BaseParts DEF Settled
<1>2. held' = held /\ stack # <<>> /\ P!Top.kind = "frame" /\ SentOut
    BY DEF SendMove
<1> DEFINE n == Len(stack)
           t == P!Top.track
           q == P!Top.seq
<1>3. /\ n \in Nat \ {0} /\ P!Top = stack[n] /\ \A i \in 1 .. n : stack[i].kind # "hold"
      /\ P!Top \in PacerCall /\ t \in PacedTracks
    <2>1. n \in Nat \ {0} /\ P!Top = stack[n] /\ P!Top \in PacerCall /\ SoundCall(P!Top)
        BY <1>1, <1>2, StackIs
    <2>2. \A i \in 1 .. n : stack[i].kind # "hold"
        BY <1>1, <1>2, NoHold
    <2> QED BY <1>2, <2>1, <2>2 DEF SoundCall
<1>4. /\ AfterBegun(stack[n]) /\ BeforeHeld(stack[n])
      /\ \A i \in 1 .. n - 1 : stack[i].kind = "frame" =>
             /\ stack[i].track # t /\ AfterBegun(stack[i]) /\ BeforeHeld(stack[i])
    <2>1. n \in 1 .. n
        BY <1>3
    <2> QED BY <1>2, <1>3, <2>1 DEF InLine, FramesInLine
<1>5. /\ begun' = begun \/ (P!Top.left = P!Top.size /\ begun' = [begun EXCEPT ![t] = @ \cup {q}])
      /\ begun \in [PacedTracks -> SUBSET Nat]
    BY <1>1, <1>2 DEF SentOut, PacerTypes
<1>6. /\ \A s \in PacedTracks : s # t => begun'[s] = begun[s]
      /\ \A m \in begun'[t] : m \in begun[t] \/ (m = q /\ P!Top.left = P!Top.size)
    <2> HIDE DEF t, q
    <2> QED BY <1>3, <1>5
<1>7. /\ Len(stack') \in {n - 1, n} /\ \A i \in 1 .. n - 1 : stack'[i] = stack[i]
      /\ Len(stack') = n => /\ stack'[n].kind = "frame" /\ stack'[n].track = t /\ stack'[n].seq = q
                            /\ stack'[n].size = P!Top.size /\ stack'[n].left = P!Top.left - 1
    <2>1. CASE P!Top.left = 1
        <3>1. /\ Len(stack') = n - 1 /\ \A i \in 1 .. n - 1 : stack'[i] = stack[i]
            BY <1>2, <2>1 DEF SentOut, Popped
        <3> QED BY <1>3, <3>1
    <2>2. CASE P!Top.left # 1
        <3>1. PICK c \in PacerEntry : Swapped(c) /\ SameCall(c, P!Top) /\ c.left = P!Top.left - 1
            BY <1>2, <2>2 DEF SentOut, Onward
        <3> QED BY <1>2, <1>3, <3>1 DEF Swapped, SameCall
    <2> QED BY <2>1, <2>2
<1>8. q \in Nat /\ P!Top.left \in Int /\ P!Top.size \in Nat
    BY <1>3 DEF PacerCall
<1> HIDE DEF n, t, q
<1>9. HeldAscend'
    BY <1>2 DEF InLine, HeldAscend
<1>10. BegunFirst'
    <2> SUFFICES ASSUME NEW s \in PacedTracks, NEW i \in 1 .. Len(held[s]), NEW m \in begun'[s]
                 PROVE  m < held[s][i].seq
        BY <1>2 DEF BegunFirst
    <2>1. m \in begun[s] => m < held[s][i].seq
        BY DEF InLine, BegunFirst
    <2>2. CASE m \notin begun[s]
        <3>1. s = t /\ m = q
            BY <1>6, <2>2
        <3>2. q < held[t][i].seq
            BY <1>3, <1>4, <3>1 DEF BeforeHeld, t, q
        <3> QED BY <3>1, <3>2
    <2> QED BY <2>1, <2>2
<1>11. FramesInLine'
    <2> SUFFICES ASSUME NEW i \in 1 .. Len(stack'), stack'[i].kind = "frame"
                 PROVE  /\ AfterBegun(stack[i])' /\ BeforeHeld(stack[i])'
                        /\ \A j \in 1 .. Len(stack') : stack'[j].kind = "frame" /\ j # i =>
                               stack'[j].track # stack'[i].track
        BY DEF FramesInLine
    <2>1. i \in 1 .. n - 1 \/ (i = n /\ Len(stack') = n)
        BY <1>3, <1>7
    <2>2. CASE i \in 1 .. n - 1
        <3>1. stack'[i] = stack[i] /\ i \in 1 .. n
            BY <1>3, <1>7, <2>2
        <3>2. stack[i].track # t /\ AfterBegun(stack[i]) /\ BeforeHeld(stack[i])
            BY <1>4, <2>2, <3>1
        <3>3. stack[i].track \in PacedTracks
            BY <1>1, <1>2, <3>1, StackIs DEF SoundCall, n
        <3>4. begun'[stack[i].track] = begun[stack[i].track]
            BY <1>6, <3>2, <3>3
        <3>5. AfterBegun(stack[i])' /\ BeforeHeld(stack[i])'
            BY <1>2, <3>1, <3>2, <3>4 DEF AfterBegun, BeforeHeld
        <3>6. ASSUME NEW j \in 1 .. Len(stack'), stack'[j].kind = "frame", j # i
              PROVE  stack'[j].track # stack'[i].track
            <4>1. CASE j = n /\ Len(stack') = n
                BY <1>7, <3>1, <3>2, <4>1
            <4>2. CASE j \in 1 .. n - 1
                <5>1. stack'[j] = stack[j] /\ j \in 1 .. n /\ stack[j].kind = "frame"
                    BY <1>3, <1>7, <3>6, <4>2
                <5> QED BY <3>1, <3>6, <5>1 DEF InLine, FramesInLine, n
            <4> QED BY <1>3, <1>7, <4>1, <4>2
        <3> QED BY <3>5, <3>6
    <2>3. CASE i = n /\ Len(stack') = n
        <3>1. /\ stack'[i].track = t /\ stack'[i].seq = q
              /\ stack'[i].size = P!Top.size /\ stack'[i].left = P!Top.left - 1
            BY <1>7, <2>3
        <3>2. \A m \in begun[t] : m < q \/ (m = q /\ P!Top.left < P!Top.size)
            BY <1>3, <1>4 DEF AfterBegun, t, q
        <3>3. \A m \in begun'[t] : m < q \/ (m = q /\ P!Top.left - 1 < P!Top.size)
            BY <1>6, <1>8, <3>2
        <3>4. AfterBegun(stack[i])'
            BY <3>1, <3>3 DEF AfterBegun
        <3>5. \A j \in 1 .. Len(held[t]) : q < held[t][j].seq
            BY <1>3, <1>4 DEF BeforeHeld, t, q
        <3>6. BeforeHeld(stack[i])'
            BY <1>2, <3>1, <3>5 DEF BeforeHeld
        <3>7. ASSUME NEW j \in 1 .. Len(stack'), stack'[j].kind = "frame", j # i
              PROVE  stack'[j].track # stack'[i].track
            <4>1. j \in 1 .. n - 1
                BY <1>3, <1>7, <2>3, <3>7
            <4> QED BY <1>4, <1>7, <3>1, <3>7, <4>1
        <3> QED BY <3>4, <3>6, <3>7
    <2> QED BY <2>1, <2>2, <2>3
<1>12. FirstInLine'
    <2> SUFFICES ASSUME Len(stack') > 0, stack'[1].kind = "frame"
                 PROVE  held[stack'[1].track] = <<>>
        BY <1>2 DEF FirstInLine
    <2>1. stack[1].kind = "frame" /\ stack'[1].track = stack[1].track
        <3>1. CASE n = 1
            BY <1>2, <1>3, <1>7, <3>1 DEF t
        <3>2. CASE n # 1
            <4>1. 1 \in 1 .. n - 1
                BY <1>3, <3>2
            <4> QED BY <1>7, <4>1
        <3> QED BY <3>1, <3>2
    <2>2. Len(stack) > 0
        BY <1>3 DEF n
    <2> QED BY <2>1, <2>2 DEF InLine, FirstInLine
<1>13. HoldsInLine'
    <2>1. ASSUME NEW i \in 1 .. Len(stack') PROVE stack'[i].kind # "hold"
        <3>1. CASE i \in 1 .. n - 1
            <4>1. i \in 1 .. n
                BY <1>3, <3>1
            <4> QED BY <1>3, <1>7, <3>1, <4>1
        <3>2. CASE i = n /\ Len(stack') = n
            BY <1>7, <3>2
        <3> QED BY <1>3, <1>7, <3>1, <3>2
    <2> QED BY <2>1 DEF HoldsInLine
<1> QED BY <1>9, <1>10, <1>11, <1>12, <1>13 DEF InLine

(* A held frame is let out where no other that was held is on its way.     *)
LEMMA LetOutInLine ==
    ASSUME PacerBase, Settled, InLine, ~P!Draining, LetOutMove PROVE InLine'
<1>1. PacerTypes /\ HoldsAlone
    BY BaseParts DEF Settled
<1>2. PICK t \in PacedTracks : \E c \in HeldFrame : LetOut(t, c)
    BY DEF LetOutMove
<1>3. PICK c \in HeldFrame : LetOut(t, c)
    BY <1>2
<1> DEFINE n == Len(stack)
<1>4. /\ Len(stack') = n + 1 /\ stack'[n + 1] = c /\ \A i \in 1 .. n : stack'[i] = stack[i]
      /\ c = held[t][1] /\ c.track = t /\ held[t] # <<>>
      /\ Len(held'[t]) = Len(held[t]) - 1 /\ Len(held[t]) > 0
      /\ \A i \in 1 .. Len(held[t]) - 1 : held'[t][i] = held[t][i + 1]
      /\ \A s \in PacedTracks : s # t => held'[s] = held[s]
    BY <1>3 DEF LetOut, Pushed
<1>5. n \in Nat \ {0} /\ begun' = begun /\ Len(held[t]) \in Nat \ {0} /\ 1 \in 1 .. Len(held[t])
      /\ P!Top = stack[n] /\ stack # <<>>
    <2>1. stack # <<>> /\ begun' = begun
        BY DEF LetOutMove
    <2>2. Len(held[t]) \in Nat
        BY <1>1, GivenTyped
    <2> QED BY <1>1, <1>4, <2>1, <2>2, StackIs
<1>6. \A i \in 1 .. n : stack[i].kind \notin {"hold", "drain"}
    <2>1. \A i \in 1 .. n : stack[i].kind # "drain"
        BY <1>1, DrainingIs
    <2>2. P!Top.kind \notin {"hold", "tables"}
        BY DEF LetOutMove
    <2>3. \A i \in 1 .. n : stack[i].kind # "hold"
        BY <1>1, <1>5, <2>2, NoHold
    <2> QED BY <2>1, <2>3
<1>7. \A i \in 1 .. n : stack[i].kind = "frame" => i = 1
    <2>1. ~P!Flushing
        <3>1. P!Top.kind # "drain"
            BY <1>5, <1>6
        <3> QED BY <3>1 DEF LetOutMove
    <2>2. DOMAIN stack = 1 .. n
        BY <1>1 DEF PacerTypes
    <2>3. ASSUME NEW i \in 1 .. n, stack[i].kind = "frame", i # 1 PROVE FALSE
        <3>1. i \in DOMAIN stack /\ i > 1 /\ i - 1 \in 1 .. n
            BY <1>5, <2>2, <2>3
        <3>2. stack[i - 1].kind # "drain"
            BY <1>6, <3>1
        <3> QED BY <2>1, <2>3, <3>1, <3>2 DEF P!Flushing
    <2> QED BY <2>3
<1>8. c.kind = "frame" /\ c.left = c.size
    BY DEF HeldFrame
<1>9. \A s \in PacedTracks : \A i \in 1 .. Len(held'[s]) :
          \E k \in 1 .. Len(held[s]) : held'[s][i] = held[s][k] /\ (s = t => k = i + 1)
    <2> SUFFICES ASSUME NEW s \in PacedTracks, NEW i \in 1 .. Len(held'[s])
                 PROVE  \E k \in 1 .. Len(held[s]) : held'[s][i] = held[s][k] /\ (s = t => k = i + 1)
        OBVIOUS
    <2>1. CASE s = t
        <3>1. i \in 1 .. Len(held[t]) - 1 /\ i + 1 \in 1 .. Len(held[t])
            BY <1>4, <1>5, <2>1
        <3> QED BY <1>4, <2>1, <3>1
    <2>2. CASE s # t
        BY <1>4, <2>2
    <2> QED BY <2>1, <2>2
<1>10. /\ \A s \in PacedTracks : \A i, j \in 1 .. Len(held[s]) : i < j => held[s][i].seq < held[s][j].seq
       /\ \A s \in PacedTracks : \A i \in 1 .. Len(held[s]) : \A m \in begun[s] : m < held[s][i].seq
    BY DEF InLine, HeldAscend, BegunFirst
<1> HIDE DEF n
<1>11. HeldAscend'
    <2> SUFFICES ASSUME NEW s \in PacedTracks, NEW i \in 1 .. Len(held'[s]), NEW j \in 1 .. Len(held'[s]), i < j
                 PROVE  held'[s][i].seq < held'[s][j].seq
        BY DEF HeldAscend
    <2>1. CASE s = t
        <3>1. held'[s][i] = held[s][i + 1] /\ i + 1 \in 1 .. Len(held[s])
            BY <1>9, <2>1
        <3>2. held'[s][j] = held[s][j + 1] /\ j + 1 \in 1 .. Len(held[s])
            BY <1>9, <2>1
        <3>3. i + 1 < j + 1
            OBVIOUS
        <3> QED BY <1>10, <3>1, <3>2, <3>3
    <2>2. CASE s # t
        BY <1>4, <1>10, <2>2
    <2> QED BY <2>1, <2>2
<1>12. BegunFirst'
    BY <1>5, <1>9, <1>10 DEF BegunFirst
<1>13. AfterBegun(c) /\ \A j \in 1 .. Len(held'[t]) : c.seq < held'[t][j].seq
    <2>1. \A m \in begun[t] : m < c.seq
        BY <1>4, <1>5, <1>10
    <2>2. ASSUME NEW j \in 1 .. Len(held'[t]) PROVE c.seq < held'[t][j].seq
        <3>1. j + 1 \in 1 .. Len(held[t]) /\ held'[t][j] = held[t][j + 1] /\ 1 < j + 1
            BY <1>9
        <3> QED BY <1>4, <1>5, <1>10, <3>1
    <2> QED BY <1>4, <2>1, <2>2 DEF AfterBegun
<1>14. ASSUME NEW i \in 1 .. n, stack[i].kind = "frame"
       PROVE  /\ i = 1 /\ stack[i].track # t /\ stack[i].track \in PacedTracks
              /\ AfterBegun(stack[i]) /\ BeforeHeld(stack[i])
    <2>1. i = 1 /\ Len(stack) > 0
        BY <1>5, <1>7, <1>14 DEF n
    <2>2. held[stack[i].track] = <<>>
        BY <1>14, <2>1 DEF InLine, FirstInLine
    <2>3. stack[i].track \in PacedTracks
        BY <1>1, <1>5, <1>14, StackIs DEF n, SoundCall
    <2>4. AfterBegun(stack[i]) /\ BeforeHeld(stack[i])
        BY <1>14 DEF InLine, FramesInLine, n
    <2> QED BY <1>4, <2>1, <2>2, <2>3, <2>4
<1>15. FramesInLine'
    <2> SUFFICES ASSUME NEW i \in 1 .. n + 1, stack'[i].kind = "frame"
                 PROVE  /\ AfterBegun(stack[i])' /\ BeforeHeld(stack[i])'
                        /\ \A j \in 1 .. n + 1 : stack'[j].kind = "frame" /\ j # i =>
                               stack'[j].track # stack'[i].track
        BY <1>4 DEF FramesInLine
    <2>1. CASE i = n + 1
        <3>1. stack'[i] = c
            BY <1>4, <2>1
        <3>2. AfterBegun(stack[i])'
            BY <1>5, <1>13, <3>1 DEF AfterBegun
        <3>3. BeforeHeld(stack[i])'
            BY <1>4, <1>13, <3>1 DEF BeforeHeld
        <3>4. ASSUME NEW j \in 1 .. n + 1, stack'[j].kind = "frame", j # i
              PROVE  stack'[j].track # stack'[i].track
            <4>1. j \in 1 .. n /\ stack'[j] = stack[j]
                BY <1>4, <1>5, <2>1, <3>4
            <4> QED BY <1>4, <1>14, <3>1, <3>4, <4>1
        <3> QED BY <3>2, <3>3, <3>4
    <2>2. CASE i # n + 1
        <3>1. i \in 1 .. n /\ stack'[i] = stack[i]
            BY <1>4, <1>5, <2>2
        <3>2. i = 1 /\ stack[i].track # t /\ stack[i].track \in PacedTracks
              /\ AfterBegun(stack[i]) /\ BeforeHeld(stack[i])
            BY <1>14, <3>1
        <3>3. held'[stack[i].track] = held[stack[i].track]
            BY <1>4, <3>2
        <3>4. AfterBegun(stack[i])' /\ BeforeHeld(stack[i])'
            BY <1>5, <3>1, <3>2, <3>3 DEF AfterBegun, BeforeHeld
        <3>5. ASSUME NEW j \in 1 .. n + 1, stack'[j].kind = "frame", j # i
              PROVE  stack'[j].track # stack'[i].track
            <4>1. CASE j = n + 1
                BY <1>4, <3>1, <3>2, <4>1
            <4>2. CASE j # n + 1
                <5>1. j \in 1 .. n /\ stack'[j] = stack[j]
                    BY <1>4, <1>5, <4>2
                <5> QED BY <1>7, <3>2, <3>5, <5>1
            <4> QED BY <4>1, <4>2
        <3> QED BY <3>4, <3>5
    <2> QED BY <2>1, <2>2
<1>16. FirstInLine'
    <2> SUFFICES ASSUME stack'[1].kind = "frame" PROVE held'[stack'[1].track] = <<>>
        BY DEF FirstInLine
    <2>1. 1 \in 1 .. n /\ stack'[1] = stack[1]
        BY <1>4, <1>5
    <2>2. stack[1].track # t /\ stack[1].track \in PacedTracks /\ Len(stack) > 0
        BY <1>5, <1>14, <2>1 DEF n
    <2>3. held[stack[1].track] = <<>>
        BY <2>1, <2>2 DEF InLine, FirstInLine
    <2> QED BY <1>4, <2>1, <2>2, <2>3
<1>17. HoldsInLine'
    <2>1. ASSUME NEW i \in 1 .. n + 1 PROVE stack'[i].kind # "hold"
        <3>1. CASE i = n + 1
            BY <1>4, <1>8, <3>1
        <3>2. CASE i # n + 1
            BY <1>4, <1>5, <1>6, <3>2
        <3> QED BY <3>1, <3>2
    <2> QED BY <1>4, <2>1 DEF HoldsInLine
<1> QED BY <1>11, <1>12, <1>15, <1>16, <1>17 DEF InLine

(* A frame is held behind those of its track.                              *)
LEMMA HoldInLine ==
    ASSUME PacerBase, Settled, InLine, HoldMove PROVE InLine'
<1>1. PacerTypes /\ HoldsAlone
    BY BaseParts DEF Settled
<1>2. PICK f \in HeldFrame : HeldIn(f)
    BY DEF HoldMove
<1> DEFINE t == f.track
<1>3. /\ t = P!Top.track /\ f.seq = P!Top.seq
      /\ Len(held'[t]) = Len(held[t]) + 1 /\ held'[t][Len(held[t]) + 1] = f
      /\ \A i \in 1 .. Len(held[t]) : held'[t][i] = held[t][i]
      /\ \A s \in PacedTracks : s # t => held'[s] = held[s]
    BY <1>2 DEF HeldIn
<1>4. /\ t \in PacedTracks /\ stack # <<>> /\ P!Top.kind = "hold"
      /\ begun' = begun /\ Len(stack') = 1 /\ stack'[1].kind = "release"
    BY <1>3 DEF HoldMove
<1>5. Len(held[t]) \in Nat
    BY <1>1, <1>4, GivenTyped
<1>6. (\A m \in begun[t] : m < f.seq) /\ \A j \in 1 .. Len(held[t]) : held[t][j].seq < f.seq
    <2>1. Len(stack) \in Nat \ {0} /\ P!Top = stack[Len(stack)]
        BY <1>1, <1>4, StackIs
    <2> QED BY <1>3, <1>4, <2>1 DEF InLine, HoldsInLine
<1>7. /\ \A s \in PacedTracks : \A i, j \in 1 .. Len(held[s]) : i < j => held[s][i].seq < held[s][j].seq
      /\ \A s \in PacedTracks : \A i \in 1 .. Len(held[s]) : \A m \in begun[s] : m < held[s][i].seq
    BY DEF InLine, HeldAscend, BegunFirst
<1> HIDE DEF t
<1>8. HeldAscend'
    <2> SUFFICES ASSUME NEW s \in PacedTracks, NEW i \in 1 .. Len(held'[s]), NEW j \in 1 .. Len(held'[s]), i < j
                 PROVE  held'[s][i].seq < held'[s][j].seq
        BY DEF HeldAscend
    <2>1. CASE s = t
        <3>1. i \in 1 .. Len(held[t]) /\ held'[t][i] = held[t][i]
            BY <1>3, <1>5, <2>1
        <3>2. CASE j = Len(held[t]) + 1
            BY <1>3, <1>6, <2>1, <3>1, <3>2
        <3>3. CASE j # Len(held[t]) + 1
            <4>1. j \in 1 .. Len(held[t]) /\ held'[t][j] = held[t][j]
                BY <1>3, <1>5, <2>1, <3>3
            <4> QED BY <1>7, <2>1, <3>1, <4>1
        <3> QED BY <3>2, <3>3
    <2>2. CASE s # t
        BY <1>3, <1>7, <2>2
    <2> QED BY <2>1, <2>2
<1>9. BegunFirst'
    <2> SUFFICES ASSUME NEW s \in PacedTracks, NEW i \in 1 .. Len(held'[s]), NEW m \in begun[s]
                 PROVE  m < held'[s][i].seq
        BY <1>4 DEF BegunFirst
    <2>1. CASE s = t /\ i = Len(held[t]) + 1
        BY <1>3, <1>6, <2>1
    <2>2. CASE s = t /\ i # Len(held[t]) + 1
        <3>1. i \in 1 .. Len(held[t])
            BY <1>3, <1>5, <2>2
        <3> QED BY <1>3, <1>7, <2>2, <3>1
    <2>3. CASE s # t
        BY <1>3, <1>7, <2>3
    <2> QED BY <2>1, <2>2, <2>3
<1>10. FramesInLine' /\ FirstInLine' /\ HoldsInLine'
    BY <1>4 DEF FramesInLine, FirstInLine, HoldsInLine
<1> QED BY <1>8, <1>9, <1>10 DEF InLine

(* A new frame comes after all of its track.                               *)
LEMMA GivenInLine ==
    ASSUME Untimed \subseteq Video, PacerBase, Settled, InLine, GivenMove PROVE InLine'
<1>1. PacerTypes /\ HeldLater /\ Counted
    BY BaseParts DEF Settled
<1>2. PICK t \in PacedTracks : GivenOut(t)
    BY DEF GivenMove
<1>3. /\ held' = held /\ begun' = begun
      /\ Len(stack') \in {1, 2} /\ (Len(stack') = 2 => stack'[2].kind = "tables")
      /\ stack'[1].track = t /\ stack'[1].seq = given[t] + 1
      /\ stack'[1].kind = "frame" => ~P!Anchored \/ t \in Video \/ t \in Untimed
    BY <1>2 DEF GivenOut
<1>4. /\ \A m \in begun[t] : m < given[t] + 1
      /\ \A j \in 1 .. Len(held[t]) : held[t][j].seq < given[t] + 1
    BY <1>1, GivenTyped DEF Counted
<1>5. HeldAscend' /\ BegunFirst'
    BY <1>3 DEF InLine, HeldAscend, BegunFirst
<1>6. stack'[1].kind = "frame" => held[t] = <<>>
    BY <1>1, <1>3 DEF HeldLater
<1>7. \A i \in 1 .. Len(stack') : stack'[i].kind \in {"frame", "hold"} => i = 1
    BY <1>3
<1>8. FramesInLine'
    <2> SUFFICES ASSUME NEW i \in 1 .. Len(stack'), stack'[i].kind = "frame"
                 PROVE  /\ AfterBegun(stack[i])' /\ BeforeHeld(stack[i])'
                        /\ \A j \in 1 .. Len(stack') : stack'[j].kind = "frame" /\ j # i =>
                               stack'[j].track # stack'[i].track
        BY DEF FramesInLine
    <2>1. i = 1
        BY <1>7
    <2>2. stack'[i].track = t /\ stack'[i].seq = given[t] + 1 /\ Len(held[t]) = 0
        BY <1>3, <1>6, <2>1
    <2>3. AfterBegun(stack[i])'
        BY <1>3, <1>4, <2>2 DEF AfterBegun
    <2>4. BeforeHeld(stack[i])'
        BY <1>3, <2>2 DEF BeforeHeld
    <2> QED BY <1>7, <2>1, <2>3, <2>4
<1>9. FirstInLine'
    BY <1>3, <1>6 DEF FirstInLine
<1>10. HoldsInLine'
    <2> SUFFICES ASSUME NEW i \in 1 .. Len(stack'), stack'[i].kind = "hold"
                 PROVE  /\ \A n \in begun'[stack'[i].track] : n < stack'[i].seq
                        /\ \A j \in 1 .. Len(held'[stack'[i].track]) : held'[stack'[i].track][j].seq < stack'[i].seq
        BY DEF HoldsInLine
    <2>1. i = 1
        BY <1>7
    <2> QED BY <1>3, <1>4, <2>1
<1> QED BY <1>5, <1>8, <1>9, <1>10 DEF InLine

LEMMA DrainInLine == ASSUME PacerBase, DrainMove PROVE InLine'
<1>1. PacerTypes
    BY BaseParts
<1>2. /\ Popped /\ held' = held /\ \A t \in PacedTracks : held[t] = <<>>
      /\ Len(stack) = 1 \/ (Len(stack) = 2 /\ stack[1].kind = "tables")
    BY DEF DrainMove, DrainEnds
<1>3. \A i \in 1 .. Len(stack') : stack'[i].kind = "tables"
    BY <1>2 DEF Popped
<1>4. \A t \in PacedTracks : Len(held'[t]) = 0
    BY <1>2
<1>5. FramesInLine' /\ HoldsInLine'
    BY <1>3 DEF FramesInLine, HoldsInLine
<1>6. FirstInLine'
    <2>1. Len(stack') > 0 => 1 \in 1 .. Len(stack')
        BY <1>2 DEF Popped
    <2> QED BY <1>3, <2>1 DEF FirstInLine
<1>7. HeldAscend' /\ BegunFirst'
    BY <1>4 DEF HeldAscend, BegunFirst
<1> QED BY <1>5, <1>6, <1>7 DEF InLine

LEMMA OrderStep ==
    ASSUME Untimed \subseteq Video, PacerOrder, P!Next PROVE PacerOrder'
<1>1. PacerBase /\ Settled /\ PacerBase' /\ OrderMove
    BY PacerStep, OrderMoves DEF PacerOrder
<1>2. Settled'
    BY <1>1, StaysSettled
<1>3. ASSUME Free' PROVE InLine'
    <2>1. CASE DrainMove
        BY <1>1, <2>1, DrainInLine
    <2>2. CASE ~DrainMove
        <3>1. Free /\ InLine /\ PacerTypes
            BY <1>1, <1>3, <2>2, StillDraining, BaseParts DEF PacerOrder
        <3>2. CASE StayMove
            <4>1. CASE stack' = stack
                <5>1. Len(stack) \in Nat
                    BY <3>1 DEF PacerTypes
                <5>2. Len(stack') <= Len(stack) /\ Len(stack') \in Nat
                    BY <4>1, <5>1
                <5> QED BY <3>1, <3>2, <4>1, <5>2, SameInLine DEF StayMove
            <4>2. CASE GoesOn
                BY <3>1, <3>2, <4>2, GoesOnInLine DEF StayMove
            <4> QED BY <3>2, <4>1, <4>2 DEF StayMove
        <3>3. CASE PopMove
            BY <3>1, <3>3, PopInLine DEF PopMove
        <3>4. CASE FailMove
            BY <1>3, <3>4 DEF FailMove, Free
        <3>5. CASE SendMove
            BY <1>1, <3>1, <3>5, SendInLine
        <3>6. CASE LetOutMove
            BY <1>1, <3>1, <3>6, LetOutInLine DEF Free
        <3>7. CASE HoldMove
            BY <1>1, <3>1, <3>7, HoldInLine
        <3>8. CASE GivenMove
            BY <1>1, <3>1, <3>8, GivenInLine
        <3>9. CASE DrainsMove
            <4>1. \E i \in 1 .. Len(stack') : stack'[i].kind = "drain"
                BY <3>9 DEF DrainsMove
            <4>2. PacerTypes'
                BY <1>1 DEF PacerBase
            <4> QED BY <1>3, <4>1, <4>2, DrainingNext DEF Free
        <3> QED BY <1>1, <2>2, <3>2, <3>3, <3>4, <3>5, <3>6, <3>7, <3>8, <3>9 DEF OrderMove
    <2> QED BY <2>1, <2>2
<1> QED BY <1>1, <1>2, <1>3 DEF PacerOrder

LEMMA InOrderStep == ASSUME PacerOrder, P!Next PROVE ~P!Draining => P!InOrder
<1> SUFFICES ASSUME ~P!Draining, begun' # begun
             PROVE  \A s \in begun[P!Top.track] : s < P!Top.seq
    BY DEF P!InOrder
<1>1. PacerBase /\ PacerTypes /\ Settled
    BY BaseParts DEF PacerOrder
<1>2. P!Send
    BY <1>1, BegunMoves
<1>3. /\ SentOut /\ P!Top.kind = "frame" /\ stack # <<>>
    BY <1>1, <1>2, SendStep DEF P!Send, P!At, P!Running
<1>4. P!Top.left = P!Top.size
    BY <1>3 DEF SentOut
<1>5. InLine
    BY <1>1, <1>3 DEF PacerOrder, Settled, FailedEnds, Free
<1>6. Len(stack) \in Nat \ {0} /\ P!Top = stack[Len(stack)] /\ P!Top \in PacerCall
    BY <1>1, <1>3, StackIs
<1>7. AfterBegun(stack[Len(stack)])
    BY <1>3, <1>5, <1>6 DEF InLine, FramesInLine
<1>8. \A n \in begun[P!Top.track] : n < P!Top.seq \/ P!Top.left < P!Top.size
    BY <1>6, <1>7 DEF AfterBegun
<1>9. P!Top.size \in Nat
    BY <1>6 DEF PacerCall
<1> QED BY <1>4, <1>8, <1>9

LEMMA OrderBegins == ASSUME P!Init PROVE PacerOrder
<1>1. PacerBase
    BY PacerBegins
<1>2. /\ Len(stack) = 1 /\ stack[1].kind = "tables" /\ outcome = "running"
      /\ \A t \in PacedTracks : held[t] = <<>> /\ begun[t] = {} /\ given[t] = 0
    BY CallTyped DEF P!Init
<1>3. \A t \in PacedTracks : Len(held[t]) = 0
    BY <1>2
<1>4. HoldsAlone /\ HeldLater /\ FailedEnds
    BY <1>2 DEF HoldsAlone, HeldLater, FailedEnds
<1>5. Counted
    BY <1>2, <1>3 DEF Counted, Numbered
<1>6. HeldAscend /\ BegunFirst
    BY <1>3 DEF HeldAscend, BegunFirst
<1>7. FramesInLine /\ FirstInLine /\ HoldsInLine
    BY <1>2 DEF FramesInLine, FirstInLine, HoldsInLine
<1> QED BY <1>1, <1>4, <1>5, <1>6, <1>7 DEF PacerOrder, Settled, InLine

LEMMA OrderStill == ASSUME PacerOrder, UNCHANGED pacerVars PROVE PacerOrder'
<1>1. PacerBase'
    BY BaseStill DEF PacerOrder
<1>2. /\ stack' = stack /\ held' = held /\ begun' = begun /\ given' = given /\ anchor' = anchor
      /\ outcome' = outcome
    BY DEF pacerVars
<1>3. Settled'
    BY <1>2 DEF PacerOrder, Settled, HoldsAlone, HeldLater, Counted, Numbered, FailedEnds, P!Anchored
<1>4. Free' => Free
    BY <1>2 DEF Free, P!Draining
<1>5. InLine => InLine'
    BY <1>2 DEF InLine, HeldAscend, BegunFirst, FramesInLine, AfterBegun, BeforeHeld, FirstInLine, HoldsInLine
<1> QED BY <1>1, <1>3, <1>4, <1>5 DEF PacerOrder

(* The frames of a paced stream (muxer.rs: write_pes_packet,               *)
(* cbr_flush_due): no frame begins earlier than its lead before its time,  *)
(* though PCRs, tables and held frames come between; and the frames of a   *)
(* track begin in the order given, whichever call lets them out, but for   *)
(* the drain of all that is held.  A frame without a time is never held,   *)
(* so none may come without one on a track whose frames are.               *)
THEOREM FramesInTime == ASSUME Untimed \subseteq Video PROVE AllSpec => FramesOnTime
<1> DEFINE Inv == cbr => PacerClock /\ PacerOrder
<1>1. AllInit => Inv
    BY ClockBegins, OrderBegins DEF AllInit
<1>2. Inv /\ [AllNext]_allVars => Inv'
    <2> SUFFICES ASSUME Inv, [AllNext]_allVars PROVE Inv'
        OBVIOUS
    <2>1. CASE Unpaced
        BY <2>1 DEF Unpaced
    <2>2. CASE Constant
        BY <2>2, ClockStep, OrderStep DEF Constant
    <2>3. CASE UNCHANGED allVars
        BY <2>3, ClockStill, OrderStill DEF allVars
    <2> QED BY <2>1, <2>2, <2>3 DEF AllNext
<1>3. Inv /\ [AllNext]_allVars => [cbr => P!OnTime]_allVars
    <2> SUFFICES ASSUME Inv, AllNext, cbr PROVE P!OnTime
        OBVIOUS
    <2> QED BY NotEarlyStep, InOrderStep DEF AllNext, Unpaced, Constant, P!OnTime
<1> QED BY <1>1, <1>2, <1>3, PTL DEF AllSpec, FramesOnTime
=============================================================================
