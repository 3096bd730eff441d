---------------------------- MODULE ArrivalClock ----------------------------
(***************************************************************************)
(* ArrivalClock (tstd.rs): the arrival schedule analyze_tstd rebuilds from *)
(* the PCRs of a PID.  The sender's clock ticks at 27 MHz from the phase   *)
(* of its time base; between two PCRs the bytes come at an even pace, and  *)
(* over a signalled change of the time base at the pace before it.         *)
(***************************************************************************)
EXTENDS Integers, Sequences

CONSTANTS
    M,             \* TIMESTAMP_MODULUS_90KHZ
    Ratio,         \* 27 MHz ticks in one of 90 kHz, 300
    Phases,        \* the tick a time base starts from
    Gaps,          \* bytes from one PCR to the next
    Paces,         \* ticks a byte takes
    Leads,         \* 90 kHz ticks from a byte to a decode time it carries
    MaxSamples     \* bound: PCRs

(* A PCR comes before its clock has wrapped since the last (2.7.2), and a  *)
(* decode time is less than half a turn of its clock away.                 *)
PaceAssumption ==
    /\ M \in Nat \ {0} /\ Ratio \in Nat \ {0}
    /\ Phases \subseteq Nat /\ Gaps \subseteq Nat \ {0} /\ Paces \subseteq Nat \ {0}
    /\ Leads \subseteq Int
    /\ \A gap \in Gaps, pace \in Paces :
           /\ gap * pace < Ratio * M
           /\ \E g \in 0 .. M :
                  gap * pace <= g * Ratio /\ \A a \in Leads : -M < 2 * a /\ 2 * (a + g) < M

VARIABLES
    samples,       \* the PCRs: where, the raw value, whether a discontinuity was signalled
    flagged,       \* pending_discontinuity
    phase,         \* the time base of the sender
    truth          \* history: of every PCR, when it arrived and the phase it was read at

clockVars == <<samples, flagged, phase, truth>>

Modulus27 == Ratio * M                   \* PCR_MODULUS_27MHZ
Final(s) == s[Len(s)]

------------------------------------------------------------------------------
(* The sender, and pass 1 over its packets.                                *)
ClockInit ==
    /\ samples = << >> /\ flagged = FALSE /\ truth = << >>
    /\ phase \in Phases

(* A packet of the PCR PID without a PCR sets discontinuity_indicator.     *)
FlagArrives ==
    /\ ~flagged /\ samples # << >>
    /\ flagged' = TRUE
    /\ phase' \in Phases \ {phase}
    /\ UNCHANGED <<samples, truth>>

SampleAt(pos, time, disc) ==
    /\ samples' = Append(samples, [pos |-> pos, disc |-> disc,
                                   raw |-> (time + phase') % Modulus27])
    /\ truth' = Append(truth, [time |-> time, phase |-> phase'])
    /\ flagged' = FALSE

FirstPcr == samples = << >> /\ UNCHANGED phase /\ \E gap \in Gaps : SampleAt(gap, 0, flagged)

PaceBefore ==
    LET n == Len(samples)
    IN  (truth[n].time - truth[n - 1].time) \div (samples[n].pos - samples[n - 1].pos)

PcrArrives(gap, pace, disc) ==
    /\ samples # << >> /\ Len(samples) < MaxSamples
    /\ IF disc THEN phase' \in Phases \ {phase} ELSE UNCHANGED phase
    /\ (disc \/ flagged) /\ Len(samples) > 1 => pace = PaceBefore
    /\ SampleAt(Final(samples).pos + gap, Final(truth).time + gap * pace, disc \/ flagged)

ClockNext ==
    \/ FirstPcr
    \/ FlagArrives
    \/ \E gap \in Gaps, pace \in Paces, disc \in BOOLEAN : PcrArrives(gap, pace, disc)

ClockSpec == ClockInit /\ [][ClockNext]_clockVars

------------------------------------------------------------------------------
(* ArrivalClock::build.                                                    *)
Forward(ext, raw) == (raw + Modulus27 - (ext % Modulus27)) % Modulus27

(* The time of the bytes up to a PCR: what the clock went on by, or, over  *)
(* a discontinuity, what they took at the rate before it.                  *)
ElapsedByRaw(s, delta, bytes, before) == delta    \* mutant: two time bases subtracted

Elapsed(s, delta, bytes, before) ==
    IF ~s.disc THEN delta ELSE IF before.bytes = 0 THEN 0
    ELSE (bytes * before.ticks) \div before.bytes

(* time_acc, ext_pcr and prev_rate when the k-th sample is the next to     *)
(* start an interval.                                                      *)
SamplesFolded ==
    LET folded[k \in 1 .. Len(samples)] ==
            IF k = 1 THEN [time |-> 0, ext |-> samples[1].raw, ticks |-> 0, bytes |-> 0]
            ELSE LET b     == folded[k - 1]
                     s     == samples[k]
                     bytes == s.pos - samples[k - 1].pos
                     delta == Forward(b.ext, s.raw)
                 IN  [ext   |-> IF s.disc THEN s.raw ELSE b.ext + delta,
                      time  |-> b.time + Elapsed(s, delta, bytes, b),
                      ticks |-> IF s.disc THEN b.ticks ELSE delta,
                      bytes |-> IF s.disc THEN b.bytes ELSE bytes]
    IN  folded

(* The three errors build returns.                                         *)
Refused(folded) ==
    \/ Len(samples) < 2
    \/ samples[2].disc
    \/ \E k \in 2 .. Len(samples) :
           ~samples[k].disc /\ Forward(folded[k - 1].ext, samples[k].raw) = 0

IntervalUnextended(folded, k) ==      \* mutant: the PCR is not extended over a wrap
    [startPos |-> samples[k].pos, startTime |-> folded[k].time,
     ticks |-> folded[k + 1].ticks, bytes |-> folded[k + 1].bytes,
     ptsOffset |-> folded[k].time - samples[k].raw,
     pcrRef90k |-> samples[k].raw \div Ratio]

(* RateInterval: the schedule from the k-th sample on.                     *)
Interval(folded, k) ==
    [startPos |-> samples[k].pos, startTime |-> folded[k].time,
     ticks |-> folded[k + 1].ticks, bytes |-> folded[k + 1].bytes,
     ptsOffset |-> folded[k].time - folded[k].ext,
     pcrRef90k |-> folded[k].ext \div Ratio]

IntervalAt(pos) ==
    LET folded == SamplesFolded
        behind == {k \in 2 .. Len(samples) - 1 : samples[k].pos <= pos}
    IN  Interval(folded, IF behind = {} THEN 1
                         ELSE CHOOSE k \in behind : \A j \in behind : j <= k)

TimeOf(iv, pos) == iv.startTime + ((pos - iv.startPos) * iv.ticks) \div iv.bytes

Distance(a, b) == IF a >= b THEN a - b ELSE b - a

(* clock.rs, extend_near.                                                  *)
ExtendNear(raw, reference) ==
    LET epoch == reference \div M
        near  == {k * M + raw : k \in {IF epoch = 0 THEN 0 ELSE epoch - 1, epoch, epoch + 1}}
    IN  CHOOSE e \in near : \A f \in near :
            \/ Distance(e, reference) < Distance(f, reference)
            \/ Distance(e, reference) = Distance(f, reference) /\ e <= f

DecodeTimeAt(iv, raw90k) == Ratio * ExtendNear(raw90k, iv.pcrRef90k) + iv.ptsOffset

------------------------------------------------------------------------------
(* When the byte at pos truly came, and on which time base.                *)
SampleBefore(pos) ==
    LET before == {k \in 1 .. Len(samples) : samples[k].pos <= pos}
    IN  IF before = {} THEN 1 ELSE CHOOSE k \in before : \A j \in before : j <= k

TrulyAt(pos) ==
    LET k == IF pos = Final(samples).pos THEN Len(samples) - 1 ELSE SampleBefore(pos)
    IN  truth[k].time + (pos - samples[k].pos) * ((truth[k + 1].time - truth[k].time)
                                                  \div (samples[k + 1].pos - samples[k].pos))

(* The times the decode timestamps of a byte may name, on its time base:   *)
(* none before the first PCR of that base.                                 *)
DecodeTimes(k, time) ==
    LET now   == (time + truth[k].phase) \div Ratio
        first == CHOOSE j \in 1 .. k :
                     /\ j = 1 \/ samples[j].disc
                     /\ \A i \in j + 1 .. k : ~samples[i].disc
    IN  {t \in {now + a : a \in Leads} : Ratio * t >= truth[first].time + truth[first].phase}

Built == Len(samples) >= 2 /\ ~Refused(SamplesFolded)

(* Every byte between the first PCR and the last is given the time it came *)
(* at, over wraps of the PCR and changes of the time base.                 *)
ArrivalIsTrue ==
    Built => \A pos \in samples[1].pos .. Final(samples).pos :
                 TimeOf(IntervalAt(pos), pos) = TrulyAt(pos)

(* Every decode timestamp is mapped onto that clock at the time it names,  *)
(* whichever time base its packet is on and however often that has         *)
(* wrapped.                                                                *)
DecodeIsTrue ==
    Built => \A pos \in samples[1].pos .. Final(samples).pos - 1 :
                 LET k  == SampleBefore(pos)
                     iv == IntervalAt(pos)
                 IN  \A t \in DecodeTimes(k, TrulyAt(pos)) :
                         DecodeTimeAt(iv, t % M) = Ratio * t - truth[k].phase
=============================================================================
