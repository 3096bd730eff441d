----------------------------- MODULE PcrRecovery -----------------------------
(***************************************************************************)
(* PcrTracker (clock.rs): PCR recovery.  The tracker sees the packets of   *)
(* the PCR PID that arrive and their byte offsets in what arrived: it      *)
(* extrapolates the rate of two PCRs to the next and takes one that is far *)
(* off for a new time base, announced or not.  The sender spaces its PCRs  *)
(* unevenly, stamps them with a wobble, and may start a new time base at   *)
(* any of them; the channel loses packets.                                 *)
(***************************************************************************)
EXTENDS Integers

CONSTANTS
    RingSize,      \* PCR_MODULUS_27MHZ
    BytePace,      \* ticks of the clock in a packet
    Wobble,        \* a PCR is stamped at most this late
    MaxSpacing,    \* packets from one PCR to the next
    MaxJitter,     \* max_jitter_27mhz
    Jumps,         \* from one time base to the next, in ticks
    Origins,       \* the clock of the first packet
    MaxSent        \* bound: packets sent

(* The jitter window, 100 ms in the code, is wide against the wobble of    *)
(* PCRs (500 ns), by as much as the rate of two of them may carry it on,   *)
(* and narrow against the ring and against a jump from one time base to    *)
(* the next.  A packet lasts longer than a wobble.                         *)
JitterAssumption ==
    /\ {RingSize, BytePace, Wobble, MaxSpacing, MaxJitter} \subseteq Nat
    /\ Jumps \cup Origins \subseteq 0 .. RingSize - 1
    /\ 0 < Wobble /\ Wobble < BytePace /\ 0 < MaxSpacing
    /\ Wobble * (MaxSpacing + 1) <= MaxJitter
    /\ 2 * (BytePace * MaxSpacing + Wobble) < RingSize
    /\ \A jump \in Jumps :
           /\ MaxJitter + Wobble * (MaxSpacing + 1) < jump
           /\ jump < RingSize - (MaxJitter + Wobble * (MaxSpacing + 1))

VARIABLES
    clock,         \* the sender's, at the next packet
    sent,          \* packets sent
    spacing,       \* of them, since the last PCR
    offset,        \* packets that arrived
    last, prev,    \* the last PCR seen and the one before: [pcr, at] or NoPcr
    announced,     \* pending_signalled_discontinuity
    since,         \* history: what happened since the last PCR that arrived
    event          \* what observe returned last, and what had happened then

pcrVars == <<clock, sent, spacing, offset, last, prev, announced, since, event>>

NoPcr   == [pcr |-> -1, at |-> -1]
Nothing == [kind |-> "none"]

(* PCRs since the last that was reported, whether the interval before the  *)
(* last PCR was disturbed, and what disturbs the one that runs.            *)
Fresh(samples, before) ==
    [samples |-> samples, before |-> before, lost |-> FALSE, jump |-> 0, flag |-> FALSE]

RecoveryInit ==
    /\ clock \in Origins
    /\ sent = 0 /\ spacing = 0 /\ offset = 0
    /\ last = NoPcr /\ prev = NoPcr /\ announced = FALSE
    /\ since = Fresh(0, FALSE)
    /\ event = Nothing

------------------------------------------------------------------------------
Half == RingSize \div 2
DeltaTicks(a, b) ==
    LET raw == a - b
    IN  IF raw > Half THEN raw - RingSize ELSE IF raw < -Half THEN raw + RingSize ELSE raw

Quotient(a, b) == IF a < 0 THEN -((-a) \div b) ELSE a \div b     \* division of i128
Abs(n)         == IF n < 0 THEN -n ELSE n

(* compute_bitrate_bps, as packets and ticks; zero when degenerate.        *)
Bitrate(ticks, packets) ==
    IF ticks <= 0 \/ packets = 0 THEN <<0, 1>> ELSE <<packets, ticks>>

(* The delta extrapolated from the two PCRs before.                        *)
ObservedDelta(here)  == DeltaTicks(here.pcr, last.pcr)
PredictedDelta(here) ==
    Quotient(DeltaTicks(last.pcr, prev.pcr) * (here.at - last.at),
             IF last.at > prev.at THEN last.at - prev.at ELSE 1)
IsJump(here) ==
    prev # NoPcr /\ Abs(ObservedDelta(here) - PredictedDelta(here)) > MaxJitter

(* observe, of a packet with a PCR: a signal wins over the arithmetic, and *)
(* after either the rate is learnt anew.                                   *)
ReportKeeping(kind, here, truth) ==           \* mutant: the old rate is kept
    /\ event' = [kind |-> kind, truth |-> truth]
    /\ prev' = last
    /\ since' = Fresh(1, FALSE)
Report(kind, here, truth) ==
    /\ event' = [kind |-> kind, truth |-> truth]
    /\ prev' = NoPcr
    /\ since' = Fresh(1, FALSE)
Sample(here, truth) ==
    /\ event' = [kind |-> "sample", truth |-> truth,
                 rate |-> IF last = NoPcr THEN <<0, 1>>
                          ELSE Bitrate(ObservedDelta(here), here.at - last.at)]
    /\ prev' = last
    /\ since' = Fresh(IF since.samples = 0 THEN 1 ELSE 2,
                      since.samples > 0 /\ (truth.lost \/ truth.jump # 0))
Observe(here, signalled, truth) ==
    /\ IF signalled THEN Report("signalled", here, truth)
       ELSE IF IsJump(here) THEN Report("jump", here, truth)
       ELSE Sample(here, truth)
    /\ last' = here
    /\ announced' = FALSE

------------------------------------------------------------------------------
(* The sender.                                                             *)
Advance(jump, withPcr) ==
    /\ sent < MaxSent
    /\ withPcr \/ spacing + 1 < MaxSpacing
    /\ sent' = sent + 1
    /\ clock' = (clock + jump + BytePace) % RingSize
    /\ spacing' = IF withPcr THEN 0 ELSE spacing + 1
Truth(flag, jump) == [since EXCEPT !.flag = @ \/ flag, !.jump = (@ + jump) % RingSize]

(* A packet without a PCR may carry the flag already.                      *)
PlainArrives(flag) ==
    /\ Advance(0, FALSE)
    /\ offset' = offset + 1
    /\ announced' = (announced \/ flag)
    /\ since' = Truth(flag, 0)
    /\ UNCHANGED <<last, prev, event>>

PcrArrives(flag, jump, wobble) ==
    /\ Advance(jump, TRUE)
    /\ offset' = offset + 1
    /\ Observe([pcr |-> (clock + jump + wobble) % RingSize, at |-> offset],
               announced \/ flag, Truth(flag, jump))

Vanishes(flag, jump, withPcr) ==
    /\ Advance(jump, withPcr)
    /\ since' = [Truth(flag, jump) EXCEPT !.lost = TRUE]
    /\ UNCHANGED <<offset, last, prev, announced, event>>

RecoveryNext ==
    \E flag \in BOOLEAN :
        \/ PlainArrives(flag) \/ Vanishes(flag, 0, FALSE)
        \/ \E jump \in Jumps \cup {0} :
               \/ \E wobble \in 0..Wobble : PcrArrives(flag, jump, wobble)
               \/ Vanishes(flag, jump, TRUE)

------------------------------------------------------------------------------
(* A time base that is announced is reported as such, even when it changes *)
(* nothing, and on one packet only.  One that is not announced is reported *)
(* at the PCR it starts with, once two PCRs of the old one are known; and  *)
(* no wobble or uneven spacing of the PCRs is ever taken for one: only a   *)
(* loss is, or a jump that came before the rate was known.  Between PCRs   *)
(* that nothing came between, the rate is that of the stream.              *)
RecoveryIsTrue ==
    LET truth == event.truth
        known == truth.samples = 2 /\ ~truth.before
    IN  event # Nothing =>
        /\ event.kind = "signalled" => truth.flag
        /\ event.kind = "jump" => truth.before \/ truth.lost \/ truth.jump # 0
        /\ truth.flag /\ ~truth.lost => event.kind = "signalled"
        /\ known /\ truth.jump # 0 /\ ~truth.lost => event.kind # "sample"
        /\ event.kind = "sample" /\ truth.samples > 0 /\ ~truth.lost /\ truth.jump = 0 =>
               event.rate[2] - BytePace * event.rate[1] \in (-Wobble)..Wobble
=============================================================================
