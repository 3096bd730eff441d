------------------------------ MODULE PcrSeek ------------------------------
(***************************************************************************)
(* The PCR-anchored seek of the demuxer (demuxer.rs): the two probes of    *)
(* compute_duration_micros that anchor the first and the last PCR of the   *)
(* file, and the bisection of locate_pcr_at_or_before between them.        *)
(*                                                                         *)
(* Offsets are counted in packets (the code's are multiples of the packet  *)
(* size), times in ticks of the 90 kHz base (the 27 MHz extension is left  *)
(* out).  pcr[k] is the unwrapped program clock packet k carries; the code *)
(* only sees it on the ring of M ticks.  Files are shorter than one turn   *)
(* of that ring, as pcr_ext_90k supposes, and have no time base            *)
(* discontinuity.                                                          *)
(***************************************************************************)
EXTENDS Integers

CONSTANTS
    M,              \* TIMESTAMP_MODULUS_90KHZ
    Packets,        \* length of the file
    TailWindow      \* TAIL_WINDOW, in packets

ASSUME SeekAssumption ==
    M \in Nat \ {0} /\ Packets \in Nat \ {0} /\ TailWindow \in Nat \ {0}

VARIABLES
    pcr,            \* for each packet, the clock it carries or NoPcr
    pc,             \* "open", "tail", "ready", "search", "landed" or "unseekable"
    window,         \* the tail window of the running probe
    first, last,    \* packets of first_pcr and last_pcr
    duration,       \* the span reported, in ticks
    target,         \* the time asked for
    lo, hi,         \* the bracket of the bisection
    best            \* the landing found so far

probe  == <<pcr, window, first, last, duration>>
search == <<target, lo, hi, best>>
vars   == <<pcr, pc, window, first, last, duration, target, lo, hi, best>>

NoPcr  == -1
Packet == 0 .. Packets - 1

------------------------------------------------------------------------------
(* One turn of the ring: x % M for the x below 2 * M that occur here. *)
Ring(x) == IF x < M THEN x ELSE x - M

base_90khz(k) == Ring(pcr[k])

PcrExtRaw(k) == base_90khz(k)            \* mutant: not unwrapped

(* pcr_ext_90k, of the PCR of packet k: the base of the first PCR plus the *)
(* distance from it around the ring.                                       *)
PcrExt(k) == base_90khz(first) + Ring(base_90khz(k) + M - base_90khz(first))

(* The packets from a up to b that carry a PCR: what scan_pcr_forward      *)
(* returns the first of, and scan_pcr_backward the last.                   *)
Carriers(a, b) == {k \in Packet : a <= k /\ k < b /\ pcr[k] # NoPcr}
FirstOf(S, k)  == k \in S /\ \A j \in S : k <= j
FoundFirst(S, k) == k \in S /\ \A j \in S : k <= j  \* mutant: the scan stops at the first
LastOf(S, k)   == k \in S /\ \A j \in S : j <= k

(* A clock that runs forward, over less than one turn of the ring. *)
Steady(f) ==
    \A j, k \in Packet :
        j < k /\ f[j] # NoPcr /\ f[k] # NoPcr => f[j] < f[k] /\ f[k] - f[j] < M

Files == {f \in [Packet -> {NoPcr} \cup 0 .. 2 * M - 1] : Steady(f)}

------------------------------------------------------------------------------
Init ==
    /\ pcr \in Files
    /\ pc = "open" /\ window = TailWindow
    /\ first = 0 /\ last = 0 /\ duration = 0
    /\ target = 0 /\ lo = 0 /\ hi = 0 /\ best = 0

(* compute_duration_micros, from the head: no PCR, nothing to seek by. *)
ProbeHead ==
    /\ pc = "open"
    /\ \/ /\ Packets < 2 \/ Carriers(0, Packets) = {}
          /\ pc' = "unseekable" /\ UNCHANGED first
       \/ /\ Packets >= 2
          /\ \E k \in Packet : FirstOf(Carriers(0, Packets), k) /\ first' = k
          /\ pc' = "tail"
    /\ UNCHANGED <<pcr, window, last, duration, search>>

(* From the tail: the window doubles until it holds a PCR. *)
TailStart == IF window < Packets THEN Packets - window ELSE 0

ProbeTailEmpty ==
    /\ pc = "tail" /\ Carriers(TailStart, Packets) = {}
    /\ pc' = IF TailStart = 0 THEN "unseekable" ELSE "tail"
    /\ window' = 2 * window
    /\ UNCHANGED <<pcr, first, last, duration, search>>

Span(k) == Ring(base_90khz(k) + M - base_90khz(first))     \* pcr_span_27mhz

ProbeTailFound ==
    /\ pc = "tail"
    /\ \E k \in Packet :
          /\ LastOf(Carriers(TailStart, Packets), k)
          /\ IF k <= first
             THEN pc' = "unseekable" /\ UNCHANGED <<last, duration>>
             ELSE pc' = "ready" /\ last' = k /\ duration' = Span(k)
    /\ UNCHANGED <<pcr, window, first, search>>

(* locate_pcr_at_or_before up to its loop: a target outside the anchors    *)
(* lands on one of them.                                                   *)
Seek(t) ==
    /\ pc \in {"ready", "landed"}
    /\ target' = t
    /\ lo' = first /\ hi' = last
    /\ IF t <= PcrExt(first) THEN pc' = "landed" /\ best' = first
       ELSE IF t >= PcrExt(last) THEN pc' = "landed" /\ best' = last
       ELSE pc' = "search" /\ best' = first
    /\ UNCHANGED probe

(* One turn of the loop: the first PCR of the upper half decides. *)
Mid == lo + (hi - lo) \div 2

BisectSparse ==
    /\ pc = "search" /\ hi - lo > 1
    /\ Carriers(Mid, hi) = {}
    /\ hi' = Mid
    /\ UNCHANGED <<probe, pc, target, lo, best>>

BisectBelow ==
    /\ pc = "search" /\ hi - lo > 1
    /\ \E k \in Packet :
          /\ FirstOf(Carriers(Mid, hi), k)
          /\ PcrExt(k) <= target
          /\ best' = k /\ lo' = k + 1
    /\ UNCHANGED <<probe, pc, target, hi>>

BisectAbovePast ==               \* mutant: hi passes the PCR it found
    /\ pc = "search" /\ hi - lo > 1
    /\ \E k \in Packet :
          /\ FirstOf(Carriers(Mid, hi), k)
          /\ PcrExt(k) > target
          /\ hi' = k + 1
    /\ UNCHANGED <<probe, pc, target, lo, best>>

BisectAbove ==
    /\ pc = "search" /\ hi - lo > 1
    /\ \E k \in Packet :
          /\ FirstOf(Carriers(Mid, hi), k)
          /\ PcrExt(k) > target
          /\ hi' = k
    /\ UNCHANGED <<probe, pc, target, lo, best>>

Land ==
    /\ pc = "search" /\ hi - lo <= 1
    /\ pc' = "landed"
    /\ UNCHANGED <<probe, search>>

Probe  == ProbeHead \/ ProbeTailEmpty \/ ProbeTailFound
Bisect == BisectSparse \/ BisectBelow \/ BisectAbove \/ Land

Next == Probe \/ Bisect \/ \E t \in 0 .. 2 * M : Seek(t)

Spec == Init /\ [][Next]_vars /\ WF_vars(Probe) /\ WF_vars(Bisect)

------------------------------------------------------------------------------
TypeOK ==
    /\ pcr \in Files
    /\ pc \in {"open", "tail", "ready", "search", "landed", "unseekable"}
    /\ window \in Nat \ {0}
    /\ first \in Packet /\ last \in Packet /\ best \in Packet
    /\ duration \in 0 .. M - 1
    /\ target \in Nat
    /\ lo \in 0 .. Packets /\ hi \in 0 .. Packets

Seekable == pc \in {"ready", "search", "landed"}

(* The anchors are the first and the last PCR of the file, whichever tail  *)
(* window found the last one.                                              *)
Anchored ==
    /\ pc \in {"tail", "ready", "search", "landed"} => FirstOf(Carriers(0, Packets), first)
    /\ Seekable => LastOf(Carriers(0, Packets), last)

(* The loop invariant of the bisection: best does not overshoot, lo is at  *)
(* best or just after it, and every PCR from hi on is past the target.     *)
Bracket ==
    pc = "search" =>
        /\ lo <= hi /\ lo \in {best, best + 1}
        /\ best \in Carriers(0, Packets) /\ PcrExt(best) <= target
        /\ \A k \in Carriers(hi, Packets) : PcrExt(k) > target

(* compute_duration_micros reports the time that passes between the first  *)
(* and the last PCR of the file, across a turn of the ring as well.        *)
DurationIsExact ==
    Seekable =>
        /\ \A j, k \in Carriers(0, Packets) : pcr[k] - pcr[j] <= duration
        /\ \E j, k \in Carriers(0, Packets) : pcr[k] - pcr[j] = duration

(* seek_by_pcr lands at or before the target, on the program clock; a      *)
(* target before the head lands on the head.                               *)
Elapsed(k) == base_90khz(first) + (pcr[k] - pcr[first])

NeverOvershoots ==
    pc = "landed" =>
        /\ best \in Carriers(0, Packets)
        /\ Elapsed(best) <= target \/ best = first

(* Between the landing and the target there is no PCR, unless it stands in *)
(* the very packet after the landing.                                      *)
LandsNext ==
    pc = "landed" => \A k \in Carriers(best + 2, Packets) : Elapsed(k) > target

(* The two together: what seek_by_pcr promises of where it lands.          *)
LandingIsExact == NeverOvershoots /\ LandsNext

(* Each turn of the loop narrows the bracket and leaves lo at or below hi: *)
(* the loop ends, and its u64 subtraction hi - lo never wraps.             *)
NarrowsStep == pc = "search" /\ pc' = "search" => lo' <= hi' /\ hi' + lo < hi + lo'
Narrows == [][NarrowsStep]_vars
==============================================================================
