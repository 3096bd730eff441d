--------------------------- MODULE DecoderBuffers ---------------------------
(***************************************************************************)
(* analyze_tstd (tstd.rs): the T-STD buffers of one elementary stream, or  *)
(* of the tables, whose packets go whole through a transport buffer into   *)
(* one that leaks all the time.                                            *)
(* Its packets arrive at ByteTicks a byte with others between them, go     *)
(* through the transport buffer at TbTicks a byte and, for video, leak     *)
(* from the multiplexing buffer at LeakTicks a byte.  Access units are     *)
(* removed at their decode times; one is known to be whole only when the   *)
(* next begins.  A transport or multiplexing buffer must be empty once a   *)
(* second, and no byte may stay longer.  Quantities are counted in units,  *)
(* of which a byte has TbTicks * LeakTicks, so that both rates are whole;  *)
(* the byte of slack of every comparison is left out.                      *)
(***************************************************************************)
EXTENDS Integers, Sequences, FiniteSets, SequencesExt

CONSTANTS
    Branches,      \* TStdBranch: "main", "video"; or "system" for SysBranch
    ByteTicks, TbTicks, LeakTicks,
    TbSize, MainSize, MbSize, EbSizes, \* in bytes
    BsysSize,      \* in bytes; it leaks SysDrain units a tick
    SysDrain,
    Second,        \* MAX_TSTD_DELAY_SECONDS, in ticks
    TsHeader,      \* bytes of a packet that are not payload
    Payloads,      \* bytes that are
    PesHeader,     \* bytes until the timestamps of a PES header are known
    Stuffings,     \* bytes of it behind them
    Tail2s,        \* ticks analyze_tstd runs on behind the last byte
    Delays,        \* ticks from the arrival of a unit to its decode time
    MaxPackets     \* bound: packets

VARIABLES
    branch,        \* which of them the stream is given
    ebSize,        \* EBSn of the second
    packets,       \* packets so far
    now,           \* the arrival time of the next
    stage,         \* "next", "drain" up to now, "feed", "last" or "done"
    coming,        \* the packet on its way
    tb,            \* FluidFifo: when it is empty, its peak, its busy stretches; history, byte
                   \* by byte: when its last one leaves, its peak, and when it was not empty
    scanner,       \* PesScanner
    openAu,        \* OpenAu, or NoAu
    inflow,        \* CumulativeIn: of the main or the multiplexing buffer, with the
                   \* units queued in all and the header_marks among them; history: by
                   \* byte, its unit, whether it counts, when it arrived and left tb
    pending,       \* the units to be removed
    buffer,        \* required, removed; for video transferred, ebIn, the clock of the leak and
                   \* the stretches MBn is busy; of Bsys its fullness and when it was
                   \* looked at, and history: its fullness byte by byte
    charges,       \* the units found incomplete or late, the overflows and the long stretches
    trail          \* history: by unit, its decode time and when its first byte arrived

bufVars == <<branch, ebSize, packets, now, stage, coming, tb, scanner, openAu, inflow,
             pending, buffer, charges, trail>>

Least(a, b) == IF a < b THEN a ELSE b
Most(a, b)  == IF a > b THEN a ELSE b

Soonest == CHOOSE d \in Delays : \A e \in Delays : d <= e
Stuffed == CHOOSE n \in Stuffings : \A m \in Stuffings : n <= m
Longest == CHOOSE n \in Payloads : \A m \in Payloads : m <= n
Byte   == TbTicks * LeakTicks
Never  == -1                      \* f64::NEG_INFINITY
NoAu   == [td |-> Never, first |-> 0, units |-> 0]
NoPacket == [kind |-> "none", bytes |-> 0, stuffing |-> 0, delay |-> 0]
NoBuffer == [required |-> 0, removed |-> 0, transferred |-> 0, ebIn |-> 0, clock |-> Never,
             busy |-> Never, longest |-> 0,
             fullness |-> 0, last |-> Never, exact |-> 0, worst |-> 0]

------------------------------------------------------------------------------
(* FluidFifo::push: n bytes arrive from s.at on and leave behind what is   *)
(* queued; the backlog is at its peak when the last one arrives.  A        *)
(* stretch is over when all has left before the next byte begins.          *)
ByByte(s, n) ==
    FoldLeft(LAMBDA bytes, i :
                 LET arrives == s.at + i * ByteTicks
                     before  == IF bytes = << >> THEN s.tb.exact ELSE Last(bytes).leaves
                 IN  Append(bytes, [arrives |-> arrives,
                                    leaves  |-> Most(Most(before, arrives - ByteTicks) + TbTicks,
                                                     arrives)]),
             << >>, [i \in 1..n |-> i])

History(old, bytes) ==
    [old EXCEPT !.exact = Last(bytes).leaves,
                !.worst = FoldLeft(LAMBDA w, b : Most(w, b.leaves - b.arrives), @, bytes)]

ThroughIdle(s, n) ==              \* mutant: what is still queued is forgotten
    LET t1    == s.at + n * ByteTicks
        to    == Most(t1, s.at + n * TbTicks)
        bytes == ByByte(s, n)
    IN  [from |-> s.at, to |-> to, at |-> t1, bytes |-> bytes,
         tb |-> [History(s.tb, bytes) EXCEPT !.done = to, !.peak = Most(@, to - t1)]]

Through(s, n) ==
    LET t1    == s.at + n * ByteTicks
        from  == Most(s.tb.done, s.at)
        to    == Most(t1, from + n * TbTicks)
        since == IF s.tb.since = Never \/ s.tb.done < s.at THEN s.at ELSE s.tb.since
        bytes == ByByte(s, n)
    IN  [from |-> from, to |-> to, at |-> t1, bytes |-> bytes,
         tb |-> [History(s.tb, bytes) EXCEPT
                     !.done = to, !.peak = Most(@, to - t1),
                     !.since = since, !.longest = Most(@, to - since),
                     !.spans = @ \cup {<<s.at, Last(bytes).leaves>>}]]

(* CumulativeIn: runs that are over are dropped as the queries go on.      *)
Settle(in, t) ==
    LET over(r) == r.t1 <= t
    IN  [in EXCEPT !.runs = SelectSeq(@, LAMBDA r : ~over(r)),
                   !.settled = FoldLeft(LAMBDA sum, r : sum + IF over(r) THEN r.units ELSE 0,
                                        @, in.runs)]

ArrivedBy(in, t) ==
    FoldLeft(LAMBDA sum, r :
                 IF r.t1 <= t THEN sum + r.units
                 ELSE IF r.t0 >= t THEN sum
                 ELSE sum + (r.units * (t - r.t0)) \div (r.t1 - r.t0),
             in.settled, in.runs)

(* When the target-th unit has arrived, on the tick; what is settled is    *)
(* forgotten.                                                              *)
TimeOfCumulative(in, target) ==
    IF target <= in.settled
    THEN IF in.runs = << >> THEN Never ELSE in.runs[1].t0
    ELSE FoldLeft(LAMBDA acc, r :
                      IF acc.time # Never \/ target > acc.sum + r.units
                      THEN [acc EXCEPT !.sum = @ + r.units]
                      ELSE [acc EXCEPT !.time = r.t1 - ((acc.sum + r.units - target)
                                                            * (r.t1 - r.t0)) \div r.units],
                  [sum |-> in.settled, time |-> Never], in.runs).time

------------------------------------------------------------------------------
(* PesScanner::feed: the classes of the payload of a packet, in order.  A  *)
(* header is sized until its timestamps are known, which are in the run    *)
(* that completes them.                                                    *)
Run(n, class, stamped) == [n |-> n, class |-> class, stamped |-> stamped]
Nothing == Run(0, "payload", FALSE)

Scanning == IF coming.kind \in {"more", "empty"} THEN scanner
            ELSE [started |-> TRUE, sizing |-> PesHeader, left |-> 0,
                  stuffing |-> coming.stuffing, stamped |-> coming.kind = "stamped"]

Classified ==
    LET s      == Scanning
        sized  == Least(s.sizing, coming.bytes)
        whole  == s.sizing > 0 /\ sized = s.sizing
        behind == IF whole THEN s.stuffing ELSE s.left
        rest   == coming.bytes - sized
        header == Least(behind, rest)
    IN  IF ~s.started THEN <<Nothing, Nothing, Nothing>>
        ELSE <<Run(sized, "header", whole /\ s.stamped), Run(header, "header", FALSE),
               Run(rest - header, "payload", FALSE)>>

ScannerAfter ==
    LET s     == Scanning
        sized == Least(s.sizing, coming.bytes)
        left  == IF s.sizing > 0 /\ sized = s.sizing THEN s.stuffing ELSE s.left
    IN  [s EXCEPT !.sizing = @ - sized, !.left = left - Least(left, coming.bytes - sized)]

------------------------------------------------------------------------------
(* The replay of a packet: its header and its runs enter the transport     *)
(* buffer one after the other; a run with a decode time closes the unit    *)
(* before it.                                                              *)
Closed(s) == IF s.au = NoAu THEN s.pending ELSE Append(s.pending, s.au)

Counted(r) == IF branch = "main" \/ r.class = "payload" THEN r.n * Byte ELSE 0

Queued(in, through, r, unit) ==
    LET units == r.n * Byte
    IN  [in EXCEPT
            !.runs = Append(@, [t0 |-> through.from, t1 |-> through.to, units |-> units]),
            !.queued = @ + units,
            !.marks = IF r.class = "header"
                      THEN Append(@, [from |-> in.queued, to |-> in.queued + units]) ELSE @,
            !.bytes = @ \o [b \in 1..r.n |-> [unit |-> unit, counted |-> Counted(r) > 0,
                                             arrives |-> through.bytes[b].arrives,
                                             leaves  |-> through.bytes[b].leaves]]]

Fed(s, r) ==
    IF r.n = 0 THEN s ELSE
    LET through == Through(s, r.n)
        started == [td |-> now + coming.delay, first |-> s.at, units |-> 0]
        au      == IF r.stamped THEN started ELSE s.au
        known   == IF r.stamped THEN Append(s.trail, [td |-> started.td, first |-> s.at])
                   ELSE s.trail
    IN  [at      |-> through.at,
         tb      |-> through.tb,
         pending |-> IF r.stamped THEN Closed(s) ELSE s.pending,
         au      |-> IF au = NoAu THEN au ELSE [au EXCEPT !.units = @ + Counted(r)],
         inflow  |-> Queued(s.inflow, through, r, Len(known)),
         trail   |-> known]

(* What of a packet comes before its payload, or all of one that has none. *)
Unscanned == TsHeader + IF coming.kind = "empty" THEN Longest ELSE 0

Feed ==
    /\ stage = "feed" /\ branch # "system"
    /\ LET header == Through([at |-> now, tb |-> tb], Unscanned)
           runs   == Classified
           s0     == [at |-> header.at, tb |-> header.tb, pending |-> pending, au |-> openAu,
                      inflow |-> inflow, trail |-> trail]
           s1     == Fed(s0, runs[1])
           s2     == Fed(s1, runs[2])
           s      == Fed(s2, runs[3])
       IN  /\ tb' = s.tb
           /\ pending' = s.pending
           /\ openAu' = s.au
           /\ inflow' = s.inflow
           /\ trail' = s.trail
    /\ scanner' = ScannerAfter
    /\ now' = now + (Unscanned + coming.bytes) * ByteTicks
    /\ coming' = NoPacket
    /\ stage' = "next"
    /\ UNCHANGED <<branch, ebSize, packets, buffer, charges>>

------------------------------------------------------------------------------
(* SysBranch::push: what has leaked since the last packet, and then what   *)
(* comes in less what leaks meanwhile.                                     *)
Bsys(through, n) ==
    LET idle   == Most(0, through.from - IF buffer.last = Never THEN through.from
                                         ELSE buffer.last)
        before == Most(0, buffer.fullness - SysDrain * idle)
    IN  Most(0, before + n * Byte - SysDrain * (through.to - through.from))

BsysByByte(n) ==
    FoldLeft(LAMBDA b, i :
                 LET left  == Last(ByByte([at |-> now, tb |-> tb], i)).leaves
                     level == Byte + IF b.at = Never THEN 0
                                     ELSE Most(0, b.level - SysDrain * (left - b.at))
                 IN  [at |-> left, level |-> level, worst |-> Most(b.worst, level)],
             [at |-> tb.exact, level |-> buffer.exact, worst |-> buffer.worst],
             [i \in 1..n |-> i])

FeedSystem ==
    /\ stage = "feed" /\ branch = "system"
    /\ LET size    == TsHeader + coming.bytes
           through == Through([at |-> now, tb |-> tb], size)
           exact   == BsysByByte(size)
       IN  /\ tb' = through.tb
           /\ buffer' = [buffer EXCEPT !.fullness = Bsys(through, size), !.last = through.to,
                                       !.exact = exact.level, !.worst = exact.worst]
           /\ charges' = charges \cup {c \in {<<"bsys overflow", Never>>} :
                                          Bsys(through, size) > BsysSize * Byte}
           /\ now' = through.at
    /\ coming' = NoPacket
    /\ stage' = "next"
    /\ UNCHANGED <<branch, ebSize, packets, scanner, openAu, inflow, pending, trail>>

------------------------------------------------------------------------------
(* Packets arrive, those of the stream and others between them; those with *)
(* an adaptation field alone go whole through the transport buffer.  The   *)
(* first payload has a decode time.  At the end the open unit is closed,   *)
(* and the transport buffer's peak and busy stretches are looked at.       *)
Arrive ==
    /\ stage = "next" /\ packets < MaxPackets
    /\ \/ /\ branch = "system"
          /\ \E bytes \in Payloads :
                 coming' = [kind |-> "plain", bytes |-> bytes, stuffing |-> 0, delay |-> 0]
          /\ stage' = "feed"
          /\ UNCHANGED now
       \/ \E kind \in {"stamped", "plain", "more"}, bytes \in Payloads, d \in Delays,
             n \in Stuffings :
              /\ branch # "system"
              /\ trail = << >> => kind = "stamped"
              /\ kind # "stamped" => d = Soonest
              /\ kind = "more" => n = Stuffed
              /\ kind = "stamped" /\ trail # << >> => now + d >= trail[Len(trail)].td
              /\ coming' = [kind |-> kind, bytes |-> bytes, stuffing |-> n, delay |-> d]
              /\ stage' = "drain"
              /\ UNCHANGED now
       \/ /\ branch # "system"
          /\ coming' = [kind |-> "empty", bytes |-> 0, stuffing |-> 0, delay |-> 0]
          /\ stage' = "drain"
          /\ UNCHANGED now
       \/ /\ now' = now + (TsHeader + Longest) * ByteTicks
          /\ UNCHANGED <<coming, stage>>
    /\ packets' = packets + 1
    /\ UNCHANGED <<branch, ebSize, tb, scanner, openAu, inflow, pending, buffer, charges,
                   trail>>

TbOverflowsFull == tb.peak >= TbSize * TbTicks   \* mutant: a full one is charged
TbOverflows == tb.peak > TbSize * TbTicks

Finish ==
    /\ stage = "next" /\ packets = MaxPackets
    /\ stage' = "last"
    /\ pending' = IF openAu = NoAu THEN pending ELSE Append(pending, openAu)
    /\ openAu' = NoAu
    /\ now' = IF branch # "video" THEN FoldLeft(LAMBDA t, au : Most(t, au.td), now, pending')
              ELSE Most(buffer.clock, 0) + inflow.queued \div TbTicks + Tail2s
    /\ charges' = charges \cup {c \in {<<"tb overflow", Never>>} : TbOverflows}
                           \cup {c \in {<<"tb busy", Never>>} : tb.longest > Second}
    /\ UNCHANGED <<branch, ebSize, packets, coming, tb, scanner, inflow, buffer, trail>>

Draining == stage \in {"drain", "last"}

(* A unit is removed at its decode time, with what there is of it.         *)
RemoveUnit(b, arrived, charged) ==
    LET au       == pending[1]
        required == b.required + au.units
    IN  /\ charges' = charges \cup charged
              \cup {c \in {<<"underflow", au.td>>} : arrived < required}
              \cup {c \in {<<"overflow", au.td>>} :
                       branch = "main" /\ arrived - b.removed > MainSize * Byte}
              \cup {c \in {<<"delay", au.td>>} : au.td - au.first > Second}
        /\ buffer' = [b EXCEPT !.required = required, !.removed = Least(required, arrived)]
        /\ pending' = Tail(pending)

(* MainBranch::drain, one access unit.                                     *)
IsDue == pending # << >> /\ pending[1].td <= now

RemoveFromMain ==
    /\ Draining /\ branch = "main" /\ IsDue
    /\ RemoveUnit(buffer, ArrivedBy(inflow, pending[1].td), {})
    /\ inflow' = Settle(inflow, pending[1].td)
    /\ UNCHANGED <<branch, ebSize, packets, now, stage, coming, tb, scanner, openAu, trail>>

------------------------------------------------------------------------------
(* VideoBranch::advance and leak_until, one turn of the loop: up to the    *)
(* decode time of the unit that is due, or up to now.                      *)
Goal     == IF IsDue THEN pending[1].td ELSE now
Leaking  == Draining /\ branch = "video" /\ buffer.clock # Never /\ buffer.clock < Goal
Room     == ebSize * Byte - (buffer.ebIn - buffer.removed)
Waiting  == ArrivedBy(inflow, buffer.clock) - buffer.transferred

(* transfer: the headers among the next n units are discarded.             *)
HeadersIn(n) ==
    LET within(m) == Least(buffer.transferred + n, m.to) - Most(buffer.transferred, m.from)
    IN  FoldLeft(LAMBDA sum, m : sum + Most(0, within(m)), 0, inflow.marks)
Transferred(b, n) == [b EXCEPT !.transferred = @ + n, !.ebIn = @ + n - HeadersIn(n)]

LeakStarts ==
    /\ Draining /\ branch = "video" /\ buffer.clock = Never
    /\ buffer' = [buffer EXCEPT !.clock = Goal]
    /\ UNCHANGED inflow

(* A turn finds MBn empty or busy; a stall is busy from its start if       *)
(* anything comes before its end.                                          *)
Stretch(fills) ==
    [buffer EXCEPT
        !.busy    = IF Waiting > 0 /\ @ # Never THEN @
                    ELSE IF Waiting > 0 \/ fills THEN buffer.clock ELSE Never,
        !.longest = IF Waiting <= 0 /\ buffer.busy # Never
                    THEN Most(@, buffer.clock - buffer.busy) ELSE @]

LeakStalls ==
    /\ Leaking /\ Room <= 0
    /\ buffer' = [Stretch(ArrivedBy(inflow, Goal) > buffer.transferred) EXCEPT !.clock = Goal]
    /\ inflow' = Settle(inflow, Goal)

PaceUnbounded(arriving) == arriving    \* mutant: the room in EBn is not asked
Pace(arriving) == Least(arriving, Room)

LeakKeepsPace ==
    /\ Leaking /\ Room > 0 /\ Waiting <= 0
    /\ LET arriving == ArrivedBy(inflow, Goal) - ArrivedBy(inflow, buffer.clock)
           take     == Pace(arriving)
           in       == Settle(inflow, Goal)
           full     == TimeOfCumulative(in, buffer.transferred + take)
       IN  /\ inflow' = in
           /\ buffer' = [Transferred(Stretch(FALSE), take) EXCEPT
                            !.clock = IF take < arriving /\ full # Never
                                      THEN Most(full, @) ELSE Goal]

LeakBacklog ==
    /\ Leaking /\ Room > 0 /\ Waiting > 0
    /\ LET take == Least(TbTicks * (Goal - buffer.clock), Least(Waiting, Room))
       IN  buffer' = [Transferred(Stretch(FALSE), take) EXCEPT
                            !.clock = @ + Most(1, take \div TbTicks)]
    /\ inflow' = Settle(inflow, buffer.clock)

Leak ==
    /\ LeakStarts \/ LeakStalls \/ LeakKeepsPace \/ LeakBacklog
    /\ UNCHANGED <<branch, ebSize, packets, now, stage, coming, tb, scanner, openAu, pending,
                   charges, trail>>

(* The end of leak_until: what waits in MBn, and since when.               *)
Overfull(t) ==
    {c \in {<<"mb overflow", Never>>} :
        ArrivedBy(inflow, t) - buffer.transferred > MbSize * Byte}
StretchTo(t) ==
    [buffer EXCEPT !.longest = IF buffer.busy = Never THEN @ ELSE Most(@, t - buffer.busy)]

RemoveFromEb ==
    /\ Draining /\ branch = "video" /\ IsDue /\ buffer.clock >= pending[1].td
    /\ RemoveUnit(StretchTo(pending[1].td), buffer.ebIn, Overfull(pending[1].td))
    /\ UNCHANGED <<branch, ebSize, packets, now, stage, coming, tb, scanner, openAu, inflow,
                   trail>>

(* At the end: what nobody removes from the main buffer, and the longest   *)
(* stretch of the multiplexing buffer.                                     *)
Hoarded ==
    {c \in {<<"overflow", now>>} :
        stage = "last" /\ inflow.queued - buffer.removed > MainSize * Byte}
BusyTooLong(b) ==
    {c \in {<<"mb busy", Never>>} : stage = "last" /\ b.longest > Second}

(* Nothing is left to do for this packet.                                  *)
Drained ==
    /\ Draining /\ ~IsDue
    /\ IF branch # "video"
       THEN charges' = charges \cup Hoarded /\ UNCHANGED buffer
       ELSE /\ buffer.clock >= now
            /\ buffer' = StretchTo(now)
            /\ charges' = charges \cup Overfull(now) \cup BusyTooLong(StretchTo(now))
    /\ stage' = IF stage = "last" THEN "done" ELSE "feed"
    /\ UNCHANGED <<branch, ebSize, packets, now, coming, tb, scanner, openAu, inflow,
                   pending, trail>>

------------------------------------------------------------------------------
BufInit ==
    /\ branch \in Branches /\ ebSize \in EbSizes
    /\ packets = 0 /\ now = 0 /\ stage = "next" /\ coming = NoPacket
    /\ tb = [done |-> Never, peak |-> 0, since |-> Never, longest |-> 0,
             exact |-> Never, worst |-> 0, spans |-> {}]
    /\ scanner = [started |-> FALSE, sizing |-> 0, left |-> 0, stuffing |-> 0, stamped |-> FALSE]
    /\ openAu = NoAu
    /\ inflow = [runs |-> << >>, settled |-> 0, queued |-> 0, marks |-> << >>,
                 bytes |-> << >>]
    /\ pending = << >> /\ buffer = NoBuffer /\ charges = {} /\ trail = << >>

BufNext == Arrive \/ Feed \/ FeedSystem \/ Finish \/ RemoveFromMain \/ Leak \/ RemoveFromEb \/ Drained
BufSpec == BufInit /\ [][BufNext]_bufVars

------------------------------------------------------------------------------
(* What is to be there when a unit is removed, and the units removed at    *)
(* the decode time of the i-th.                                            *)
Needed(i) == {b \in DOMAIN inflow.bytes : inflow.bytes[b].counted /\ inflow.bytes[b].unit <= i}
SameTime(i) == {j \in DOMAIN trail : trail[j].td = trail[i].td}
LeavesLate(i) == \E b \in Needed(i) : inflow.bytes[b].leaves > trail[i].td
Charged(what, i) == <<what, trail[i].td>> \in charges

(* Of an audio stream, the units found incomplete are those of which a     *)
(* byte left the transport buffer behind the decode time.                  *)
MainVerdict ==
    branch = "main" /\ stage = "done" =>
        \A i \in DOMAIN trail :
            Charged("underflow", i) <=> \E j \in SameTime(i) : LeavesLate(j)

(* What its main buffer holds as unit i is removed, and at the end: the    *)
(* bytes that have left the transport buffer and were not there, or not    *)
(* yet due, at a removal before.  It is found overfull if and only if it   *)
(* is, to a byte.                                                          *)
RemovedBy(b, i) == \E j \in 1..i : inflow.bytes[b].unit <= j /\ inflow.bytes[b].leaves <= trail[j].td
HeldAt(i)  == {b \in DOMAIN inflow.bytes :
                   inflow.bytes[b].leaves <= trail[i].td /\ ~RemovedBy(b, i - 1)}
LeftBehind == {b \in DOMAIN inflow.bytes : ~RemovedBy(b, Len(trail))}
RoomVerdict ==
    branch = "main" /\ stage = "done" =>
        LET held == [i \in DOMAIN trail |-> Cardinality(HeldAt(i))]
            left == Cardinality(LeftBehind)
        IN  /\ \A i \in DOMAIN trail : held[i] > MainSize => Charged("overflow", i)
            /\ left > MainSize => <<"overflow", now>> \in charges
            /\ \A i \in DOMAIN trail :
                   Charged("overflow", i) =>
                       \/ \E j \in SameTime(i) : held[j] >= MainSize
                       \/ (trail[i].td = now /\ left >= MainSize)
            /\ <<"overflow", now>> \in charges =>
                   left >= MainSize \/ \E i \in DOMAIN trail : trail[i].td = now

(* A unit is found late if its first byte came more than a second before   *)
(* its decode time, in either branch.                                      *)
DelayVerdict ==
    stage = "done" =>
        \A i \in DOMAIN trail :
            Charged("delay", i)
                <=> \E j \in SameTime(i) : trail[j].td - trail[j].first > Second

(* The transport buffer, in any branch, is found to overflow if and only   *)
(* if a byte comes to find more waiting than it has room for.              *)
TransportVerdict ==
    stage = "done" => (<<"tb overflow", Never>> \in charges <=> tb.worst > TbSize * TbTicks)

(* The longest time the transport buffer is found busy is the longest in   *)
(* which there is, tick by tick, a byte that comes in or waits.            *)
BusyVerdict ==
    LET covered(a, b) == \A t \in a .. b - 1 : \E s \in tb.spans : s[1] <= t /\ t < s[2]
        stretches     == {s[1] : s \in tb.spans} \X {s[2] : s \in tb.spans}
    IN  stage = "done" => /\ \A e \in stretches :
                                 e[2] - e[1] > tb.longest => ~covered(e[1], e[2])
                          /\ tb.spans # {} => \E e \in stretches :
                                 e[2] - e[1] = tb.longest /\ covered(e[1], e[2])
                          /\ tb.longest > Second <=> <<"tb busy", Never>> \in charges

(* The account of the system buffer, a packet at a time, is within a byte  *)
(* of the one kept byte by byte, and an overflow is found if and only if   *)
(* there is one by more than that.                                         *)
SystemVerdict ==
    branch = "system" /\ stage # "feed" =>
        /\ buffer.exact - Byte <= buffer.fullness /\ buffer.fullness <= buffer.exact + Byte
        /\ <<"bsys overflow", Never>> \in charges => buffer.worst > (BsysSize - 1) * Byte
        /\ buffer.worst > (BsysSize + 1) * Byte => <<"bsys overflow", Never>> \in charges

(* Where EBn has room for all there is, a unit of video is found           *)
(* incomplete only if a byte of it leaves the transport buffer behind its  *)
(* decode time, and always then if the next begins before; and the         *)
(* multiplexing buffer is never found overfull or busy.                    *)
VideoVerdict ==
    branch = "video" /\ stage = "done" /\ inflow.queued <= ebSize * Byte =>
        /\ \A i \in DOMAIN trail :
               Charged("underflow", i) => \E j \in SameTime(i) : LeavesLate(j)
        /\ \A i \in DOMAIN trail :
               i < Len(trail) /\ trail[i + 1].first <= trail[i].td /\ LeavesLate(i)
                   => Charged("underflow", i)
        /\ charges \cap {<<"mb overflow", Never>>, <<"mb busy", Never>>} = {}

(* A unit of video the last byte of which arrives behind its decode time   *)
(* is found incomplete.                                                    *)
LateIsCharged ==
    branch = "video" /\ stage = "done" =>
        \A i \in DOMAIN trail :
            (\E b \in Needed(i) : inflow.bytes[b].unit = i /\ inflow.bytes[b].arrives > trail[i].td)
                => Charged("underflow", i)

(* The elementary-stream buffer holds no more than it has room for, and    *)
(* nothing of what has not come.                                           *)
EbWithinBounds ==
    branch = "video" =>
        /\ Room >= 0 /\ buffer.removed <= buffer.ebIn
        /\ buffer.transferred <= ArrivedBy(inflow, Most(buffer.clock, now))
=============================================================================
