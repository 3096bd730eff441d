-------------------------------- MODULE Pacer --------------------------------
(***************************************************************************)
(* The muxer with a mux rate (muxer.rs CbrState): the bytes written are    *)
(* the clock, so null packets pass the time until a frame is due, audio is *)
(* held until shortly before it is decoded and let out between or ahead of *)
(* video, PCRs are sent as the clock demands, and the transport buffers of *)
(* the receiver are kept from overflowing.                                 *)
(*                                                                         *)
(* The unit of time is a packet on the wire; of a buffer, a part of one.   *)
(* Calls nest: a frame on its way may be interrupted by held ones, so the  *)
(* calls under way are a stack, of which the top takes the steps.          *)
(***************************************************************************)
EXTENDS Integers, Sequences, FiniteSets, SequencesExt, FiniteSetsExt

CONSTANTS
    Tracks, Video, Programs,
    ProgramOf, PcrTrack,        \* by track, by program
    Paced,                      \* the tracks whose transport buffer's drain is known
    VideoLead, AudioLead, PcrInterval,
    Load, Bucket, Pool,         \* a packet; a transport buffer; the system buffer
    Drain, PoolDrain,           \* what leaves them in the time of a packet
    Tables, PsiInterval,        \* packets of the tables
    Sizes, Gap, Skew,           \* frames: packets, the time between them, and how far
                                \* the tracks given may be from the order of time
    Untimed,                    \* tracks with frames without times
    Bases, MaxFrames, MaxRebases

VARIABLES
    out, anchor,                \* bytes_out and anchor
    pcrAt,                      \* last_pcr_bytes
    tb, bsys, held,
    pendingDiscontinuity, lastPsi,
    stack,                      \* the calls under way
    given,                      \* frames given, by track
    base, rebases,              \* the time base of the frames, by program
    announced,                  \* history: each program's last new base, counted
    wire,                       \* history: each program's last PCR
    fill,                       \* history: what the transport buffers hold
    sent,                       \* history: frames begun, by track
    outcome                     \* "running", "closing" or "failed"

vars == <<out, anchor, pcrAt, tb, bsys, held, pendingDiscontinuity, lastPsi, stack, given, base,
          rebases, announced, wire, fill, sent, outcome>>

clockVars  == <<out, tb, bsys, fill>>
callerVars == <<given, base, rebases, announced>>

Never     == -1000
NoTime    == Never
NoAnchor  == <<Never, Never>>
System    == 0                \* tracks count from 1
Pids      == Tracks \cup {System}

Now(slot) == anchor[2] + (slot - anchor[1])
Anchored  == anchor # NoAnchor
LeadOf(t) == IF t \in Video THEN VideoLead ELSE AudioLead

Call(kind, track, seq, time, size) ==
    [kind |-> kind, track |-> track, seq |-> seq, time |-> time, size |-> size, left |-> size,
     stage |-> "start", horizon |-> 0, program |-> 1]
TableCall == [Call("tables", System, 0, NoTime, Tables) EXCEPT !.stage = "space"]

Init ==
    /\ out = 0 /\ anchor = NoAnchor
    /\ pcrAt = [p \in Programs |-> Never]
    /\ tb = [q \in Pids |-> 0] /\ bsys = 0 /\ fill = [q \in Pids |-> 0]
    /\ held = [t \in Tracks |-> << >>]
    /\ pendingDiscontinuity = [p \in Programs |-> FALSE]
    /\ lastPsi = Never
    /\ stack = <<TableCall>>                          \* write_header
    /\ given = [t \in Tracks |-> 0]
    /\ base = [p \in Programs |-> 0]
    /\ rebases = 0 /\ announced = [p \in Programs |-> 0]
    /\ wire = [p \in Programs |-> [at |-> Never, value |-> 0, marked |-> FALSE, epoch |-> 0]]
    /\ sent = [t \in Tracks |-> {}]
    /\ outcome = "running"

------------------------------------------------------------------------------
(* A packet of pid goes out (emit), which books it or booked it before.    *)
Left(level, n) == IF level > n THEN level - n ELSE 0
Slot(pid, booking) ==
    /\ out' = out + 1
    /\ tb'   = [q \in Pids |-> Left(tb[q] + IF q = pid /\ booking THEN Load ELSE 0, Drain[q])]
    /\ fill' = [q \in Pids |-> Left(fill[q] + IF q = pid THEN Load ELSE 0, Drain[q])]
    /\ bsys' = Left(bsys + IF pid = System THEN Load ELSE 0, PoolDrain)
EmitNull == Slot(-1, FALSE)

HasRoom(pid) == tb[pid] + Load <= Bucket
Open(pid)    == pid \notin Paced \/ HasRoom(pid)

Top        == Last(stack)
Below      == Front(stack)
Go(stage)  == stack' = Below \o <<[Top EXCEPT !.stage = stage]>>
Return     == stack' = Below
Running(k) == stack # << >> /\ Top.kind = k
At(stage)  == Running("frame") /\ Top.stage = stage
Flushing   == \E i \in DOMAIN stack : i > 1 /\ stack[i].kind = "frame" /\ stack[i - 1].kind # "drain"

SetPcr(p) ==
    /\ pcrAt' = [pcrAt EXCEPT ![p] = out]
    /\ wire' = [wire EXCEPT ![p] = [at |-> out, value |-> Now(out), marked |-> pendingDiscontinuity[p],
                                     epoch |-> rebases]]
    /\ pendingDiscontinuity' = [pendingDiscontinuity EXCEPT ![p] = FALSE]
NoPcr == UNCHANGED <<pcrAt, wire, pendingDiscontinuity>>

------------------------------------------------------------------------------
(* The held frame that is due first, and flush_due by the top call: one    *)
(* frame, if one is due by its horizon.                                    *)
Holding == {t \in Tracks : held[t] # << >>}
First   == CHOOSE t \in Holding : \A s \in Holding \ {t} :
               \/ Head(held[t]).time < Head(held[s]).time
               \/ Head(held[t]).time = Head(held[s]).time /\ t < s
DueNested(horizon) ==                 \* mutant: also within a release
    Holding # {} /\ Head(held[First]).time - AudioLead <= horizon
Due(horizon) == ~Flushing /\ Holding # {} /\ Head(held[First]).time - AudioLead <= horizon
Release ==
    /\ held' = [held EXCEPT ![First] = Tail(@)]
    /\ stack' = Append(stack, Head(held[First]))

FlushDue ==
    /\ \/ At("wait") \/ At("flush") \/ Running("release")
    /\ Due(Top.horizon)
    /\ Release
    /\ UNCHANGED <<clockVars, anchor, pcrAt, pendingDiscontinuity, lastPsi, callerVars,
                   wire, sent, outcome>>

Released ==
    /\ Running("release") /\ ~Due(Top.horizon)
    /\ Return
    /\ UNCHANGED <<clockVars, anchor, held, pcrAt, pendingDiscontinuity, lastPsi,
                   callerVars, wire, sent, outcome>>

------------------------------------------------------------------------------
(* write_pes_packet: a frame with a time anchors the clock or waits.       *)
StartAnchoring ==                     \* mutant: every frame anchors the clock
    /\ At("start")
    /\ anchor' = IF Top.time # NoTime THEN <<out, Top.time - LeadOf(Top.track)>> ELSE anchor
    /\ Go(IF Top.time = NoTime THEN "send" ELSE "loop")
    /\ UNCHANGED <<clockVars, held, pcrAt, pendingDiscontinuity, lastPsi, callerVars,
                   wire, sent, outcome>>

Start ==
    /\ At("start")
    /\ anchor' = IF Top.time # NoTime /\ ~Anchored THEN <<out, Top.time - LeadOf(Top.track)>>
                                                   ELSE anchor
    /\ Go(IF Top.time = NoTime THEN "send" ELSE "loop")
    /\ UNCHANGED <<clockVars, held, pcrAt, pendingDiscontinuity, lastPsi, callerVars,
                   wire, sent, outcome>>

Early == Now(out) < Top.time - LeadOf(Top.track)

(* One turn of the wait: let out what is due by now, ...                   *)
Wait ==
    /\ At("loop")
    /\ stack' = Below \o <<IF Early THEN [Top EXCEPT !.stage = "wait", !.horizon = Now(out)]
                           ELSE [Top EXCEPT !.stage = "late"]>>
    /\ UNCHANGED <<clockVars, anchor, held, pcrAt, pendingDiscontinuity, lastPsi,
                   callerVars, wire, sent, outcome>>

(* ... look at the clock again, ...                                        *)
LookAgain ==
    /\ At("wait") /\ ~Due(Top.horizon)
    /\ stack' = Below \o <<IF Early THEN [Top EXCEPT !.stage = "pcr", !.program = 1]
                           ELSE [Top EXCEPT !.stage = "late"]>>
    /\ UNCHANGED <<clockVars, anchor, held, pcrAt, pendingDiscontinuity, lastPsi,
                   callerVars, wire, sent, outcome>>

(* ... send the PCRs that are due, and a null packet.                      *)
PcrStage   == At("pcr") \/ At("pcrs")
PcrIsDueFirst(p) ==                   \* mutant: one cadence for all programs
    pcrAt[1] = Never \/ out - pcrAt[1] >= PcrInterval
PcrIsDue(p) == pcrAt[p] = Never \/ out - pcrAt[p] >= PcrInterval

PcrOnlyUnpaced ==                     \* mutant: not booked in its transport buffer
    /\ PcrStage /\ Top.program \in Programs /\ PcrIsDue(Top.program)
    /\ Slot(PcrTrack[Top.program], FALSE)
    /\ SetPcr(Top.program)
    /\ stack' = Below \o <<[Top EXCEPT !.program = @ + 1]>>
    /\ UNCHANGED <<anchor, held, lastPsi, callerVars, sent, outcome>>

PcrOnly ==
    /\ PcrStage /\ Top.program \in Programs /\ PcrIsDue(Top.program)
    /\ LET pid == PcrTrack[Top.program]
       IN  IF Open(pid)
           THEN /\ Slot(pid, pid \in Paced)
                /\ SetPcr(Top.program)
                /\ stack' = Below \o <<[Top EXCEPT !.program = @ + 1]>>
           ELSE EmitNull /\ NoPcr /\ UNCHANGED stack
    /\ UNCHANGED <<anchor, held, lastPsi, callerVars, sent, outcome>>

PcrNotDue ==
    /\ PcrStage /\ Top.program \in Programs /\ ~PcrIsDue(Top.program)
    /\ stack' = Below \o <<[Top EXCEPT !.program = @ + 1]>>
    /\ UNCHANGED <<clockVars, anchor, held, pcrAt, pendingDiscontinuity, lastPsi,
                   callerVars, wire, sent, outcome>>

NullUncounted ==                      \* mutant: a null packet is not counted in the bytes written
    /\ At("pcr") /\ Top.program \notin Programs
    /\ Go("loop")
    /\ NoPcr
    /\ UNCHANGED <<clockVars, anchor, held, lastPsi, callerVars, sent, outcome>>

Null ==
    /\ At("pcr") /\ Top.program \notin Programs
    /\ EmitNull
    /\ Go("loop")
    /\ NoPcr
    /\ UNCHANGED <<anchor, held, lastPsi, callerVars, sent, outcome>>

(* The frame is due: an error when its time is past; else what falls due   *)
(* while it would occupy the wire goes first.                              *)
CheckLate ==
    /\ At("late")
    /\ IF Now(out) > Top.time
       THEN outcome' = "failed" /\ stack' = << >>
       ELSE /\ stack' = Below \o <<[Top EXCEPT !.stage = "flush", !.horizon = Now(out) + Top.size + 1]>>
            /\ UNCHANGED outcome
    /\ UNCHANGED <<clockVars, anchor, held, pcrAt, pendingDiscontinuity, lastPsi,
                   callerVars, wire, sent>>

Flushed ==
    /\ At("flush") /\ ~Due(Top.horizon)
    /\ stack' = Below \o <<[Top EXCEPT !.stage = "pcrs", !.program = 1]>>
    /\ UNCHANGED <<clockVars, anchor, held, pcrAt, pendingDiscontinuity, lastPsi,
                   callerVars, wire, sent, outcome>>

PcrsSent ==
    /\ At("pcrs") /\ Top.program \notin Programs
    /\ Go("send")
    /\ UNCHANGED <<clockVars, anchor, held, pcrAt, pendingDiscontinuity, lastPsi,
                   callerVars, wire, sent, outcome>>

(* write_pes_bytes_as_ts, a packet.                                        *)
Inline == Top.left = Top.size /\ Top.time # NoTime /\ PcrTrack[ProgramOf[Top.track]] = Top.track
Send ==
    /\ At("send")
    /\ LET t == Top.track
       IN  IF Open(t)
           THEN /\ Slot(t, t \in Paced)
                /\ IF Inline THEN SetPcr(ProgramOf[t]) ELSE NoPcr
                /\ sent' = IF Top.left = Top.size THEN [sent EXCEPT ![t] = @ \cup {Top.seq}] ELSE sent
                /\ IF Top.left = 1 THEN Return
                   ELSE stack' = Below \o <<[Top EXCEPT !.left = @ - 1]>>
           ELSE EmitNull /\ NoPcr /\ UNCHANGED <<sent, stack>>
    /\ UNCHANGED <<anchor, held, lastPsi, callerVars, outcome>>

------------------------------------------------------------------------------
(* write_psi_packet: room in the transport buffer is booked, then room in  *)
(* the pool.                                                               *)
Space ==
    /\ Running("tables") /\ Top.stage = "space"
    /\ IF HasRoom(System)
       THEN /\ tb' = [tb EXCEPT ![System] = @ + Load]
            /\ Go("pool")
            /\ UNCHANGED <<out, bsys, fill>>
       ELSE EmitNull /\ UNCHANGED stack
    /\ UNCHANGED <<anchor, held, pcrAt, pendingDiscontinuity, lastPsi, callerVars, wire,
                   sent, outcome>>

Pooled ==
    /\ Running("tables") /\ Top.stage = "pool"
    /\ IF bsys + Load <= Pool
       THEN /\ Slot(System, FALSE)
            /\ IF Top.left = 1 THEN Return
               ELSE stack' = Below \o <<[Top EXCEPT !.left = @ - 1, !.stage = "space"]>>
       ELSE EmitNull /\ UNCHANGED stack
    /\ UNCHANGED <<anchor, held, pcrAt, pendingDiscontinuity, lastPsi, callerVars, wire,
                   sent, outcome>>

------------------------------------------------------------------------------
(* The caller: write_packet, which first repeats the tables when they are  *)
(* due and the pool has room for them all (maybe_repeat_psi).              *)
Idle      == outcome = "running" /\ stack = << >>
TimeOf(t) == VideoLead + base[ProgramOf[t]] + (given[t] + 1) * Gap[t]
Waiting   == {t \in Tracks : given[t] < MaxFrames[t]}

WriteFrame(t, size, timed) ==
    /\ Idle /\ t \in Waiting
    /\ \A s \in Waiting : (given[t] + 1) * Gap[t] <= (given[s] + 1) * Gap[s] + Skew
    /\ timed \/ (t \in Untimed /\ given[t] % 2 = 1)
    /\ given' = [given EXCEPT ![t] = @ + 1]
    /\ LET time   == IF timed THEN TimeOf(t) ELSE NoTime
           frame  == Call("frame", t, given[t] + 1, time, size)
           repeat == /\ timed /\ lastPsi # Never /\ time - lastPsi >= PsiInterval
                     /\ bsys + Tables * Load <= Pool
           hold   == Anchored /\ t \notin Video /\ timed
           rest   == IF hold THEN Call("hold", t, given[t] + 1, time, size) ELSE frame
       IN  /\ lastPsi' = IF repeat \/ (timed /\ lastPsi = Never) THEN time ELSE lastPsi
           /\ stack' = <<rest>> \o IF repeat THEN <<TableCall>> ELSE << >>
    /\ UNCHANGED <<clockVars, anchor, pcrAt, held, pendingDiscontinuity, base, rebases,
                   announced, wire, sent, outcome>>

Hold ==
    /\ Running("hold")
    /\ held' = [held EXCEPT ![Top.track] = Append(@, [Top EXCEPT !.kind = "frame"])]
    /\ stack' = <<[Top EXCEPT !.kind = "release", !.horizon = Now(out)]>>
    /\ UNCHANGED <<clockVars, anchor, pcrAt, pendingDiscontinuity, lastPsi, callerVars,
                   wire, sent, outcome>>

(* signal_time_base_discontinuity and write_trailer let out all that is    *)
(* held, by time, before the break and before the last tables.             *)
Signal(p, b) ==
    /\ Idle /\ rebases < MaxRebases /\ out > Tables /\ b # base[p]
    /\ base' = [base EXCEPT ![p] = b]
    /\ stack' = <<[Call("drain", System, 0, NoTime, 0) EXCEPT !.program = p]>>
    /\ UNCHANGED <<clockVars, anchor, pcrAt, held, pendingDiscontinuity, lastPsi, given,
                   rebases, announced, wire, sent, outcome>>

WriteTrailer ==
    /\ Idle /\ Waiting = {}
    /\ stack' = <<TableCall, [Call("drain", System, 0, NoTime, 0) EXCEPT !.program = 0]>>
    /\ outcome' = "closing"
    /\ UNCHANGED <<clockVars, anchor, pcrAt, held, pendingDiscontinuity, lastPsi,
                   callerVars, wire, sent>>

Drained ==
    /\ Running("drain")
    /\ IF Holding # {}
       THEN Release /\ UNCHANGED <<anchor, pcrAt, pendingDiscontinuity, rebases, announced>>
       ELSE /\ Return
            /\ IF Top.program = 0
               THEN UNCHANGED <<anchor, pcrAt, pendingDiscontinuity, rebases, announced>>
               ELSE /\ pendingDiscontinuity' = [pendingDiscontinuity EXCEPT ![Top.program] = TRUE]
                    /\ anchor' = NoAnchor
                    /\ pcrAt' = [pcrAt EXCEPT ![Top.program] = Never]
                    /\ rebases' = rebases + 1
                    /\ announced' = [announced EXCEPT ![Top.program] = rebases + 1]
            /\ UNCHANGED held
    /\ UNCHANGED <<clockVars, lastPsi, given, base, wire, sent, outcome>>

Next ==
    \/ FlushDue \/ Released \/ Start \/ Wait \/ LookAgain \/ PcrOnly \/ PcrNotDue \/ Null
    \/ CheckLate \/ Flushed \/ PcrsSent \/ Send \/ Space \/ Pooled \/ Hold
    \/ \E t \in Tracks, size \in Sizes, timed \in BOOLEAN : WriteFrame(t, size, timed)
    \/ \E p \in Programs, b \in Bases : Signal(p, b)
    \/ WriteTrailer \/ Drained

(* Each call is a loop that runs on.                                       *)
Calls == FlushDue \/ Released \/ Start \/ Wait \/ LookAgain \/ PcrOnly \/ PcrNotDue \/ Null
             \/ CheckLate \/ Flushed \/ PcrsSent \/ Send \/ Space \/ Pooled \/ Hold \/ Drained
Spec == Init /\ [][Next]_vars /\ WF_vars(Calls)

------------------------------------------------------------------------------
(* No transport buffer of known drain ever holds more than it can, null    *)
(* packets, standalone PCRs and the wait for the pool notwithstanding.     *)
TransportBuffers ==
    \A q \in Paced \cup {System} : fill[q] > 0 => fill[q] + Drain[q] <= Bucket

(* A frame's first byte comes no earlier than its lead before its decode   *)
(* time: what the receiver's main buffers have room for.                   *)
NotEarly == sent' # sent /\ Top.time # NoTime => Now(out) >= Top.time - LeadOf(Top.track)

(* However held frames overtake those of other tracks, those of one track  *)
(* go out in the order given, but for what is let out at the end or before *)
(* a new time base; and all of them have gone out, at the end.             *)
Draining == \E i \in DOMAIN stack : stack[i].kind = "drain"
InOrder  == sent' # sent => \A s \in sent[Top.track] : s < Top.seq
OnTime   == NotEarly /\ (~Draining => InOrder)
AllSent  == outcome = "closing" /\ stack = << >> => \A t \in Tracks : sent[t] = 1..given[t]

(* The muxer looks which PCRs are due before every null packet of a wait   *)
(* and before every frame with a time, never within a frame or a table.    *)
(* So two PCRs of a program are apart by its interval, plus what may go    *)
(* out between two looks: a PCR of each program, the longest frame, the    *)
(* frames without times behind it, and the tables, each at the pace of its *)
(* transport buffer (the last tables also at that of the system buffer).   *)
(* This holds for every program, whichever one's frames occupy the wire,   *)
(* and over a new time base, announced by it or by another one.            *)
Over(n, drain) == (n + drain - 1) \div drain
Slots(n, q)    == IF q \in Paced \cup {System} THEN Max({n, Over(n * Load, Drain[q])}) ELSE n
Longest(T)     == Max({0} \cup {Slots(n, t) : n \in Sizes, t \in T})
PcrBound ==
    PcrInterval - 1 + Longest(Tracks)
        + MapThenSumSet(LAMBDA p : Slots(1, PcrTrack[p]), Programs)
        + MapThenSumSet(LAMBDA t : Longest({t}), Untimed)
        + Slots(Tables, System)
        + IF outcome = "closing" THEN Over(Tables * Load, PoolDrain) ELSE 0
PcrCadence ==
    \A p \in Programs : wire[p].at # Never => out - wire[p].at <= PcrBound

(* A PCR is ahead of the program's last by just the time the bytes between *)
(* them take, unless a new time base was announced between them, of        *)
(* whichever program; and a PCR is marked when its own program has         *)
(* announced a base since its last PCR, and only then.                     *)
Ahead(p)  == wire'[p].value - wire[p].value = wire'[p].at - wire[p].at
Linear ==
    \A p \in Programs :
        wire'[p] # wire[p] =>
            /\ wire[p].at # Never /\ wire[p].epoch = rebases => Ahead(p)
            /\ wire'[p].marked <=> announced[p] > wire[p].epoch

(* What the muxer says of its clock: every PCR is stamped from the bytes   *)
(* written, and only a marked one may break with the program's last.       *)
UnmarkedLinear ==
    \A p \in Programs :
        wire'[p] # wire[p] /\ wire[p].at # Never /\ ~wire'[p].marked => Ahead(p)
=============================================================================
