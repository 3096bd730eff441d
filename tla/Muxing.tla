------------------------------- MODULE Muxing -------------------------------
(***************************************************************************)
(* The muxer without a mux rate (Muxer) and with one (Pacer), one at a     *)
(* time: CbrState is there or it is not.  The variables of the pacer are   *)
(* idle when there is none, and those of the other as they begin when      *)
(* there is.                                                               *)
(***************************************************************************)
EXTENDS Muxer

CONSTANTS
    PacedTracks, Video, Programs, ProgramOf, PacedPcrTrack, Paced, VideoLead, AudioLead,
    PacedPcrInterval, Load, Bucket, Pool, Drain, PoolDrain, Tables,
    PacedPsiInterval, PacedSizes, Gap, Skew, Untimed, PacedBases, PacedFrames, PacedRebases

VARIABLES
    cbr,                         \* whether CbrState is there
    out, anchor, pcrAt, tb, bsys, held, pendingBase, psiSent, stack, given, bases, rebases,
    announced, wire, fill, begun, outcome   \* Pacer

P == INSTANCE Pacer WITH
         Tracks <- PacedTracks, PcrTrack <- PacedPcrTrack, PcrInterval <- PacedPcrInterval,
         PsiInterval <- PacedPsiInterval, Sizes <- PacedSizes, Bases <- PacedBases,
         MaxFrames <- PacedFrames, MaxRebases <- PacedRebases,
         pendingDiscontinuity <- pendingBase, lastPsi <- psiSent, base <- bases, sent <- begun

ASSUME PacerAssumption ==
    /\ PacedTracks \subseteq Nat \ {0} /\ Video \subseteq PacedTracks /\ Paced \subseteq PacedTracks
    /\ Programs \subseteq Nat /\ ProgramOf \in [PacedTracks -> Programs]
    /\ PacedPcrTrack \in [Programs -> PacedTracks]
    /\ {VideoLead, AudioLead, Load, Bucket, Pool, PoolDrain} \subseteq Nat
    /\ PacedSizes \subseteq Nat \ {0} /\ Tables \in Nat \ {0}
    /\ Gap \in [PacedTracks -> Nat] /\ PacedBases \subseteq Nat
    /\ Drain \in [PacedTracks \cup {0} -> Nat]
(* A packet fits in Bsys, and the transport buffer of the tables drains    *)
(* twice as fast as Bsys at least: RX_SYS_BPS (1 Mbit/s) against           *)
(* max(80 kbit/s, rate_bps / 500), at any mux rate up to 250 Mbit/s.       *)
ASSUME SystemAssumption == Load <= Pool /\ 2 * PoolDrain <= Drain[0]

pacerVars == <<out, anchor, pcrAt, tb, bsys, held, pendingBase, psiSent, stack, given, bases,
               rebases, announced, wire, fill, begun, outcome>>
allVars   == <<cbr, vars, pacerVars>>

PacerIdle ==
    /\ out = "idle" /\ anchor = "idle" /\ pcrAt = "idle" /\ tb = "idle" /\ bsys = "idle"
    /\ held = "idle" /\ pendingBase = "idle" /\ psiSent = "idle" /\ stack = "idle"
    /\ given = "idle" /\ bases = "idle" /\ rebases = "idle" /\ announced = "idle"
    /\ wire = "idle" /\ fill = "idle" /\ begun = "idle" /\ outcome = "idle"
UnpacedIdle == base = (CHOOSE b \in Bases : TRUE) /\ Init

AllInit ==
    \/ cbr = FALSE /\ Init /\ PacerIdle
    \/ cbr = TRUE  /\ P!Init /\ UnpacedIdle

Unpaced  == ~cbr /\ Next /\ UNCHANGED <<cbr, pacerVars>>
Constant == cbr /\ P!Next /\ UNCHANGED <<cbr, vars>>
Working  == cbr /\ P!Calls /\ UNCHANGED <<cbr, vars>>
AllNext  == Unpaced \/ Constant

(* A call that was made is carried on with: it runs to its end on the      *)
(* caller's thread.                                                        *)
AllSpec == AllInit /\ [][AllNext]_allVars /\ WF_allVars(Working)

------------------------------------------------------------------------------
(* The properties of the pacer, while it is there.                         *)
TransportBuffers == cbr => P!TransportBuffers
PacedCadence     == cbr => P!PcrCadence

(* Frames go out no earlier than the decoder has room for them, and those  *)
(* of a track in the order given.                                          *)
FramesOnTime == [][cbr => P!OnTime]_allVars

(* The PCRs are a clock: a program's next one is ahead of its last by the  *)
(* bytes between, unless a new time base was announced in between, and the *)
(* first one after its own program's announcement is marked, no other.     *)
ClockLinear == [][cbr => P!Linear]_allVars

(* muxer.rs:685-687 and 1394-1396: the receiver reconstructs the mux rate  *)
(* from any two PCRs but those a signalled discontinuity parts.            *)
RateReconstructs == [][cbr => P!UnmarkedLinear]_allVars

(* Every call returns, and the frames have gone out when the last does.    *)
CallsReturn == (cbr /\ stack # << >>) ~> (cbr /\ stack = << >> /\ P!AllSent)
=============================================================================
