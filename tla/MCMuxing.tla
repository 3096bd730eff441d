------------------------------- MODULE MCMuxing -------------------------------
(* Instances for TLC: of the pacer, a program of video and audio, and one  *)
(* of audio alone.                                                         *)
EXTENDS Muxing, TLC

MCTracks    == {1, 2, 3}
MCVideo     == {1}
MCPrograms  == {1, 2}
MCProgramOf == <<1, 1, 2>>
MCPcrTrack  == <<1, 3>>
MCPaced     == {1, 2, 3}
MCDrain     == (0 :> 3) @@ (1 :> 5) @@ (2 :> 4) @@ (3 :> 4)
MCGap       == <<12, 10, 12>>
MCFrames    == <<3, 3, 1>>
===============================================================================
