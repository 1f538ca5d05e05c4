---------------------------- MODULE MCFrameClock ----------------------------
(* Instances of FrameClock for TLC. *)
EXTENDS FrameClock

\* A song from its start, one joined in the middle, one with no frame.
MCSpans == {<<0, 3>>, <<1, 5>>, <<0, 0>>}
\* Within TOLERANCE, within BAND and beyond BAND of frames 0..5.
MCSyncFrames == {2, 8, 14}
=============================================================================
