-------------------------------- MODULE MCBars -------------------------------
(* The bars of a stock in few frames, for TLC.                             *)
EXTENDS Bars

\* The script asks for minutes; the feed brings another frame.
Minutes == <<1>>
=============================================================================
