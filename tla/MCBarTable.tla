----------------------------- MODULE MCBarTable ------------------------------
(***************************************************************************)
(* The instance of BarTable for TLC.                                       *)
(***************************************************************************)
EXTENDS BarTable

\* Both sides of every limit of EnableMSI and EnableMSIX, and of the uint8_t field.
MCCounts == { -1, 0, 31, 32, 255, 256, 2047, 2048 }
=============================================================================
