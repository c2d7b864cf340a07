---------------------------- MODULE MCReaperWindow ----------------------------
(* Instances of ReaperWindow for TLC.  One unit of time is half a second.  *)
EXTENDS ReaperWindow

(* The limits of the passing instance leave no slack: one unit more of any *)
(* of them and the window would be too short.                              *)
ASSUME TightFit == WindowFits => TwiceLongest + 2 * Skew = 2 * Window
=============================================================================
