---------------------------- MODULE MCDatasetJob ----------------------------
(***************************************************************************)
(* Instances of DatasetJob for TLC.                                        *)
(***************************************************************************)
EXTENDS DatasetJob

\* Files of different lengths: one longer than the line limit, one empty.
MCFileLines == <<3, 0, 1>>
MCOneFile == <<2>>
MCLongFile == <<3>>
MCTwoFiles == <<1, 1>>
=============================================================================
