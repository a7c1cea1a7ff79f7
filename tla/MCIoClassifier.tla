--------------------------- MODULE MCIoClassifier ---------------------------
(* Requests of length 8 at offsets 0 and 8, so that contiguous and        *)
(* repeated offsets, in-order and out-of-order completion all occur.      *)
(* As in the code (max_nr_event 8, MIN_SUBMIT_EVENTS 16), every batch is  *)
(* smaller than MinSubmitEvents, and MaxOps lets the in-flight count      *)
(* reach it.                                                               *)
EXTENDS IoClassifier

MCOffsets == {0, 8}
MCIoLength == 8
MCMaxOps == 4
MCMaxNrEvent == 2
MCMinSubmitEvents == 3
=============================================================================
