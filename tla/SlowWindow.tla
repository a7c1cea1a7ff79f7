----------------------------- MODULE SlowWindow -----------------------------
(***************************************************************************)
(* What a ring latency window promises (spec 4.1), stated over the plain  *)
(* sequence of samples kept since the last reset, with no cursor and no   *)
(* running counters: a full window whose majority is above the threshold *)
(* is an overflow and empties the window; a full window without such a    *)
(* majority ends the run of overflows; MaxOverTimes overflows in a row    *)
(* report a slow disk, which latches the detector.                        *)
(***************************************************************************)
EXTENDS Naturals, Sequences, SequencesExt

CONSTANTS Capacity, Threshold, Samples, MaxOverTimes

VARIABLES window, overTimes, latched

Above(w) == Len(SelectSeq(w, LAMBDA x : x > Threshold))
AtMost(w) == Len(SelectSeq(w, LAMBDA x : x <= Threshold))

\* The window after a sample is taken: the oldest one leaves a full window.
Slide(w, s) == IF Len(w) = Capacity THEN Append(Tail(w), s) ELSE Append(w, s)

Init == window = <<>> /\ overTimes = 0 /\ latched = FALSE

\* The window and overflow count after sample s, and whether it reports
\* a slow disk.
After(w, ot, s) ==
    IF s = 0 THEN [window |-> w, overTimes |-> ot, slow |-> FALSE]
    ELSE LET v == Slide(w, s) IN
         IF Len(v) < Capacity
           THEN [window |-> v, overTimes |-> ot, slow |-> FALSE]
           ELSE LET over == AtMost(v) < Above(v)
                    n == IF over THEN ot + 1 ELSE 0
                IN [window |-> IF over THEN <<>> ELSE v, overTimes |-> n,
                    slow |-> n >= MaxOverTimes]

Record(s) ==
    /\ ~latched
    /\ LET a == After(window, overTimes, s) IN
       /\ window' = a.window
       /\ overTimes' = a.overTimes
       /\ latched' = a.slow

Next == \E s \in Samples : Record(s)

Spec == Init /\ [][Next]_<<window, overTimes, latched>>
=============================================================================
