------------------------------- MODULE Bfprt -------------------------------
(***************************************************************************)
(* The order-statistic selector of bfprt.c (median of medians).  An array *)
(* is a function from 0..n-1 to values; each C routine, which works in    *)
(* place, is an operator that returns the array it leaves behind together *)
(* with the index it returns.  The loops are RECURSIVE operators.  The    *)
(* state machine takes one input array and one k and runs BFPRT on the    *)
(* whole range, as the selector's contract (spec 4.2) describes a call.   *)
(***************************************************************************)
EXTENDS Integers, Sequences, FiniteSets, TLC

CONSTANT Inputs    \* the arrays the selector may be called on

Len0(a) == Cardinality(DOMAIN a)

\* Mutant: the swap without its temporary, *a = *b; *b = *a.
SwapNoTemp(a, i, j) == [a EXCEPT ![i] = a[j]]

\* swap(&a, &b)
Swap(a, i, j) == [a EXCEPT ![i] = a[j], ![j] = a[i]]

\* InsertSort(array, left, right): sorts array[left..right] in place and
\* returns the middle index ((right - left) >> 1) + left.
InsertSort(a, left, right) ==
    LET RECURSIVE Sift(_, _, _)
        \* while (j >= left && array[j] > temp) array[j + 1] = array[j--];
        Sift(b, j, temp) ==
            IF j >= left /\ b[j] > temp
              THEN Sift([b EXCEPT ![j + 1] = b[j]], j - 1, temp)
              ELSE [b EXCEPT ![j + 1] = temp]
        RECURSIVE Outer(_, _)
        Outer(b, i) == IF i > right THEN b ELSE Outer(Sift(b, i - 1, b[i]), i + 1)
    IN [a |-> Outer(a, left + 1), idx |-> ((right - left) \div 2) + left]

\* Mutant: the pivot is never moved from the right end to divide_index.
PartitionNoFinalSwap(a, left, right, pivot) ==
    LET RECURSIVE Scan(_, _, _)
        Scan(c, d, i) ==
            IF i >= right THEN [a |-> c, idx |-> d]
            ELSE IF c[i] < c[right] THEN Scan(Swap(c, d, i), d + 1, i + 1)
                                    ELSE Scan(c, d, i + 1)
    IN Scan(Swap(a, pivot, right), left, left)

\* Partition(array, left, right, pivot_index): the pivot goes to the right
\* end, every smaller element is swapped to the front, and the pivot is put
\* at divide_index, which is returned.
Partition(a, left, right, pivot) ==
    LET RECURSIVE Scan(_, _, _)
        Scan(c, d, i) ==
            IF i >= right THEN [a |-> Swap(c, d, right), idx |-> d]
            ELSE IF c[i] < c[right] THEN Scan(Swap(c, d, i), d + 1, i + 1)
                                    ELSE Scan(c, d, i + 1)
    IN Scan(Swap(a, pivot, right), left, left)

RECURSIVE BFPRT(_, _, _, _)

\* GetPivotIndex(array, left, right): fewer than six elements are sorted
\* and the middle one is the pivot; otherwise each full group of five is
\* sorted, its median swapped to the front, and BFPRT selects the median
\* of those medians.
GetPivotIndex(a, left, right) ==
    IF right - left < 5
      THEN InsertSort(a, left, right)
      ELSE LET RECURSIVE Groups(_, _, _)
               Groups(b, i, subRight) ==
                   IF i + 4 > right THEN [a |-> b, sr |-> subRight]
                   ELSE LET s == InsertSort(b, i, i + 4)
                        IN Groups(Swap(s.a, subRight + 1, s.idx), i + 5, subRight + 1)
               g == Groups(a, left, left - 1)
           IN BFPRT(g.a, left, g.sr, ((g.sr - left + 1) \div 2) + 1)

\* BFPRT(array, left, right, k): the index of the k-th smallest element of
\* array[left..right] after partitioning, and the array it leaves.
BFPRT(a, left, right, k) ==
    LET p == GetPivotIndex(a, left, right)
        d == Partition(p.a, left, right, p.idx)
        num == d.idx - left + 1
    IN IF num = k THEN d
       ELSE IF num > k THEN BFPRT(d.a, left, d.idx - 1, k)
       ELSE BFPRT(d.a, d.idx + 1, right, k - num)

-----------------------------------------------------------------------------
VARIABLES input, k, output, done

vars == <<input, k, output, done>>

Init ==
    /\ input \in Inputs
    /\ k \in 1..Len0(input)
    /\ output = [a |-> input, idx |-> 0]
    /\ done = FALSE

\* One call BFPRT(array, 0, n - 1, k) on the whole array.
Select ==
    /\ ~done
    /\ output' = BFPRT(input, 0, Len0(input) - 1, k)
    /\ done' = TRUE
    /\ UNCHANGED <<input, k>>

Next == Select

Spec == Init /\ [][Next]_vars

-----------------------------------------------------------------------------
AsSeq(a) == [i \in 1..Len0(a) |-> a[i - 1]]

Count(a, v) == Cardinality({i \in DOMAIN a : a[i] = v})

\* Spec 4.2 and 8 (the selector's contract): the element at the index BFPRT
\* returns is the one sorting the array would put at position k, for every
\* array and k, duplicates included; the pivot chosen by GetPivotIndex and
\* the recursion into one side of Partition must not lose it.
SelectsKthSmallest ==
    done => output.a[output.idx] = SortSeq(AsSeq(input), <)[k]

\* The in-place swaps of InsertSort, GetPivotIndex and Partition only
\* reorder the array: every value occurs as often as in the input.
PermutesInput ==
    done => \A v \in {input[i] : i \in DOMAIN input} :
                Count(output.a, v) = Count(input, v)
=============================================================================
