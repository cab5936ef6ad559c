----------------------------- MODULE RangeSplit -----------------------------
(***************************************************************************)
(* How lab3-download-accelerator/downloadAccelerator.py (38-46) divides a  *)
(* file of size bytes among n threads: section i, of 0..(n - 1), is asked  *)
(* for with a range header from start_byte to end_byte, both inclusive.    *)
(***************************************************************************)
EXTENDS Integers

section_size(size, n) == size \div n

start_byte(size, n, i) == i * section_size(size, n)

\* Variants: one has no case of its own for the last section, one takes the
\* last byte of a range for exclusive.
EndOfEqualSections(size, n, i) == (i + 1) * section_size(size, n) - 1
EndExclusive(size, n, i) ==
  IF i + 1 = n THEN size ELSE (i + 1) * section_size(size, n)

end_byte(size, n, i) ==
  IF i + 1 = n THEN size ELSE (i + 1) * section_size(size, n) - 1

\* A range is well formed if it is not empty; "0--1" is none.
ValidRange(size, n, i) == start_byte(size, n, i) <= end_byte(size, n, i)

\* Every byte of the file is in one section, and in no other.
Within(size, n, i, b) == start_byte(size, n, i) <= b /\ b <= end_byte(size, n, i)
Partition(size, n) ==
  \A b \in 0..(size - 1) :
    \E i \in 0..(n - 1) :
      /\ Within(size, n, i, b)
      /\ \A j \in 0..(n - 1) : Within(size, n, j, b) => j = i
=============================================================================
