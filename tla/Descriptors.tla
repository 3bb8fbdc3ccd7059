----------------------------- MODULE Descriptors ----------------------------
(***************************************************************************)
(* The BIOS call get_descriptors: whole device descriptors are copied into *)
(* an array of headers, each to the place of its header, so that each      *)
(* covers the beginning of the next place and the last may leave the array.*)
(*                                                                         *)
(* Memory is counted in units of four bytes; a unit holds which device it  *)
(* came from and which of its units it is.  A device is the name of its    *)
(* class.                                                                  *)
(*                                                                         *)
(* Descending is a slip the code avoids; no definition uses it.            *)
(***************************************************************************)
EXTENDS Integers, Sequences

Header == 7  \* struct q9_dev_header

\* SCF and RBF descriptors have the same size; of any other only the header is
\* copied.
Size(class) == IF class \in {"SCF", "RBF"} THEN 11 ELSE Header

\* The serial console and the SD card.
SystemDescriptors == <<"SCF", "RBF">>

Nothing == <<0, 0>>

Count(list, max) == IF max < Len(list) THEN max ELSE Len(list)

At(i) == (i - 1) * Header

Descending(n) == [i \in 1..n |-> n + 1 - i]
Order(n)      == [i \in 1..n |-> i]

\* memcpy of the i-th descriptor to the place of the i-th header.
Copy(memory, list, i) ==
  [unit \in DOMAIN memory |->
     IF unit - At(i) \in 0..Size(list[i])-1 THEN <<i, unit - At(i)>> ELSE memory[unit]]

\* The memory from dest_array on: max headers and what may come behind them.
Copied(list, max) ==
  LET count == Count(list, max)
      memory[n \in 0..count] ==
        IF n = 0 THEN [unit \in 0..max*Header+3 |-> Nothing]
                 ELSE Copy(memory[n-1], list, Order(count)[n])
  IN memory[count]

\* Memory behind the array is written.
Overruns(list, max) ==
  LET memory == Copied(list, max)
  IN  \E unit \in DOMAIN memory : unit >= max * Header /\ memory[unit] # Nothing
----------------------------------------------------------------------------
\* What the shell's info command prints of the i-th place: its header.
Shown(list, max, i) == [unit \in 0..Header-1 |-> Copied(list, max)[At(i) + unit]]

\* The headers are those of the devices, although every descriptor is copied
\* over the next place; and it is exactly a full array that is overrun, by the
\* last descriptor that is longer than a header.
HeadersStand(list, max) ==
  /\ \A i \in 1..Count(list, max) :
       Shown(list, max, i) = [unit \in 0..Header-1 |-> <<i, unit>>]
  /\ Overruns(list, max) <=>
       max \in 1..Len(list) /\ Size(list[max]) > Header
=============================================================================
