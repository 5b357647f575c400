------------------------------ MODULE FileCopy ------------------------------
(***************************************************************************)
(* What a transfer promises: the pictures of the file come out one by one, *)
(* each whole, in the order of the file, and none is left out.  A picture  *)
(* is its number in every block; n is how many there are to be copied.     *)
(***************************************************************************)
EXTENDS Integers, Sequences

CONSTANT Blocks    \* the blocks of a picture

VARIABLES n, out

Picture(num) == [b \in Blocks |-> num]

Init == n \in Nat /\ out = <<>>

Copy == /\ Len(out) < n
        /\ out' = Append(out, Picture(Len(out)))
        /\ UNCHANGED n

\* Nothing comes out but the next picture, and no more than n do.
Safety == Init /\ [][Copy]_<<n, out>>

Spec == Safety /\ WF_<<n, out>>(Copy)

=============================================================================
