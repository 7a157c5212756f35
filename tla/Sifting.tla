------------------------------ MODULE Sifting ------------------------------
(***************************************************************************)
(* Taking entries out of a list: the filter of RecordManager, and the erase *)
(* with remove of the native objects, as a recursive function, of which     *)
(* more can be proved than of SelectSeq.                                    *)
(***************************************************************************)
EXTENDS Integers, Sequences

(* The entries of seq that are still there after each of its first n, when *)
(* those in the set gone are taken out.                                    *)
Kept(seq, gone) ==
  LET kept[n \in 0..Len(seq)] ==
        IF n = 0 THEN <<>>
        ELSE IF seq[n] \in gone THEN kept[n - 1]
        ELSE Append(kept[n - 1], seq[n])
  IN  kept

(* seq without its entries in gone: filter in JavaScript, erase and remove *)
(* in C++.                                                                 *)
Sift(seq, gone) == Kept(seq, gone)[Len(seq)]
=============================================================================
