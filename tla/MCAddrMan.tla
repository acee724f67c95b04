----------------------------- MODULE MCAddrMan -----------------------------
(***************************************************************************)
(* Three addresses share the only "tried" bucket, which has room for one.  *)
(* What the first source says of a1 and a2 falls into the first "new"      *)
(* bucket, what it says of a3 and the second says into the second, what    *)
(* the third says into the third: each has room for one.                   *)
(***************************************************************************)
EXTENDS AddrMan

CONSTANTS a1, a2, a3, s1, s2, s3

MCGetNewBucket(a, s) == IF s = s3 THEN 3 ELSE IF s = s1 /\ a # a3 THEN 1 ELSE 2
MCGetTriedBucket(a) == 1
=============================================================================
