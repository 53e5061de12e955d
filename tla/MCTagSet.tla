------------------------------ MODULE MCTagSet ------------------------------
(* TagSet for TLC.  Five bits give ten tags, among them pairs that share   *)
(* no bit, one bit and both bits; four tags can fill every bit of total.   *)
(* Five adds fill the array and overflow it once.                          *)
EXTENDS TagSet

MCTagBits == 5
MCMaxAdds == 5
=============================================================================
