---------------------------- MODULE MCIdempotweet ----------------------------
(* An idem from the seed script, of before the posts, and a page of demo   *)
(* data that is not the last.                                              *)
EXTENDS Idempotweet

CONSTANTS s1, d1, d2

MCSeed == s1 :> 0
MCDemo == <<d1, d2>>
=============================================================================
