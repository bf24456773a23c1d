---------------------------- MODULE MCMctBuffer ----------------------------
(* Constants of MctBuffer for TLC.                                         *)
EXTENDS MctBuffer, TLC

CONSTANTS a, b

(* Two messages of different length that fit the minimal size.             *)
MCBlockLen == (a :> 3 @@ b :> 4)

(* One message is longer than the minimal size.                            *)
MCLongLen  == (a :> 2 @@ b :> 5)
=============================================================================
