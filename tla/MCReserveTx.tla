---------------------------- MODULE MCReserveTx ----------------------------
(* Two requests of one key that has a daily quota; the organisation gets a  *)
(* daily and a monthly budget on the way.                                   *)
EXTENDS ReserveTx

CONSTANT k1

MCMonthStart == [d \in Days |-> 0]
MCKeyQuota == [s \in Keys \X Periods |-> IF s[2] = "daily" THEN {3} ELSE {}]
MCKeyOf == [i \in Ids |-> k1]
=============================================================================
