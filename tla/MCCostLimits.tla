---------------------------- MODULE MCCostLimits ----------------------------
(* A small instance of CostLimits: one key with a daily quota, two days of *)
(* one month.                                                              *)
EXTENDS CostLimits, TLC

IdSymmetry == Permutations(Ids)
MCMonthStart == [d \in Days |-> 0]
MCKeyQuota == [s \in Keys \X Periods |-> IF s[2] = "daily" THEN {2} ELSE {}]
=============================================================================
