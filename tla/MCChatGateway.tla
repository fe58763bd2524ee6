--------------------------- MODULE MCChatGateway ---------------------------
(* Calls of one key over two days of one month: c1 and the stream c2 with   *)
(* ids of their own or one id; or c1 with one more chat call c2 or, instead *)
(* of it, the stream c3, all under the same id.                             *)
EXTENDS ChatGateway

CONSTANTS c1, c2, c3, i1, i2, k1

MCMonthStart == [d \in Days |-> 0]
MCKeyQuota == [s \in Keys \X Periods |-> IF s[2] = "daily" THEN {2} ELSE {}]
UniqueIds == [c \in Calls |-> IF c = c1 THEN i1 ELSE i2]
SharedId == [c \in Calls |-> i1]
OneKey == [c \in Calls |-> k1]

\* State constraint: of c2 and c3 one is made at most.
OneOfTwo == pc[c2] = "start" \/ pc[c3] = "start"
=============================================================================
