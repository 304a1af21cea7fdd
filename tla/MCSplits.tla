------------------------------ MODULE MCSplits ------------------------------
(* Splits on small instances.  Every definition is a value for a constant.   *)
EXTENDS Splits

OnePoint == {1}
TwoPoints == {1, 2}
ZapTenTwenty == {[zap |-> TRUE, percent |-> 10], [zap |-> TRUE, percent |-> 20]}
ZapOrNot == {[zap |-> TRUE, percent |-> 10], [zap |-> FALSE, percent |-> 10]}
=============================================================================
