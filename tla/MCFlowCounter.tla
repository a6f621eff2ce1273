---------------------------- MODULE MCFlowCounter ----------------------------
\* Small instances of FlowCounter: two-day months.
EXTENDS FlowCounter

MCMonthOf == [d \in Days |-> d \div 2]
=============================================================================
