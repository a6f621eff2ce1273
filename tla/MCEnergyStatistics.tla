------------------------- MODULE MCEnergyStatistics -------------------------
\* Small instances of EnergyStatistics: two-day months.
EXTENDS EnergyStatistics

MCMonthOf == [d \in Days |-> d \div 2]
=============================================================================
