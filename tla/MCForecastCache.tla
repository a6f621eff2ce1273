-------------------------- MODULE MCForecastCache --------------------------
\* A small instance of ForecastCache: London, Stockholm and Helsinki.
EXTENDS ForecastCache

MCShifts == -1 .. 1
=============================================================================
