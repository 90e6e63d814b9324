------------------------------ MODULE MCLeapADay ------------------------------
\* A run of leap-a-day without -i.
EXTENDS LeapADay

NoIterations == -1
===============================================================================
