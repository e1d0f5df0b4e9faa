----------------------------- MODULE MCAsynchIO -----------------------------
\* Instances of AsynchIO for TLC: two I/O threads serve one connection.
EXTENDS AsynchIO
=============================================================================
