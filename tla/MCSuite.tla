------------------------------ MODULE MCSuite ------------------------------
EXTENDS Suite
CONSTANTS a, b, p1, p2
MCSource == (a :> <<p1>> @@ b :> <<p2>>)
=============================================================================
