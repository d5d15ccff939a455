------------------------------- MODULE MCSweep -------------------------------
\* Sweep for two boxes that share a channel.
EXTENDS Sweep

SharedChannel == [b \in Boxes |-> {b, 2}]
=============================================================================
