---------------------------- MODULE MCUdpStreams ----------------------------
(***************************************************************************)
(* UdpStreams for TLC.                                                     *)
(***************************************************************************)
EXTENDS UdpStreams

\* Both streams together are explored with one fault or payload, one stream
\* alone with all that MaxFaults and MaxData allow.
Focus == (\A s \in Streams : cpc[s] # "idle") => faults + spent <= 1

=============================================================================
