----------------------------- MODULE MCUdpTest -----------------------------
(***************************************************************************)
(* Instances of UdpTest for TLC.                                           *)
(***************************************************************************)
EXTENDS UdpTest

\* PF_LOCAL, PF_INET, PF_IPX and PF_INET6 as Linux and as Darwin number them, and the
\* errno values, which the test does not look at.
MCHostPF == [LOCAL |-> 1, INET |-> 2, IPX |-> 4, INET6 |-> 10]
MCHostErrno == [v \in Translated |-> v]
=============================================================================
