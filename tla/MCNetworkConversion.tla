------------------------- MODULE MCNetworkConversion -------------------------
(***************************************************************************)
(* An instance of NetworkConversion for TLC.                               *)
(***************************************************************************)
EXTENDS NetworkConversion

\* The numbers of Darwin's headers, which differ from Linux's for IPX and INET6.
MCHostPF == [LOCAL |-> 1, INET |-> 2, IPX |-> 23, INET6 |-> 30]
MCHostErrno == [v \in Translated |-> v]

\* The four, one that neither side translates (APPLETALK), and Linux's own IPX and INET6.
MCFamily == {1, 2, 23, 30, 16, 4, 10}
=============================================================================
