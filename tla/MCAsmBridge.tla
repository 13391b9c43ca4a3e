---------------------------- MODULE MCAsmBridge ----------------------------
(***************************************************************************)
(* An instance of AsmBridge for TLC.  Every register has a value of its    *)
(* own, so that any exchange of two of them shows.                         *)
(***************************************************************************)
EXTENDS AsmBridge

\* Room for the stub's two words, the bridge's two, the block, the return address
\* of the C bridge and a word of its frame, and for three arguments above.
MCStack == 80 .. 103

MCStart ==
    { [r \in Register |-> CASE r = "rsp" -> 100 - 2 * shift
                            [] r = "rbp" -> 102
                            [] r = "rflags" -> 640 + carry
                            [] OTHER -> 1000 + Offset(r)] : shift \in 0..1, carry \in 0..1 }

MCStackArg == <<2007, 2008, 2009>>
=============================================================================
