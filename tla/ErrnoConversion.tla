-------------------------- MODULE ErrnoConversion --------------------------
(***************************************************************************)
(* emulation/src/conversion/errno.c: the table from Linux errno numbers to *)
(* the numbers of the headers the library is compiled against, and the     *)
(* function that applies it.  An errno is named by its Linux number        *)
(* (duct_errno.h).                                                         *)
(***************************************************************************)
EXTENDS Integers

\* The Linux numbers that have a row of their own in linux_to_darwin.
Translated == (1..6) \cup (8..40) \cup {42, 43} \cup (60..63) \cup {66, 67}
              \cup {71, 72, 74, 75, 84} \cup (87..116) \cup {122, 125}

\* What a kernel can answer: the last page of the address space, negated.
MAX_ERRNO == 4095
ErrnoValue == 1 .. MAX_ERRNO

CONSTANTS
    HostErrno,     \* what <sys/errno.h> of the build calls each translated errno
    HostENOTSUP    \* ENOTSUP in the same header

ASSUME HostErrnoAssumption ==
    /\ HostErrno \in [Translated -> ErrnoValue]
    /\ HostENOTSUP \in ErrnoValue

length_of_translation_array == 512

\* A number without a designated initialiser holds 0.  LINUX_ENOTSUP is defined
\* as the host's EOPNOTSUPP (Linux 95), so its row is indexed by a host number
\* and stands only where no other row has that index.
Row(v) == IF v \in Translated THEN HostErrno[v]
          ELSE IF v = HostErrno[95] THEN HostENOTSUP
          ELSE 0

linux_to_darwin == [v \in 0 .. length_of_translation_array - 1 |-> Row(v)]

Abs(i) == IF i < 0 THEN -i ELSE i

\* The sign of the argument is the sign of the result; a number without a
\* translation is returned as it is.
errno_linux_to_bsd(err) ==
    LET v == Abs(err)
    IN  IF v < length_of_translation_array /\ linux_to_darwin[v] # 0
        THEN IF err < 0 THEN -linux_to_darwin[v] ELSE linux_to_darwin[v]
        ELSE err
=============================================================================
