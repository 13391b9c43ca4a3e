--------------------------- MODULE SockaddrFixup ---------------------------
(***************************************************************************)
(* Address families (conversion/network/duct.c) and the in-place           *)
(* conversion of a socket address that Linux has filled in                 *)
(* (xnu_syscall/bsd/helper/network/duct.c).  A family is its number; the   *)
(* sun_path of an address is abstracted to its strlen.                     *)
(***************************************************************************)
EXTENDS Integers, ErrnoConversion

UCHAR_MAX == 255
USHRT_MAX == 65535
Byte == 0 .. UCHAR_MAX
UShort == 0 .. USHRT_MAX

CONSTANT HostPF   \* PF_LOCAL, PF_INET, PF_IPX, PF_INET6 of the build's <sys/socket.h>

ASSUME HostPFAssumption == HostPF \in [{"LOCAL", "INET", "IPX", "INET6"} -> Byte]

LINUX_PF_LOCAL == 1
LINUX_PF_INET  == 2
LINUX_PF_IPX   == 4
LINUX_PF_INET6 == 10

sfamily_linux_to_bsd(family) ==
    CASE family = LINUX_PF_LOCAL -> HostPF["LOCAL"]
      [] family = LINUX_PF_INET  -> HostPF["INET"]
      [] family = LINUX_PF_IPX   -> HostPF["IPX"]
      [] family = LINUX_PF_INET6 -> HostPF["INET6"]
      [] OTHER -> family

\* The two header bytes of struct sockaddr_fixup and the length of its path.
Sockaddr == [bsd_length : Byte, bsd_family : Byte, path : Nat]

\* The other member of the union: both bytes as a little-endian unsigned short.
LittleEndian(first, second) == first + 256 * second
linux_family(sa) == LittleEndian(sa.bsd_length, sa.bsd_family)

\* sizeof(struct sockaddr_fixup) - sizeof(sun_path), and sizeof(sun_path)
HeaderSize == 2
PathSize == 104

\* The stub of vchroot_userspace.c: leaves the path alone and reports success.
vchroot_unexpand == 0

\* strncpy into sun_path, whose last byte is then set to NUL
Clipped(path) == IF path < PathSize THEN path ELSE PathSize - 1

\* Mutants: the family field is as wide as Linux's; the length byte is stored before
\* the family, which shares it, is read.
sockaddr_fixup_from_linux_WideFamily(sa, len) ==
    [ret |-> len,
     out |-> [sa EXCEPT !.bsd_length = len % 256,
                        !.bsd_family = sfamily_linux_to_bsd(linux_family(sa))]]
sockaddr_fixup_from_linux_LengthFirst(sa, len) ==
    LET stored == [sa EXCEPT !.bsd_length = len % 256]
    IN  [ret |-> len,
         out |-> [stored EXCEPT !.bsd_family =
                                    sfamily_linux_to_bsd(linux_family(stored)) % 256]]

\* What sockaddr_fixup_from_linux(sa, sa, len) leaves in sa ("out") and returns
\* ("ret").  The family is narrowed to a byte, and so is the stored length.
sockaddr_fixup_from_linux(sa, len) ==
    LET family == sfamily_linux_to_bsd(linux_family(sa)) % 256
        local  == family = HostPF["LOCAL"]
        path   == IF local THEN Clipped(sa.path) ELSE sa.path
        ret    == IF local THEN HeaderSize + path + 1 ELSE len
    IN  IF local /\ vchroot_unexpand < 0
        THEN [ret |-> errno_linux_to_bsd(vchroot_unexpand),
              out |-> [sa EXCEPT !.bsd_family = family]]
        ELSE [ret |-> ret,
              out |-> [bsd_length |-> IF ret >= 0 THEN ret % 256 ELSE sa.bsd_length,
                       bsd_family |-> family,
                       path       |-> path]]
=============================================================================
