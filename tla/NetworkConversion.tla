-------------------------- MODULE NetworkConversion --------------------------
(***************************************************************************)
(* Both directions of the network conversions: address families and        *)
(* message flags (conversion/network/duct.c) and socket addresses          *)
(* (xnu_syscall/bsd/helper/network/duct.c), on a round trip of what a      *)
(* macOS program hands to Linux and gets back from it.  On the way out an  *)
(* address is converted by sockaddr_fixup_from_bsd, which no call of the   *)
(* table uses yet, on the way back by sockaddr_fixup_from_linux, as        *)
(* recvfrom does.                                                          *)
(***************************************************************************)
EXTENDS SockaddrFixup, FiniteSets

CONSTANTS
    Family,     \* address families of the program, in the build's numbers
    Path,       \* lengths of the local paths it uses
    Stale,      \* how many bytes other than NUL an earlier use may have left in a row
    Untranslated   \* bound: how many flags at a time are not in the translation

ASSUME InputAssumption ==
    /\ Family \subseteq Byte
    /\ Path \subseteq 0 .. PathSize
    /\ Stale \subseteq Nat
    /\ Untranslated \in Nat

\* The families are the labels of a switch, of which no two are equal.
ASSUME FamiliesDiffer == \A f, g \in DOMAIN HostPF : HostPF[f] = HostPF[g] => f = g

-----------------------------------------------------------------------------
(***************************************************************************)
(* Families.                                                               *)
(***************************************************************************)
\* Mutant: one family is missing.
sfamily_bsd_to_linux_NoInet6(family) ==
    CASE family = HostPF["LOCAL"] -> LINUX_PF_LOCAL
      [] family = HostPF["INET"]  -> LINUX_PF_INET
      [] family = HostPF["IPX"]   -> LINUX_PF_IPX
      [] OTHER -> family

sfamily_bsd_to_linux(family) ==
    CASE family = HostPF["LOCAL"] -> LINUX_PF_LOCAL
      [] family = HostPF["INET"]  -> LINUX_PF_INET
      [] family = HostPF["IPX"]   -> LINUX_PF_IPX
      [] family = HostPF["INET6"] -> LINUX_PF_INET6
      [] OTHER -> family

\* The numbers that mean one of the four families on Linux, and another one, or none, to
\* the program: the translation's default hands them on as they are.
Ambiguous == {LINUX_PF_LOCAL, LINUX_PF_INET, LINUX_PF_IPX, LINUX_PF_INET6}
             \ {HostPF[f] : f \in DOMAIN HostPF}

-----------------------------------------------------------------------------
(***************************************************************************)
(* Message flags.  A flag word is the set of the bits in it.               *)
(***************************************************************************)
LINUX_MSG == [OOB |-> 1, PEEK |-> 2, DONTROUTE |-> 4, CTRUNC |-> 8, PROXY |-> 16,
              TRUNC |-> 32, DONTWAIT |-> 64, EOR |-> 128, WAITALL |-> 256, FIN |-> 512,
              SYN |-> 1024, CONFIRM |-> 2048, RST |-> 4096, ERRQUEUE |-> 8192,
              NOSIGNAL |-> 16384, MORE |-> 32768, WAITFORONE |-> 65536,
              FASTOPEN |-> 536870912, CMSG_CLOEXEC |-> 1073741824]

BSD_MSG == [OOB |-> 1, PEEK |-> 2, DONTROUTE |-> 4, EOR |-> 8, TRUNC |-> 16, CTRUNC |-> 32,
            WAITALL |-> 64, DONTWAIT |-> 128, EOF |-> 256, WAITSTREAM |-> 512,
            FLUSH |-> 1024, HOLD |-> 2048, SEND |-> 4096, HAVEMORE |-> 8192,
            RCVMORE |-> 16384, NEEDSA |-> 65536]

\* The names of the flags in a word, and the word of a set of names.
Named(msg, word) == {n \in DOMAIN msg : msg[n] \in word}
WordOf(msg, names) == {msg[n] : n \in names}

TranslatedFlags == {"OOB", "PEEK", "DONTROUTE", "EOR", "TRUNC", "CTRUNC", "WAITALL", "DONTWAIT"}

\* Mutant: the test of a flag looks at Linux's bit.
msgflags_bsd_to_linux_LinuxBits(flags) ==
    WordOf(LINUX_MSG, Named(LINUX_MSG, flags) \cap TranslatedFlags)

msgflags_bsd_to_linux(flags) ==
    WordOf(LINUX_MSG, Named(BSD_MSG, flags) \cap TranslatedFlags)

\* Mutant: two flags are exchanged.
msgflags_linux_to_bsd_Swapped(flags) ==
    LET names == Named(LINUX_MSG, flags) \cap TranslatedFlags
    IN  WordOf(BSD_MSG, {CASE n = "TRUNC" -> "CTRUNC" [] n = "CTRUNC" -> "TRUNC"
                           [] OTHER -> n : n \in names})

msgflags_linux_to_bsd(flags) ==
    WordOf(BSD_MSG, Named(LINUX_MSG, flags) \cap TranslatedFlags)

-----------------------------------------------------------------------------
(***************************************************************************)
(* Addresses.                                                              *)
(***************************************************************************)
sizeof_sockaddr_fixup == HeaderSize + PathSize

sockaddr_fixup_size_from_bsd(sa, len) ==
    IF sa.bsd_family = HostPF["LOCAL"] THEN sizeof_sockaddr_fixup ELSE len

\* The stub of vchroot_userspace.c, for a path relative to get_perthread_wd().
vchroot_expand == 0

\* The store of an unsigned short into the union.
StoreFamily(sa, family) ==
    [sa EXCEPT !.bsd_length = family % 256, !.bsd_family = (family \div 256) % 256]

\* memcpy(out, sa, len): out is another buffer than sa, and as far as len leaves it alone
\* it holds what it held.  A path without its NUL within len goes on with the rest bytes
\* that follow there up to the next NUL.
Copied(sa, len, rest) ==
    [sa EXCEPT !.path = IF @ < len - HeaderSize THEN @ ELSE len - HeaderSize + rest]

\* Mutant: the length of a local address is the whole structure's and the path's.
sockaddr_fixup_from_bsd_WholeSize(sa, len, rest) ==
    LET out   == StoreFamily(sa, sfamily_bsd_to_linux(sa.bsd_family))
        local == linux_family(out) = LINUX_PF_LOCAL
    IN  [ret |-> IF local THEN sizeof_sockaddr_fixup + Clipped(sa.path) ELSE len, out |-> out]

\* What sockaddr_fixup_from_bsd(out, sa, len) leaves in out and returns.
sockaddr_fixup_from_bsd(sa, len, rest) ==
    LET copy  == Copied(sa, len, rest)
        out   == StoreFamily(copy, sfamily_bsd_to_linux(copy.bsd_family))
        local == linux_family(out) = LINUX_PF_LOCAL
        path  == IF local THEN Clipped(copy.path) ELSE copy.path
    IN  IF local /\ vchroot_expand < 0
        THEN [ret |-> errno_linux_to_bsd(vchroot_expand), out |-> out]
        ELSE [ret |-> IF local THEN HeaderSize + path ELSE len,
              out |-> [out EXCEPT !.path = path]]

-----------------------------------------------------------------------------
(***************************************************************************)
(* The round trip.                                                         *)
(***************************************************************************)
VARIABLES
    pc,
    given,      \* the program's address, its length and its flag word
    stale,      \* what is left in the caller's out, behind the part that is written
    sent,       \* the same after the conversion
    linux,      \* the address and the flags as Linux understands them
    reported,   \* what Linux writes
    received    \* the same after the conversion back

vars == <<pc, given, stale, sent, linux, reported, received>>

sizeof_sockaddr_in6 == 28

\* A local address has any length from its header's on: its path may end in a NUL within
\* the length, at the length (SUN_LEN) or be longer.  The length byte need not be set.
LocalPackets ==
    { [sa |-> [bsd_length |-> b, bsd_family |-> HostPF["LOCAL"], path |-> p],
       len |-> l, flags |-> {}] :
            b \in {0, 106}, p \in Path, l \in HeaderSize .. sizeof_sockaddr_fixup }

OtherPackets ==
    { [sa |-> [bsd_length |-> b, bsd_family |-> f, path |-> 0],
       len |-> sizeof_sockaddr_in6, flags |-> {}] :
            b \in {0, sizeof_sockaddr_in6}, f \in Family \ ({HostPF["LOCAL"]} \cup Ambiguous) }

\* Every choice of the translated flags with at most Untranslated of the others.
FlagSets == {names \in SUBSET DOMAIN BSD_MSG :
                Cardinality(names \ TranslatedFlags) <= Untranslated}

FlagPackets ==
    { [sa |-> [bsd_length |-> 16, bsd_family |-> HostPF["INET"], path |-> 0],
       len |-> 16, flags |-> WordOf(BSD_MSG, names)] : names \in FlagSets }

None == [sa |-> [bsd_length |-> 0, bsd_family |-> 0, path |-> 0], len |-> 0, flags |-> {}]
Nothing == [family |-> 0, path |-> 0, flags |-> {}]

Packets == LocalPackets \cup OtherPackets \cup FlagPackets

Init ==
    /\ pc = "idle"
    /\ given = None /\ stale = 0
    /\ sent = None /\ reported = None /\ received = None
    /\ linux = Nothing

\* The program comes with an address and flags, and its caller's out with old bytes.
ProgramGives ==
    /\ pc = "idle"
    /\ pc' = "program"
    /\ given' \in Packets
    /\ stale' \in Stale
    /\ UNCHANGED <<sent, linux, reported, received>>

ConvertOut ==
    LET fixed == sockaddr_fixup_from_bsd(given.sa, given.len, stale)
    IN  /\ pc = "program"
        /\ pc' = "sent"
        /\ sent' = [sa |-> fixed.out, len |-> fixed.ret,
                    flags |-> msgflags_bsd_to_linux(given.flags)]
        /\ UNCHANGED <<given, stale, linux, reported, received>>

\* Linux takes the family and, of a local address, the path as far as the length says.
LinuxTakes ==
    LET room == sent.len - HeaderSize
    IN  /\ pc = "sent"
        /\ pc' = "linux"
        /\ linux' = [family |-> linux_family(sent.sa),
                     path |-> IF sent.sa.path < room THEN sent.sa.path ELSE room,
                     flags |-> Named(LINUX_MSG, sent.flags)]
        /\ UNCHANGED <<given, stale, sent, reported, received>>

\* Linux reports the address of a peer: a local one with the NUL that it has added.
LinuxReports ==
    /\ pc = "linux"
    /\ pc' = "reported"
    /\ reported' = [sa |-> StoreFamily([None.sa EXCEPT !.path = linux.path], linux.family),
                    len |-> IF linux.family = LINUX_PF_LOCAL
                            THEN HeaderSize + linux.path + 1 ELSE sent.len,
                    flags |-> WordOf(LINUX_MSG, linux.flags)]
    /\ UNCHANGED <<given, stale, sent, linux, received>>

ConvertBack ==
    LET fixed == sockaddr_fixup_from_linux(reported.sa, reported.len)
    IN  /\ pc = "reported"
        /\ pc' = "received"
        /\ received' = [sa |-> fixed.out, len |-> fixed.ret,
                        flags |-> msgflags_linux_to_bsd(reported.flags)]
        /\ UNCHANGED <<given, stale, sent, linux, reported>>

\* The program's next exchange.
NextExchange ==
    /\ pc = "received"
    /\ pc' = "idle"
    /\ given' = None /\ stale' = 0
    /\ sent' = None /\ reported' = None /\ received' = None
    /\ linux' = Nothing

Next ==
    ProgramGives \/ ConvertOut \/ LinuxTakes \/ LinuxReports \/ ConvertBack \/ NextExchange

Spec == Init /\ [][Next]_vars

\* An address never grows beyond the buffer its caller has made for it.
TypeOK ==
    /\ pc \in {"idle", "program", "sent", "linux", "reported", "received"}
    /\ \A p \in {given, sent, reported, received} :
            p.sa \in Sockaddr /\ p.len \in 0 .. 128 /\ p.flags \subseteq Int
    /\ linux.family \in UShort /\ linux.path \in Nat
    /\ linux.flags \subseteq DOMAIN LINUX_MSG
    /\ stale \in Stale \cup {0}
    /\ sent.len <= sockaddr_fixup_size_from_bsd(given.sa, given.len)

-----------------------------------------------------------------------------
(***************************************************************************)
(* Properties.                                                             *)
(***************************************************************************)
LinuxNumber(family) ==
    IF \E f \in DOMAIN HostPF : HostPF[f] = family
    THEN LET f == CHOOSE f \in DOMAIN HostPF : HostPF[f] = family
         IN  CASE f = "LOCAL" -> 1 [] f = "INET" -> 2 [] f = "IPX" -> 4 [] f = "INET6" -> 10
    ELSE family

\* The length of the local path that the program means, which a NUL or the address's
\* length ends; and of what sockaddr_fixup_from_bsd takes for it: without a NUL within the
\* length, the path goes on with whatever is left in out, up to the last byte but one.
MeantPath ==
    IF given.sa.path < given.len - HeaderSize THEN given.sa.path ELSE given.len - HeaderSize
TakenPath == Clipped(IF given.sa.path < given.len - HeaderSize THEN given.sa.path
                     ELSE MeantPath + stale)

\* Linux sees the address the program means, although the 16 bits of Linux's family lie
\* over the length and the family byte of a BSD address: the four families in Linux's
\* numbers, and a local path up to its 103rd byte, if its NUL is within the length or out
\* has been zeroed.  Otherwise the path Linux sees goes on with stale bytes, and nothing
\* but them.  (The families in Ambiguous are left out: the default of the translation gives
\* Linux another family than the program means.)
LinuxSeesAddress ==
    pc \in {"linux", "reported", "received"} =>
        /\ linux.family = LinuxNumber(given.sa.bsd_family)
        /\ linux.family = LINUX_PF_LOCAL =>
              IF (given.sa.path < given.len - HeaderSize \/ stale = 0) /\ MeantPath < PathSize
              THEN linux.path = MeantPath
              ELSE linux.path = TakenPath

\* What Linux reports back is, after the conversion, the address the program has given:
\* the family, the local path that Linux has seen with its NUL counted in the length, and
\* the length byte that Linux does not have.
AddressComesBack ==
    pc = "received" =>
        /\ received.sa.bsd_family = given.sa.bsd_family
        /\ received.sa.bsd_length = received.len
        /\ IF given.sa.bsd_family = HostPF["LOCAL"]
           THEN received.sa.path = TakenPath /\ received.len = HeaderSize + TakenPath + 1
           ELSE received.sa.path = given.sa.path /\ received.len = given.len

\* Both flag words give a flag the same name, although the numbers of most differ, and a
\* flag that Linux does not have is dropped rather than taken for another one.
FlagsKeepTheirNames ==
    /\ pc \in {"linux", "reported", "received"} =>
            linux.flags = Named(BSD_MSG, given.flags) \cap TranslatedFlags
    /\ pc = "received" =>
            Named(BSD_MSG, received.flags) = Named(BSD_MSG, given.flags) \cap TranslatedFlags

-----------------------------------------------------------------------------
(***************************************************************************)
(* Inductive invariant: what each conversion has made of the program's     *)
(* address and flags.                                                      *)
(***************************************************************************)
MeantFamily == LinuxNumber(given.sa.bsd_family)
MeantFlags == Named(BSD_MSG, given.flags) \cap TranslatedFlags
IsLocal == given.sa.bsd_family = HostPF["LOCAL"]

CarriedPath == IF IsLocal THEN TakenPath ELSE given.sa.path

OutFaithful ==
    pc \in {"sent", "linux", "reported", "received"} =>
        /\ sent.sa \in Sockaddr
        /\ linux_family(sent.sa) = MeantFamily
        /\ sent.sa.path = CarriedPath
        /\ sent.len = IF IsLocal THEN HeaderSize + CarriedPath ELSE given.len
        /\ sent.flags = WordOf(LINUX_MSG, MeantFlags)

TakenFaithful ==
    pc \in {"linux", "reported", "received"} =>
        /\ linux.family = MeantFamily
        /\ linux.path = CarriedPath
        /\ linux.flags = MeantFlags

ReportFaithful ==
    pc \in {"reported", "received"} =>
        /\ reported.sa \in Sockaddr
        /\ linux_family(reported.sa) = MeantFamily
        /\ reported.sa.path = CarriedPath
        /\ reported.len = IF IsLocal THEN HeaderSize + CarriedPath + 1 ELSE given.len
        /\ reported.flags = WordOf(LINUX_MSG, MeantFlags)

BackFaithful ==
    pc = "received" =>
        /\ AddressComesBack
        /\ received.sa \in Sockaddr
        /\ received.flags = WordOf(BSD_MSG, MeantFlags)

Faithful ==
    /\ pc # "idle" => given \in Packets
    /\ stale \in Stale \cup {0}
    /\ OutFaithful /\ TakenFaithful /\ ReportFaithful /\ BackFaithful
=============================================================================
