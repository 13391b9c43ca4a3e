----------------------- MODULE NetworkConversionProofs -----------------------
(***************************************************************************)
(* Safety of NetworkConversion: an address and a flag word on their way to *)
(* Linux and back, for every numbering of the families by the build's      *)
(* headers, every family, every local path and length of a local address,  *)
(* every run of stale bytes and every flag word.                           *)
(***************************************************************************)
EXTENDS NetworkConversion, TLAPS

-----------------------------------------------------------------------------
(***************************************************************************)
(* Families.                                                               *)
(***************************************************************************)
LEMMA BuildFamilies ==
    /\ DOMAIN HostPF = {"LOCAL", "INET", "IPX", "INET6"}
    /\ \A f \in DOMAIN HostPF : HostPF[f] \in 0 .. 255
BY HostPFAssumption DEF Byte, UCHAR_MAX

\* Of the four families LinuxNumber is Linux's number, of the others their own.
LEMMA LinuxNumberOf ==
    /\ LinuxNumber(HostPF["LOCAL"]) = 1
    /\ LinuxNumber(HostPF["INET"]) = 2
    /\ LinuxNumber(HostPF["IPX"]) = 4
    /\ LinuxNumber(HostPF["INET6"]) = 10
    /\ \A v : (\A f \in DOMAIN HostPF : HostPF[f] # v) => LinuxNumber(v) = v
<1>1. ASSUME NEW x \in DOMAIN HostPF
      PROVE  (CHOOSE f \in DOMAIN HostPF : HostPF[f] = HostPF[x]) = x
    BY <1>1, FamiliesDiffer
<1>2. ASSUME NEW x \in DOMAIN HostPF
      PROVE  LinuxNumber(HostPF[x]) =
                 CASE x = "LOCAL" -> 1 [] x = "INET" -> 2 [] x = "IPX" -> 4 [] x = "INET6" -> 10
    BY <1>1, <1>2 DEF LinuxNumber
<1>3. \A v : (\A f \in DOMAIN HostPF : HostPF[f] # v) => LinuxNumber(v) = v
    BY DEF LinuxNumber
<1> QED
    BY <1>2, <1>3, BuildFamilies

\* The translation gives Linux its own number of a family, and back: outside Ambiguous
\* the two functions are inverse, and only the local family becomes Linux's.
LEMMA FamilyThereAndBack ==
    ASSUME NEW v \in Byte, v \notin Ambiguous
    PROVE  /\ sfamily_bsd_to_linux(v) = LinuxNumber(v)
           /\ LinuxNumber(v) \in 0 .. 255
           /\ sfamily_linux_to_bsd(LinuxNumber(v)) = v
           /\ LinuxNumber(v) = 1 <=> v = HostPF["LOCAL"]
<1> USE DEF LINUX_PF_LOCAL, LINUX_PF_INET, LINUX_PF_IPX, LINUX_PF_INET6
<1>1. /\ HostPF["LOCAL"] # HostPF["INET"] /\ HostPF["LOCAL"] # HostPF["IPX"]
      /\ HostPF["LOCAL"] # HostPF["INET6"] /\ HostPF["INET"] # HostPF["IPX"]
      /\ HostPF["INET"] # HostPF["INET6"] /\ HostPF["IPX"] # HostPF["INET6"]
    BY BuildFamilies, FamiliesDiffer
<1>2. /\ sfamily_linux_to_bsd(1) = HostPF["LOCAL"]
      /\ sfamily_linux_to_bsd(2) = HostPF["INET"]
      /\ sfamily_linux_to_bsd(4) = HostPF["IPX"]
      /\ sfamily_linux_to_bsd(10) = HostPF["INET6"]
    BY DEF sfamily_linux_to_bsd
<1>3. /\ sfamily_bsd_to_linux(HostPF["LOCAL"]) = 1
      /\ sfamily_bsd_to_linux(HostPF["INET"]) = 2
      /\ sfamily_bsd_to_linux(HostPF["IPX"]) = 4
      /\ sfamily_bsd_to_linux(HostPF["INET6"]) = 10
    BY <1>1 DEF sfamily_bsd_to_linux
<1>4. CASE \E f \in DOMAIN HostPF : HostPF[f] = v
    BY <1>1, <1>2, <1>3, <1>4, BuildFamilies, LinuxNumberOf
<1>5. CASE \A f \in DOMAIN HostPF : HostPF[f] # v
    <2>1. LinuxNumber(v) = v
        BY <1>5, LinuxNumberOf
    <2>2. v \notin {1, 2, 4, 10}
        BY <1>5 DEF Ambiguous
    <2>3. sfamily_bsd_to_linux(v) = v
        BY <1>5, BuildFamilies DEF sfamily_bsd_to_linux
    <2>4. sfamily_linux_to_bsd(v) = v
        BY <2>2 DEF sfamily_linux_to_bsd
    <2>5. v # HostPF["LOCAL"]
        BY <1>5, BuildFamilies
    <2> QED BY <2>1, <2>2, <2>3, <2>4, <2>5 DEF Byte, UCHAR_MAX
<1> QED
    BY <1>4, <1>5

\* The 16 bits of a family below 256 are read as they have been stored.
LEMMA FamilyStored ==
    ASSUME NEW sa \in Sockaddr, NEW v \in 0 .. 255
    PROVE  /\ StoreFamily(sa, v) = [bsd_length |-> v, bsd_family |-> 0, path |-> sa.path]
           /\ StoreFamily(sa, v) \in Sockaddr
           /\ linux_family(StoreFamily(sa, v)) = v
<1>1. v % 256 = v /\ (v \div 256) % 256 = 0
    OBVIOUS
<1>2. StoreFamily(sa, v) = [bsd_length |-> v, bsd_family |-> 0, path |-> sa.path]
    <2>1. StoreFamily(sa, v) = [[sa EXCEPT !.bsd_length = v] EXCEPT !.bsd_family = 0]
        BY <1>1 DEF StoreFamily
    <2>2. [sa EXCEPT !.bsd_length = v]
              = [bsd_length |-> v, bsd_family |-> sa.bsd_family, path |-> sa.path]
        BY DEF Sockaddr
    <2> QED BY <2>1, <2>2
<1> QED
    BY <1>2 DEF linux_family, LittleEndian, Sockaddr, Byte, UCHAR_MAX

-----------------------------------------------------------------------------
(***************************************************************************)
(* Flags.                                                                  *)
(***************************************************************************)
\* No other flag of a side has the number of a translated one.
LEMMA FlagNumbers ==
    ASSUME NEW n \in TranslatedFlags
    PROVE  /\ n \in DOMAIN LINUX_MSG /\ LINUX_MSG[n] \in Int
           /\ n \in DOMAIN BSD_MSG /\ BSD_MSG[n] \in Int
           /\ \A m \in DOMAIN LINUX_MSG : LINUX_MSG[n] = LINUX_MSG[m] => n = m
           /\ \A m \in DOMAIN BSD_MSG : BSD_MSG[n] = BSD_MSG[m] => n = m
BY DEF TranslatedFlags, LINUX_MSG, BSD_MSG

\* The names in the word of some translated flags are those flags.
LEMMA NamesOfWord ==
    ASSUME NEW names, names \subseteq TranslatedFlags
    PROVE  /\ Named(LINUX_MSG, WordOf(LINUX_MSG, names)) = names
           /\ Named(BSD_MSG, WordOf(BSD_MSG, names)) = names
           /\ WordOf(LINUX_MSG, names) \subseteq Int
           /\ WordOf(BSD_MSG, names) \subseteq Int
BY FlagNumbers DEF Named, WordOf

-----------------------------------------------------------------------------
(***************************************************************************)
(* What the program hands out.                                             *)
(***************************************************************************)
LEMMA PacketParts ==
    ASSUME NEW p \in Packets
    PROVE  /\ p.sa \in Sockaddr
           /\ p.sa.bsd_family \notin Ambiguous
           /\ p.flags \subseteq Int
           /\ p.sa.bsd_family = HostPF["LOCAL"] =>
                  p.sa.path \in 0 .. PathSize /\ p.len \in 2 .. 106
           /\ p.sa.bsd_family # HostPF["LOCAL"] => p.sa.path = 0 /\ p.len \in {16, 28}
<1>1. HostPF["LOCAL"] \notin Ambiguous /\ HostPF["INET"] \notin Ambiguous
    BY BuildFamilies DEF Ambiguous
<1>2. HostPF["LOCAL"] # HostPF["INET"]
    BY BuildFamilies, FamiliesDiffer
<1>3. HostPF["LOCAL"] \in Byte /\ HostPF["INET"] \in Byte /\ Family \subseteq Byte
    BY BuildFamilies, InputAssumption DEF Byte, UCHAR_MAX
<1>4. /\ Path \subseteq Nat /\ Path \subseteq 0 .. PathSize
      /\ HeaderSize .. sizeof_sockaddr_fixup = 2 .. 106
    BY InputAssumption DEF PathSize, HeaderSize, sizeof_sockaddr_fixup
<1>5. {0, 16, 28, 106} \subseteq Byte
    BY DEF Byte, UCHAR_MAX
<1>6. CASE p \in LocalPackets
    <2>1. PICK b \in {0, 106}, x \in Path, l \in HeaderSize .. sizeof_sockaddr_fixup :
              p = [sa |-> [bsd_length |-> b, bsd_family |-> HostPF["LOCAL"], path |-> x],
                   len |-> l, flags |-> {}]
        BY <1>6 DEF LocalPackets
    <2> QED BY <1>1, <1>3, <1>4, <1>5, <2>1 DEF Sockaddr
<1>7. CASE p \in OtherPackets
    <2>1. PICK b \in {0, sizeof_sockaddr_in6}, f \in Family \ ({HostPF["LOCAL"]} \cup Ambiguous) :
              p = [sa |-> [bsd_length |-> b, bsd_family |-> f, path |-> 0],
                   len |-> sizeof_sockaddr_in6, flags |-> {}]
        BY <1>7 DEF OtherPackets
    <2> QED BY <1>3, <1>5, <2>1 DEF Sockaddr, sizeof_sockaddr_in6
<1>8. CASE p \in FlagPackets
    <2>1. PICK names \in FlagSets :
              p = [sa |-> [bsd_length |-> 16, bsd_family |-> HostPF["INET"], path |-> 0],
                   len |-> 16, flags |-> WordOf(BSD_MSG, names)]
        BY <1>8 DEF FlagPackets
    <2>2. \A n \in DOMAIN BSD_MSG : BSD_MSG[n] \in Int
        BY DEF BSD_MSG
    <2>3. WordOf(BSD_MSG, names) \subseteq Int
        BY <2>2 DEF WordOf, FlagSets
    <2> QED BY <1>1, <1>2, <1>3, <1>5, <2>1, <2>3 DEF Sockaddr
<1> QED
    BY <1>6, <1>7, <1>8 DEF Packets

\* The program's family in Linux's number.
LEMMA MeantFamilyParts ==
    ASSUME given \in Packets
    PROVE  /\ sfamily_bsd_to_linux(given.sa.bsd_family) = MeantFamily
           /\ MeantFamily \in 0 .. 255
           /\ sfamily_linux_to_bsd(MeantFamily) = given.sa.bsd_family
           /\ MeantFamily = 1 <=> IsLocal
<1>1. given.sa.bsd_family \in Byte /\ given.sa.bsd_family \notin Ambiguous
    BY PacketParts DEF Sockaddr
<1> QED
    BY <1>1, FamilyThereAndBack DEF MeantFamily, IsLocal

-----------------------------------------------------------------------------
(***************************************************************************)
(* Steps.                                                                  *)
(***************************************************************************)
\* While given and stale stay, so does what is meant and what is taken for it.
LEMMA MeaningKept ==
    ASSUME given' = given, stale' = stale
    PROVE  /\ MeantFamily' = MeantFamily /\ MeantFlags' = MeantFlags /\ IsLocal' = IsLocal
           /\ CarriedPath' = CarriedPath /\ TakenPath' = TakenPath
BY DEF MeantFamily, MeantFlags, IsLocal, CarriedPath, TakenPath, MeantPath

\* What sockaddr_fixup_from_bsd takes for the path: of a local address the meant one, or
\* what goes on with stale bytes; of the others, which have none, nothing.
LEMMA TakenParts ==
    ASSUME given \in Packets, stale \in Nat
    PROVE  /\ TakenPath = Clipped(Copied(given.sa, given.len, stale).path)
           /\ Copied(given.sa, given.len, stale).path \in Nat
           /\ IsLocal => CarriedPath \in 0 .. 103
           /\ ~IsLocal => CarriedPath = 0 /\ Copied(given.sa, given.len, stale).path = 0
<1>1. given.sa \in Sockaddr /\ given.sa.path \in Nat
    BY PacketParts DEF Sockaddr
<1>2. /\ IsLocal => given.len \in 2 .. 106
      /\ ~IsLocal => given.sa.path = 0 /\ given.len \in {16, 28}
    BY PacketParts DEF IsLocal
<1>3. Copied(given.sa, given.len, stale).path =
          IF given.sa.path < given.len - 2 THEN given.sa.path ELSE given.len - 2 + stale
    BY <1>1 DEF Copied, Sockaddr, HeaderSize
<1>4. TakenPath = Clipped(Copied(given.sa, given.len, stale).path)
    BY <1>3 DEF TakenPath, MeantPath, HeaderSize
<1>5. CASE IsLocal
    BY <1>1, <1>2, <1>3, <1>4, <1>5 DEF CarriedPath, Clipped, PathSize
<1>6. CASE ~IsLocal
    BY <1>1, <1>2, <1>3, <1>4, <1>6 DEF CarriedPath
<1> QED
    BY <1>4, <1>5, <1>6

LEMMA ConvertOutStep ==
    ASSUME Faithful, ConvertOut
    PROVE  Faithful'
<1> DEFINE copy == Copied(given.sa, given.len, stale)
           fixed == sockaddr_fixup_from_bsd(given.sa, given.len, stale)
           out == StoreFamily(copy, MeantFamily)
<1>1. given \in Packets /\ given' = given /\ stale' = stale /\ stale \in Nat /\ pc' = "sent"
    BY InputAssumption DEF Faithful, ConvertOut
<1>2. /\ copy \in Sockaddr /\ copy.bsd_family = given.sa.bsd_family
      /\ IsLocal => Clipped(copy.path) = CarriedPath
      /\ ~IsLocal => copy.path = CarriedPath
    <2>1. given.sa \in Sockaddr
        BY <1>1, PacketParts
    <2>2. copy = [bsd_length |-> given.sa.bsd_length, bsd_family |-> given.sa.bsd_family,
                  path |-> copy.path]
        BY <2>1 DEF Copied, Sockaddr
    <2>3. copy.path \in Nat
        BY <1>1, TakenParts
    <2>4. copy \in Sockaddr /\ copy.bsd_family = given.sa.bsd_family
        <3> HIDE DEF copy
        <3> QED BY <2>1, <2>2, <2>3 DEF Sockaddr
    <2> QED BY <1>1, <2>4, TakenParts DEF CarriedPath
<1>3. /\ out \in Sockaddr /\ linux_family(out) = MeantFamily
      /\ out = [bsd_length |-> MeantFamily, bsd_family |-> 0, path |-> copy.path]
      /\ StoreFamily(copy, sfamily_bsd_to_linux(copy.bsd_family)) = out
    <2>1. MeantFamily \in 0 .. 255 /\ sfamily_bsd_to_linux(given.sa.bsd_family) = MeantFamily
        BY <1>1, MeantFamilyParts
    <2> HIDE DEF copy
    <2> QED BY <1>2, <2>1, FamilyStored
<1>4. fixed = [ret |-> IF IsLocal THEN HeaderSize + CarriedPath ELSE given.len,
               out |-> [out EXCEPT !.path = CarriedPath]]
    BY <1>1, <1>2, <1>3, MeantFamilyParts DEF sockaddr_fixup_from_bsd, vchroot_expand,
                                              LINUX_PF_LOCAL
<1>5. /\ fixed.out \in Sockaddr /\ linux_family(fixed.out) = MeantFamily
      /\ fixed.out.path = CarriedPath
    <2>1. CarriedPath \in Nat /\ MeantFamily \in 0 .. 255
        BY <1>1, TakenParts, MeantFamilyParts
    <2>2. fixed.out = [bsd_length |-> MeantFamily, bsd_family |-> 0, path |-> CarriedPath]
        <3> HIDE DEF fixed, out
        <3> QED BY <1>3, <1>4
    <2> HIDE DEF fixed
    <2> QED BY <2>1, <2>2 DEF linux_family, LittleEndian, Sockaddr, Byte, UCHAR_MAX
<1>6. sent' = [sa |-> fixed.out, len |-> IF IsLocal THEN HeaderSize + CarriedPath ELSE given.len,
               flags |-> WordOf(LINUX_MSG, MeantFlags)]
    BY <1>4 DEF ConvertOut, msgflags_bsd_to_linux, MeantFlags
<1>7. OutFaithful'
    <2> HIDE DEF fixed
    <2> QED BY <1>1, <1>5, <1>6, MeaningKept DEF OutFaithful
<1>8. TakenFaithful' /\ ReportFaithful' /\ BackFaithful'
    BY <1>1 DEF TakenFaithful, ReportFaithful, BackFaithful
<1> QED
    BY <1>1, <1>7, <1>8 DEF Faithful

LEMMA LinuxTakesStep ==
    ASSUME Faithful, LinuxTakes
    PROVE  Faithful'
<1>1. /\ given \in Packets /\ given' = given /\ stale' = stale /\ stale \in Nat /\ sent' = sent
      /\ pc = "sent" /\ pc' = "linux"
    BY InputAssumption DEF Faithful, LinuxTakes
<1>2. /\ linux_family(sent.sa) = MeantFamily
      /\ sent.sa.path = CarriedPath
      /\ sent.len = IF IsLocal THEN HeaderSize + CarriedPath ELSE given.len
      /\ sent.flags = WordOf(LINUX_MSG, MeantFlags)
    BY <1>1 DEF Faithful, OutFaithful
<1>3. (IF sent.sa.path < sent.len - HeaderSize THEN sent.sa.path ELSE sent.len - HeaderSize)
          = CarriedPath
    <2>1. CASE IsLocal
        <3>1. CarriedPath \in Nat
            BY <1>1, <2>1, TakenParts
        <3> QED BY <1>2, <2>1, <3>1 DEF HeaderSize
    <2>2. CASE ~IsLocal
        <3>1. CarriedPath = 0 /\ given.len \in {16, 28}
            BY <1>1, <2>2, PacketParts, TakenParts DEF IsLocal
        <3> QED BY <1>2, <2>2, <3>1 DEF HeaderSize
    <2> QED BY <2>1, <2>2
<1>4. Named(LINUX_MSG, sent.flags) = MeantFlags
    BY <1>2, NamesOfWord DEF MeantFlags
<1>5. linux' = [family |-> MeantFamily, path |-> CarriedPath, flags |-> MeantFlags]
    BY <1>2, <1>3, <1>4 DEF LinuxTakes
<1>6. OutFaithful'
    BY <1>1, MeaningKept DEF Faithful, OutFaithful
<1>7. TakenFaithful'
    BY <1>1, <1>5, MeaningKept DEF TakenFaithful
<1>8. ReportFaithful' /\ BackFaithful'
    BY <1>1 DEF ReportFaithful, BackFaithful
<1> QED
    BY <1>1, <1>6, <1>7, <1>8 DEF Faithful

LEMMA LinuxReportsStep ==
    ASSUME Faithful, LinuxReports
    PROVE  Faithful'
<1> DEFINE blank == [None.sa EXCEPT !.path = linux.path]
<1>1. /\ given \in Packets /\ given' = given /\ stale' = stale /\ stale \in Nat
      /\ UNCHANGED <<sent, linux>>
      /\ pc = "linux" /\ pc' = "reported"
    BY InputAssumption DEF Faithful, LinuxReports
<1>2. /\ linux.family = MeantFamily /\ linux.path = CarriedPath /\ linux.flags = MeantFlags
      /\ sent.len = IF IsLocal THEN HeaderSize + CarriedPath ELSE given.len
    BY <1>1 DEF Faithful, OutFaithful, TakenFaithful
<1>3. blank \in Sockaddr /\ blank.path = CarriedPath
    <2>1. CarriedPath \in Nat
        BY <1>1, TakenParts
    <2> QED BY <1>2, <2>1 DEF None, Sockaddr, Byte, UCHAR_MAX
<1>4. MeantFamily \in 0 .. 255 /\ (MeantFamily = 1 <=> IsLocal)
    BY <1>1, MeantFamilyParts
<1>5. /\ StoreFamily(blank, MeantFamily) \in Sockaddr
      /\ linux_family(StoreFamily(blank, MeantFamily)) = MeantFamily
      /\ StoreFamily(blank, MeantFamily).path = CarriedPath
    <2> HIDE DEF blank
    <2>1. StoreFamily(blank, MeantFamily)
              = [bsd_length |-> MeantFamily, bsd_family |-> 0, path |-> blank.path]
        BY <1>3, <1>4, FamilyStored
    <2>2. /\ StoreFamily(blank, MeantFamily) \in Sockaddr
          /\ linux_family(StoreFamily(blank, MeantFamily)) = MeantFamily
        BY <1>3, <1>4, FamilyStored
    <2> QED BY <1>3, <2>1, <2>2
<1>6. reported' = [sa |-> StoreFamily(blank, MeantFamily),
                   len |-> IF IsLocal THEN HeaderSize + CarriedPath + 1 ELSE given.len,
                   flags |-> WordOf(LINUX_MSG, MeantFlags)]
    BY <1>2, <1>4 DEF LinuxReports, LINUX_PF_LOCAL
<1>7. OutFaithful' /\ TakenFaithful'
    BY <1>1, MeaningKept DEF Faithful, OutFaithful, TakenFaithful
<1>8. ReportFaithful'
    BY <1>1, <1>5, <1>6, MeaningKept DEF ReportFaithful
<1>9. BackFaithful'
    BY <1>1 DEF BackFaithful
<1> QED
    BY <1>1, <1>7, <1>8, <1>9 DEF Faithful

LEMMA ConvertBackStep ==
    ASSUME Faithful, ConvertBack
    PROVE  Faithful'
<1> DEFINE fixed == sockaddr_fixup_from_linux(reported.sa, reported.len)
           len == IF IsLocal THEN HeaderSize + CarriedPath + 1 ELSE given.len
<1>1. /\ given \in Packets /\ given' = given /\ stale' = stale /\ stale \in Nat
      /\ UNCHANGED <<sent, linux, reported>>
      /\ pc = "reported" /\ pc' = "received"
    BY InputAssumption DEF Faithful, ConvertBack
<1>2. /\ linux_family(reported.sa) = MeantFamily
      /\ reported.sa.path = CarriedPath
      /\ reported.len = len
      /\ reported.flags = WordOf(LINUX_MSG, MeantFlags)
    BY <1>1 DEF Faithful, ReportFaithful
<1>3. /\ given.sa \in Sockaddr
      /\ given.sa.bsd_family \in 0 .. 255 /\ CarriedPath \in Nat
    <2>1. given.sa \in Sockaddr /\ CarriedPath \in Nat
        BY <1>1, PacketParts, TakenParts
    <2> QED BY <2>1 DEF Sockaddr, Byte, UCHAR_MAX
<1>4. sfamily_linux_to_bsd(linux_family(reported.sa)) % 256 = given.sa.bsd_family
    <2>1. sfamily_linux_to_bsd(MeantFamily) = given.sa.bsd_family
        BY <1>1, MeantFamilyParts
    <2>2. given.sa.bsd_family % 256 = given.sa.bsd_family
        BY <1>3
    <2> QED BY <1>2, <2>1, <2>2
<1>5. IsLocal => Clipped(CarriedPath) = CarriedPath
    BY <1>1, TakenParts DEF Clipped, PathSize
<1>6. len \in 0 .. 255
    <2>1. CASE IsLocal
        <3>1. CarriedPath \in 0 .. 103
            BY <1>1, <2>1, TakenParts
        <3> QED BY <2>1, <3>1 DEF HeaderSize
    <2>2. CASE ~IsLocal
        BY <1>1, <2>2, PacketParts DEF IsLocal
    <2> QED BY <2>1, <2>2
<1>7. len >= 0 /\ len % 256 = len
    BY <1>6
<1>8. /\ fixed.ret = len
      /\ fixed.out = [bsd_length |-> len, bsd_family |-> given.sa.bsd_family,
                      path |-> CarriedPath]
    <2> HIDE DEF len
    <2>1. CASE IsLocal
        <3>1. len = HeaderSize + CarriedPath + 1
            BY <2>1 DEF len
        <3> QED
            BY <1>2, <1>4, <1>5, <1>7, <2>1, <3>1 DEF sockaddr_fixup_from_linux, vchroot_unexpand,
                                                      IsLocal
    <2>2. CASE ~IsLocal
        BY <1>2, <1>4, <1>7, <2>2 DEF sockaddr_fixup_from_linux, IsLocal
    <2> QED BY <2>1, <2>2
<1>9. /\ received'.sa = fixed.out /\ received'.len = fixed.ret
      /\ received'.flags = WordOf(BSD_MSG, MeantFlags)
    <2>1. Named(LINUX_MSG, reported.flags) \cap TranslatedFlags = MeantFlags
        BY <1>2, NamesOfWord DEF MeantFlags
    <2> QED BY <2>1 DEF ConvertBack, msgflags_linux_to_bsd
<1>10. OutFaithful' /\ TakenFaithful' /\ ReportFaithful'
    <2>1. OutFaithful'
        BY <1>1, MeaningKept DEF Faithful, OutFaithful
    <2>2. TakenFaithful'
        BY <1>1, MeaningKept DEF Faithful, TakenFaithful
    <2>3. ReportFaithful'
        BY <1>1, MeaningKept DEF Faithful, ReportFaithful
    <2> QED BY <2>1, <2>2, <2>3
<1>11. AddressComesBack'
    <2>1. CarriedPath = IF IsLocal THEN TakenPath ELSE given.sa.path
        BY DEF CarriedPath
    <2> QED BY <1>1, <1>8, <1>9, <2>1, MeaningKept DEF AddressComesBack, IsLocal
<1>12. received'.sa \in Sockaddr
    <2> HIDE DEF fixed, len
    <2>1. received'.sa = [bsd_length |-> len, bsd_family |-> given.sa.bsd_family,
                          path |-> CarriedPath]
        BY <1>8, <1>9
    <2> QED BY <1>3, <1>6, <2>1 DEF Sockaddr, Byte, UCHAR_MAX
<1>13. BackFaithful'
    BY <1>1, <1>9, <1>11, <1>12, MeaningKept DEF BackFaithful
<1> QED
    BY <1>1, <1>10, <1>13 DEF Faithful

LEMMA InitFaithful == Init => Faithful
BY DEF Init, Faithful, OutFaithful, TakenFaithful, ReportFaithful, BackFaithful

LEMMA FaithfulStep == Faithful /\ [Next]_vars => Faithful'
<1> SUFFICES ASSUME Faithful, [Next]_vars
             PROVE  Faithful'
    OBVIOUS
<1>1. CASE NextExchange
    BY <1>1 DEF NextExchange, Faithful, OutFaithful, TakenFaithful, ReportFaithful, BackFaithful
<1>3. CASE ProgramGives
    BY <1>3 DEF ProgramGives, Faithful, OutFaithful, TakenFaithful, ReportFaithful, BackFaithful
<1>2. CASE UNCHANGED vars
    <2>1. UNCHANGED <<pc, given, stale, sent, linux, reported, received>>
        BY <1>2 DEF vars
    <2>2. OutFaithful' /\ TakenFaithful' /\ ReportFaithful'
        BY <2>1, MeaningKept DEF Faithful, OutFaithful, TakenFaithful, ReportFaithful
    <2>3. BackFaithful'
        BY <2>1, MeaningKept DEF Faithful, BackFaithful, AddressComesBack
    <2> QED BY <2>1, <2>2, <2>3 DEF Faithful
<1> QED
    BY <1>1, <1>2, <1>3, ConvertOutStep, LinuxTakesStep, LinuxReportsStep, ConvertBackStep DEF Next

LEMMA AlwaysFaithful == Spec => []Faithful
BY InitFaithful, FaithfulStep, PTL DEF Spec

-----------------------------------------------------------------------------
(***************************************************************************)
(* Theorems.                                                               *)
(***************************************************************************)
\* Linux sees the family the program means, whatever numbers the build gives the families:
\* the four keep their meaning, and those that neither the program nor Linux numbers like
\* one of the four their number.  It sees the local path the program means if the address
\* has the path's NUL, or out nothing behind it, and otherwise a path that goes on with
\* out's stale bytes: for every length of the address and every run of them.
THEOREM AddressReachesLinux == Spec => []LinuxSeesAddress
<1>1. ASSUME Faithful
      PROVE  LinuxSeesAddress
    <2>1. SUFFICES ASSUME pc \in {"linux", "reported", "received"}
                   PROVE  /\ linux.family = MeantFamily
                          /\ linux.family = LINUX_PF_LOCAL =>
                               IF /\ given.sa.path < given.len - HeaderSize \/ stale = 0
                                  /\ MeantPath < PathSize
                               THEN linux.path = MeantPath
                               ELSE linux.path = TakenPath
        BY DEF LinuxSeesAddress, MeantFamily
    <2>2. /\ given \in Packets /\ linux.family = MeantFamily /\ linux.path = CarriedPath
        BY <1>1, <2>1 DEF Faithful, TakenFaithful
    <2>3. SUFFICES ASSUME IsLocal, given.sa.path < given.len - HeaderSize \/ stale = 0,
                          MeantPath < PathSize
                   PROVE  TakenPath = MeantPath
        BY <2>2, MeantFamilyParts DEF CarriedPath, LINUX_PF_LOCAL
    <2>4. given.sa.path \in Nat /\ given.len \in 2 .. 106
        BY <2>2, <2>3, PacketParts DEF IsLocal, Sockaddr
    <2> QED BY <2>3, <2>4 DEF TakenPath, MeantPath, Clipped, HeaderSize
<1> QED
    BY <1>1, AlwaysFaithful, PTL

\* What Linux reports of an address is, after the conversion back, the address that Linux
\* has seen, with the length that a BSD address has in its first byte: of a local address
\* the path taken on the way out, at every length and with every run of stale bytes.
THEOREM AddressReturns == Spec => []AddressComesBack
<1>1. ASSUME Faithful
      PROVE  AddressComesBack
    BY <1>1 DEF Faithful, BackFaithful, AddressComesBack
<1> QED
    BY <1>1, AlwaysFaithful, PTL

\* For every flag word, flags keep their names both ways, and the flags that only one side
\* has are dropped.
THEOREM FlagsKept == Spec => []FlagsKeepTheirNames
<1>1. ASSUME Faithful
      PROVE  FlagsKeepTheirNames
    <2>1. ASSUME pc \in {"linux", "reported", "received"}
          PROVE  linux.flags = MeantFlags
        BY <1>1, <2>1 DEF Faithful, TakenFaithful
    <2>2. ASSUME pc = "received"
          PROVE  Named(BSD_MSG, received.flags) = MeantFlags
        BY <1>1, <2>2, NamesOfWord DEF Faithful, BackFaithful, MeantFlags
    <2> QED BY <2>1, <2>2 DEF FlagsKeepTheirNames, MeantFlags
<1> QED
    BY <1>1, AlwaysFaithful, PTL

\* A family of one byte fits the two that Linux keeps it in.
LEMMA ByteInUShort == ASSUME NEW b \in 0 .. 255 PROVE b \in UShort
<1>1. b \in Int /\ 0 <= b /\ b <= 65535
    OBVIOUS
<1> QED BY <1>1, SMTT(30) DEF UShort, USHRT_MAX

\* What TypeOK says of the fields that the conversions write, at the moment they do.
LEMMA WrittenTypes ==
    ASSUME Faithful, pc # "idle"
    PROVE  /\ given.sa \in Sockaddr /\ given.len \in 0 .. 128 /\ given.flags \subseteq Int
           /\ pc \in {"sent", "linux", "reported", "received"} =>
                 /\ sent.sa \in Sockaddr /\ sent.len \in 0 .. 128 /\ sent.flags \subseteq Int
                 /\ sent.len <= sockaddr_fixup_size_from_bsd(given.sa, given.len)
           /\ pc \in {"linux", "reported", "received"} =>
                 /\ linux.family \in UShort /\ linux.path \in Nat
                 /\ linux.flags \subseteq DOMAIN LINUX_MSG
           /\ pc \in {"reported", "received"} =>
                 /\ reported.sa \in Sockaddr /\ reported.len \in 0 .. 128
                 /\ reported.flags \subseteq Int
           /\ pc = "received" =>
                 /\ received.sa \in Sockaddr /\ received.len \in 0 .. 128
                 /\ received.flags \subseteq Int
<1>1. given \in Packets /\ stale \in Nat
    BY InputAssumption DEF Faithful
<1>2. /\ given.sa \in Sockaddr /\ given.sa.path \in Nat /\ given.flags \subseteq Int
      /\ IsLocal => CarriedPath \in 0 .. 103 /\ given.len \in 2 .. 106
      /\ ~IsLocal => CarriedPath = 0 /\ given.len \in {16, 28}
    BY <1>1, PacketParts, TakenParts DEF IsLocal, Sockaddr
<1>3. given.len \in 0 .. 128
    BY <1>2
<1>4. MeantFlags \subseteq TranslatedFlags
    BY DEF MeantFlags
<1>5. WordOf(LINUX_MSG, MeantFlags) \subseteq Int /\ WordOf(BSD_MSG, MeantFlags) \subseteq Int
    BY <1>4, NamesOfWord
<1>6. ASSUME pc \in {"sent", "linux", "reported", "received"}
      PROVE  /\ sent.sa \in Sockaddr /\ sent.len \in 0 .. 128 /\ sent.flags \subseteq Int
             /\ sent.len <= sockaddr_fixup_size_from_bsd(given.sa, given.len)
    <2>1. /\ sent.sa \in Sockaddr /\ sent.flags = WordOf(LINUX_MSG, MeantFlags)
          /\ sent.len = IF IsLocal THEN HeaderSize + CarriedPath ELSE given.len
        BY <1>6 DEF Faithful, OutFaithful
    <2>2. sockaddr_fixup_size_from_bsd(given.sa, given.len) = IF IsLocal THEN 106 ELSE given.len
        BY DEF sockaddr_fixup_size_from_bsd, sizeof_sockaddr_fixup, HeaderSize, PathSize, IsLocal
    <2>3. /\ sent.len \in 0 .. 128
          /\ sent.len <= IF IsLocal THEN 106 ELSE given.len
        BY <1>2, <1>3, <2>1 DEF HeaderSize
    <2> QED BY <1>5, <2>1, <2>2, <2>3
<1>7. ASSUME pc \in {"linux", "reported", "received"}
      PROVE  /\ linux.family \in UShort /\ linux.path \in Nat
             /\ linux.flags \subseteq DOMAIN LINUX_MSG
    <2>1. /\ linux.family = MeantFamily /\ linux.path = CarriedPath
          /\ linux.flags = MeantFlags
        BY <1>7 DEF Faithful, TakenFaithful
    <2>2. MeantFamily \in UShort
        <3>1. MeantFamily \in 0 .. 255
            BY <1>1, MeantFamilyParts
        <3> QED BY <3>1, ByteInUShort
    <2>3. MeantFlags \subseteq DOMAIN LINUX_MSG
        BY <1>4, FlagNumbers
    <2> QED BY <1>2, <2>1, <2>2, <2>3
<1>8. ASSUME pc \in {"reported", "received"}
      PROVE  /\ reported.sa \in Sockaddr /\ reported.len \in 0 .. 128
             /\ reported.flags \subseteq Int
    <2>1. /\ reported.sa \in Sockaddr /\ reported.flags = WordOf(LINUX_MSG, MeantFlags)
          /\ reported.len = IF IsLocal THEN HeaderSize + CarriedPath + 1 ELSE given.len
        BY <1>8 DEF Faithful, ReportFaithful
    <2>2. reported.len \in 0 .. 128
        BY <1>2, <1>3, <2>1 DEF HeaderSize
    <2> QED BY <1>5, <2>1, <2>2
<1>9. ASSUME pc = "received"
      PROVE  /\ received.sa \in Sockaddr /\ received.len \in 0 .. 128
             /\ received.flags \subseteq Int
    <2>1. /\ received.sa \in Sockaddr /\ received.flags = WordOf(BSD_MSG, MeantFlags)
          /\ received.len = IF IsLocal THEN HeaderSize + CarriedPath + 1 ELSE given.len
        BY <1>9 DEF Faithful, BackFaithful, AddressComesBack, IsLocal, CarriedPath
    <2>2. received.len \in 0 .. 128
        BY <1>2, <1>3, <2>1 DEF HeaderSize
    <2> QED BY <1>5, <2>1, <2>2
<1> QED
    BY <1>2, <1>3, <1>6, <1>7, <1>8, <1>9

LEMMA NothingTypes ==
    /\ None.sa \in Sockaddr /\ None.len = 0 /\ None.flags \subseteq Int
    /\ Nothing.family \in UShort /\ Nothing.path \in Nat
    /\ Nothing.flags \subseteq DOMAIN LINUX_MSG
BY DEF None, Nothing, Sockaddr, Byte, UCHAR_MAX, UShort, USHRT_MAX

\* What is not converted yet is as Init leaves it.
NotYet ==
    /\ pc \in {"idle", "program", "sent", "linux", "reported", "received"}
    /\ pc = "idle" => given = None
    /\ pc \in {"idle", "program"} => sent = None
    /\ pc \in {"idle", "program", "sent"} => linux = Nothing
    /\ pc \in {"idle", "program", "sent", "linux"} => reported = None
    /\ pc # "received" => received = None

LEMMA NotYetStep == NotYet /\ [Next]_vars => NotYet'
BY DEF NotYet, Next, vars, ProgramGives, ConvertOut, LinuxTakes, LinuxReports, ConvertBack,
       NextExchange

\* Addresses, lengths and flag words have their types, and no address converted for Linux
\* is longer than the buffer sockaddr_fixup_size_from_bsd tells the caller to make.
THEOREM ConversionTypeCorrect == Spec => []TypeOK
<1>1. Init => NotYet
    BY DEF Init, NotYet
<1>2. ASSUME Faithful, NotYet
      PROVE  TypeOK
    <2>1. \A p \in {given, sent, reported, received} :
              p.sa \in Sockaddr /\ p.len \in 0 .. 128 /\ p.flags \subseteq Int
        <3>1. sent.sa \in Sockaddr /\ sent.len \in 0 .. 128 /\ sent.flags \subseteq Int
            <4>1. CASE pc \in {"idle", "program"}
                <5>1. sent = None
                    BY <1>2, <4>1 DEF NotYet
                <5> QED BY <5>1, NothingTypes
            <4>2. CASE ~(pc \in {"idle", "program"})
                BY <1>2, <4>2, WrittenTypes DEF NotYet
            <4> QED BY <4>1, <4>2
        <3>2. reported.sa \in Sockaddr /\ reported.len \in 0 .. 128 /\ reported.flags \subseteq Int
            <4>1. CASE pc \in {"idle", "program", "sent", "linux"}
                <5>1. reported = None
                    BY <1>2, <4>1 DEF NotYet
                <5> QED BY <5>1, NothingTypes
            <4>2. CASE ~(pc \in {"idle", "program", "sent", "linux"})
                BY <1>2, <4>2, WrittenTypes DEF NotYet
            <4> QED BY <4>1, <4>2
        <3>3. received.sa \in Sockaddr /\ received.len \in 0 .. 128 /\ received.flags \subseteq Int
            <4>1. CASE pc # "received"
                <5>1. received = None
                    BY <1>2, <4>1 DEF NotYet
                <5> QED BY <5>1, NothingTypes
            <4>2. CASE ~(pc # "received")
                BY <1>2, <4>2, WrittenTypes
            <4> QED BY <4>1, <4>2
        <3>4. given.sa \in Sockaddr /\ given.len \in 0 .. 128 /\ given.flags \subseteq Int
            BY <1>2, WrittenTypes, NothingTypes DEF NotYet
        <3> QED BY <3>1, <3>2, <3>3, <3>4
    <2>2. /\ linux.family \in UShort /\ linux.path \in Nat
          /\ linux.flags \subseteq DOMAIN LINUX_MSG
        BY <1>2, WrittenTypes, NothingTypes DEF NotYet
    <2>3. sent.len <= sockaddr_fixup_size_from_bsd(given.sa, given.len)
        <3>1. CASE pc \in {"idle", "program"}
            <4>1. sent.len = 0 /\ given.len \in 0 .. 128
                BY <1>2, <3>1, WrittenTypes, NothingTypes DEF NotYet
            <4> QED BY <4>1 DEF sockaddr_fixup_size_from_bsd, sizeof_sockaddr_fixup, HeaderSize,
                                PathSize
        <3> QED BY <1>2, <3>1, WrittenTypes DEF NotYet
    <2> QED BY <1>2, <2>1, <2>2, <2>3 DEF TypeOK, NotYet, Faithful
<1> QED
    BY <1>1, <1>2, NotYetStep, AlwaysFaithful, PTL DEF Spec
=============================================================================
