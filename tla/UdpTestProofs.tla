--------------------------- MODULE UdpTestProofs ---------------------------
(***************************************************************************)
(* Safety of UdpTest, for any number of datagrams of other processes, any  *)
(* errors of the host and any numbering of the address families: when the  *)
(* test can succeed, when it can abort and when it can deadlock.           *)
(***************************************************************************)
EXTENDS UdpTest, SequenceTheorems, TLAPS

-----------------------------------------------------------------------------
(***************************************************************************)
(* Operators.                                                              *)
(***************************************************************************)
\* A queue whose datagrams may all have come to a larger set of receivers.
LEMMA SeqGrows ==
    ASSUME NEW S, NEW T, S \subseteq T, NEW s \in Seq(S)
    PROVE  s \in Seq(T)
OBVIOUS

\* The address the host reports, and what is left of it after the emulator.
LEMMA HostInetType == HostInet \in Sockaddr
BY HostPFAssumption DEF HostInet, Sockaddr, Byte, UCHAR_MAX, LINUX_PF_INET, sizeof_sockaddr_in

\* On a Linux host the conversion leaves a length of 3 or of 16 in the first byte.
LEMMA Converted ==
    ASSUME host = "linux"
    PROVE  /\ Reported(HostInet) \in Sockaddr
           /\ Reported(HostInet).bsd_length \in {3, 16}
<1> DEFINE family == sfamily_linux_to_bsd(linux_family(HostInet)) % 256
           ret == IF family = HostPF["LOCAL"] THEN 3 ELSE 16
<1>1. HostInet = [bsd_length |-> 2, bsd_family |-> 0, path |-> 0]
    BY DEF HostInet, LINUX_PF_INET
<1>2. linux_family(HostInet) = 2
    BY <1>1 DEF linux_family, LittleEndian
<1>3. sfamily_linux_to_bsd(2) = HostPF["INET"]
    BY DEF sfamily_linux_to_bsd, LINUX_PF_LOCAL, LINUX_PF_INET, LINUX_PF_IPX, LINUX_PF_INET6
<1>4. HostPF["INET"] \in 0 .. 255
    BY HostPFAssumption DEF Byte, UCHAR_MAX
<1>5. family \in 0 .. 255
    BY <1>2, <1>3, <1>4
<1>6. Reported(HostInet) = [bsd_length |-> ret % 256, bsd_family |-> family, path |-> 0]
    BY <1>1 DEF Reported, sockaddr_fixup_from_linux, vchroot_unexpand, Clipped, PathSize,
                HeaderSize, sizeof_sockaddr_in
<1> QED
    BY <1>5, <1>6 DEF Sockaddr, Byte, UCHAR_MAX

\* Whatever the host, an address has been reported; only an Apple host takes it back.
LEMMA ReportedIsSendable ==
    /\ Reported(HostInet) \in Sockaddr
    /\ client_address_details = Reported(HostInet) => (Sendable <=> host # "linux")
<1>1. CASE host = "linux"
    <2>1. /\ Reported(HostInet).bsd_family \in 0 .. 255
          /\ Reported(HostInet).bsd_length \in {3, 16}
        BY <1>1, Converted DEF Sockaddr, Byte, UCHAR_MAX
    <2>2. linux_family(Reported(HostInet)) # 2
        BY <2>1 DEF linux_family, LittleEndian
    <2> QED
        BY <1>1, <2>2, Converted DEF Sendable, HostFamily, HostInetNumber, LINUX_PF_INET
<1>2. CASE host # "linux"
    <2>1. Reported(HostInet) = HostInet /\ HostInet.bsd_family = HostPF["INET"]
        BY <1>2 DEF Reported, HostInet
    <2> QED
        BY <1>2, <2>1, HostInetType DEF Sendable, HostFamily, HostInetNumber
<1> QED
    BY <1>1, <1>2

-----------------------------------------------------------------------------
(***************************************************************************)
(* Steps that leave sockets and memory alone.                              *)
(***************************************************************************)
LEMMA Moved ==
    ASSUME TypeOK, NEW p \in Process, NEW to, pc' = [pc EXCEPT ![p] = to]
    PROVE  pc'[p] = to /\ \A q \in Process \ {p} : pc'[q] = pc[q]
BY DEF TypeOK

LEMMA Appended ==
    ASSUME NEW s \in Seq(Datagram), NEW d \in Datagram
    PROVE  Append(s, d) # <<>>
OBVIOUS

LEMMA QueuesKept ==
    ASSUME Delivered, UNCHANGED <<Sockets, Memory>>
    PROVE  Delivered'
BY DEF Delivered, ForServer, ForClient, Sockets, Memory

\* The end of the process.
LEMMA EndsStep ==
    ASSUME TypeOK, OnTrack, NEW how \in {"success", "failed", "aborted"}, exit' = how,
           UNCHANGED <<host, pc, Sockets, Memory>>,
           how = "success" => pc["main"] = "return",
           how = "aborted" =>
               err["server"] # 0 \/ stray > 0 \/ buffer["client"] = "server message"
    PROVE  (TypeOK /\ OnTrack)'
<1>1. Delivered'
    BY QueuesKept DEF OnTrack
<1>2. ServerErrno' /\ ServerOnTrack' /\ ClientOnTrack'
    BY DEF OnTrack, ServerErrno, ServerOnTrack, ClientOnTrack, Sockets, Memory, HostInet,
           Reported, NoError, Differs
<1>3. MainOnTrack' /\ Awaited'
    BY DEF OnTrack, MainOnTrack, Awaited, Sockets, Memory
<1>4. TypeOK'
    BY DEF TypeOK, Sockets, Memory
<1> QED
    BY <1>1, <1>2, <1>3, <1>4 DEF OnTrack

LEMMA FailedStep ==
    ASSUME TypeOK, OnTrack, NEW p, NEW from, Ends(p, from, "failed")
    PROVE  (TypeOK /\ OnTrack)'
BY EndsStep DEF Ends

\* The places a server goes to and from without touching anything.
ServerGoes(from, to) ==
    \/ from = "socket" /\ to = "bind"
    \/ from = "bound" /\ to = "recvfrom"
    \/ from = "recvfrom" /\ to = "host"
    \/ from = "compare" /\ to = "sendto" /\ Expected
    \/ from = "sent" /\ to = "returned"

LEMMA ServerGoesStep ==
    ASSUME TypeOK, OnTrack, NEW from, NEW to, ServerGoes(from, to),
           pc["server"] = from, pc' = [pc EXCEPT !["server"] = to],
           UNCHANGED <<host, exit, Sockets, Memory>>
    PROVE  (TypeOK /\ OnTrack)'
<1>1. pc'["server"] = to /\ pc'["main"] = pc["main"] /\ pc'["client"] = pc["client"]
    BY Moved DEF Process
<1>2. Delivered'
    BY QueuesKept DEF OnTrack
<1>3. from = "compare" => err["server"] = 0
    <2>1. SUFFICES ASSUME from = "compare", err["server"] # 0 PROVE FALSE
        OBVIOUS
    <2>2. Expected
        BY <2>1 DEF ServerGoes
    <2>3. client_buffer_len \in {0, -1}
        BY <2>1 DEF OnTrack, ServerErrno
    <2>4. client_buffer_len > 0
        BY <2>2 DEF Expected
    <2> QED BY <2>3, <2>4
<1>4. ServerErrno'
    BY <1>1, <1>3 DEF ServerGoes, OnTrack, ServerErrno, BeforeAnswer, Replying, Memory, NoError
<1>5. ServerOnTrack'
    BY <1>1, <1>3 DEF ServerGoes, Expected, OnTrack, ServerOnTrack, Replying, Sockets, Memory,
                      HostInet, Reported
<1>6. ClientOnTrack' /\ MainOnTrack'
    BY <1>1 DEF ServerGoes, OnTrack, ClientOnTrack, MainOnTrack, Sockets, Memory, NoError,
                Differs
<1>7. Awaited'
    BY <1>1 DEF ServerGoes, OnTrack, Awaited, BeforeAnswer, Sockets
<1>8. TypeOK'
    <2>1. pc' \in [Process -> {"unborn", "create_server", "create_client", "join_server",
                           "join_client", "return", "set_cerror", "socket", "bind", "bound",
                           "recvfrom", "host", "answered", "compare", "sendto", "sent",
                           "close", "closed", "returned"}]
        BY DEF ServerGoes, TypeOK
    <2>2. pc'["server"] \in {"answered", "compare", "sendto", "sent", "returned"} =>
              buffer["server"] \in Datagram
        BY <1>1 DEF ServerGoes, Expected, Datagram, TypeOK
    <2> QED BY <2>1, <2>2 DEF TypeOK, Sockets, Memory
<1> QED
    BY <1>2, <1>4, <1>5, <1>6, <1>7, <1>8 DEF OnTrack

ClientGoes(from, to) ==
    \/ from = "socket" /\ to = "sendto"
    \/ from = "compare" /\ to = "close" /\ Differs
    \/ from = "close" /\ to = "closed"
    \/ from = "closed" /\ to = "returned"

LEMMA ClientGoesStep ==
    ASSUME TypeOK, OnTrack, NEW from, NEW to, ClientGoes(from, to),
           pc["client"] = from, pc' = [pc EXCEPT !["client"] = to],
           UNCHANGED <<host, exit, Sockets, Memory>>
    PROVE  (TypeOK /\ OnTrack)'
<1>1. pc'["client"] = to /\ pc'["main"] = pc["main"] /\ pc'["server"] = pc["server"]
    BY Moved DEF Process
<1>2. Delivered'
    BY QueuesKept DEF OnTrack
<1>3. ServerErrno' /\ ServerOnTrack'
    BY <1>1 DEF OnTrack, ServerErrno, ServerOnTrack, Sockets, Memory, HostInet, Reported, NoError
<1>4. ClientOnTrack'
    BY <1>1 DEF ClientGoes, OnTrack, ClientOnTrack, Unsent, Sockets, Memory, NoError, Differs
<1>5. MainOnTrack' /\ Awaited'
    BY <1>1 DEF ClientGoes, OnTrack, MainOnTrack, Awaited, Sockets, Memory
<1>6. TypeOK'
    BY <1>1 DEF ClientGoes, TypeOK, Process, Sockets, Memory
<1> QED
    BY <1>2, <1>3, <1>4, <1>5, <1>6 DEF OnTrack

-----------------------------------------------------------------------------
(***************************************************************************)
(* main, and the beginning of its two threads.                             *)
(***************************************************************************)
LEMMA CreateStep ==
    ASSUME TypeOK, OnTrack, NEW from \in {"create_server", "create_client"}, NEW thread, NEW to,
           Create(from, thread, to), exit = "running",
           thread = IF from = "create_server" THEN "server" ELSE "client",
           to = IF from = "create_server" THEN "create_client" ELSE "join_server"
    PROVE  (TypeOK /\ OnTrack)'
<1>1. CASE Ends("main", from, "failed")
    BY <1>1, FailedStep
<1>2. CASE /\ pc["main"] = from
           /\ pc' = [pc EXCEPT !["main"] = to, ![thread] = "set_cerror"]
           /\ UNCHANGED <<host, exit, Sockets, Memory>>
    <2>1. /\ pc'["main"] = to /\ pc'[thread] = "set_cerror" /\ pc[thread] = "unborn"
          /\ \A q \in Process \ {"main", thread} : pc'[q] = pc[q]
        BY <1>2 DEF TypeOK, Process, OnTrack, MainOnTrack
    <2>2. Delivered'
        BY <1>2, QueuesKept DEF OnTrack
    <2>3. ServerErrno' /\ ServerOnTrack'
        BY <1>2, <2>1 DEF OnTrack, ServerErrno, ServerOnTrack, BeforeAnswer, Replying, Process,
                          Sockets, Memory, HostInet, Reported, NoError
    <2>4. ClientOnTrack'
        BY <1>2, <2>1 DEF OnTrack, ClientOnTrack, Unsent, Process, Sockets, Memory, NoError,
                          Differs
    <2>5. MainOnTrack'
        <3>1. exit' = "running" /\ to # "create_server" /\ to # "return" /\ to # "join_client"
            BY <1>2
        <3>2. to = "create_client" => pc'["client"] = "unborn"
            BY <1>2, <2>1 DEF OnTrack, MainOnTrack, Process
        <3>3. pc'["server"] # "unborn"
            BY <1>2, <2>1 DEF OnTrack, MainOnTrack, Process
        <3>4. to = "join_server" => pc'["client"] # "unborn"
            BY <2>1
        <3> QED BY <2>1, <3>1, <3>2, <3>3, <3>4 DEF MainOnTrack
    <2>6. Awaited'
        BY <1>2, <2>1 DEF OnTrack, Awaited, BeforeAnswer, Process, Sockets
    <2>7. TypeOK'
        BY <1>2, <2>1 DEF TypeOK, Process, Sockets, Memory
    <2> QED BY <2>2, <2>3, <2>4, <2>5, <2>6, <2>7 DEF OnTrack
<1> QED
    BY <1>1, <1>2 DEF Create

LEMMA JoinStep ==
    ASSUME TypeOK, OnTrack, exit = "running",
           NEW from \in {"join_server", "join_client"}, NEW thread, NEW to,
           Join(from, thread, to),
           thread = IF from = "join_server" THEN "server" ELSE "client",
           to = IF from = "join_server" THEN "join_client" ELSE "return"
    PROVE  (TypeOK /\ OnTrack)'
<1>1. /\ pc["main"] = from /\ pc[thread] = "returned"
      /\ pc' = [pc EXCEPT !["main"] = to]
      /\ UNCHANGED <<host, exit, Sockets, Memory>>
    BY DEF Join, Goes
<1>2. pc'["main"] = to /\ pc'["server"] = pc["server"] /\ pc'["client"] = pc["client"]
    BY <1>1, Moved DEF Process
<1>3. Delivered'
    BY <1>1, QueuesKept DEF OnTrack
<1>4. ServerErrno' /\ ServerOnTrack' /\ ClientOnTrack'
    BY <1>1, <1>2 DEF OnTrack, ServerErrno, ServerOnTrack, ClientOnTrack, Sockets, Memory,
                      HostInet, Reported, NoError, Differs
<1>5. MainOnTrack' /\ Awaited'
    BY <1>1, <1>2 DEF OnTrack, MainOnTrack, Awaited, Sockets, Memory
<1>6. TypeOK'
    BY <1>1, <1>2 DEF TypeOK, Process, Sockets, Memory
<1> QED
    BY <1>3, <1>4, <1>5, <1>6 DEF OnTrack

LEMMA MainStep ==
    ASSUME TypeOK, OnTrack, exit = "running", Main
    PROVE  (TypeOK /\ OnTrack)'
<1>1. CASE Ends("main", "return", "success")
    BY <1>1, EndsStep DEF Ends
<1> QED
    BY <1>1, CreateStep, JoinStep DEF Main

\* darling_set_cerror(0) finds a cell that is 0 already.
LEMMA StartStep ==
    ASSUME TypeOK, OnTrack, NEW p \in Talker,
           Start(p, IF p = "server" THEN "bind" ELSE "sendto")
    PROVE  (TypeOK /\ OnTrack)'
<1>1. CASE /\ Goes(p, "set_cerror", "socket")
           /\ darling_errno' = [darling_errno EXCEPT ![p] = 0]
           /\ UNCHANGED <<Sockets, buffer, err, client_buffer_len, client_address_details>>
    <2>1. /\ pc[p] = "set_cerror" /\ pc' = [pc EXCEPT ![p] = "socket"]
          /\ UNCHANGED <<host, exit>>
        BY <1>1 DEF Goes
    <2>2. pc'[p] = "socket" /\ \A q \in Process \ {p} : pc'[q] = pc[q]
        BY <2>1, Moved DEF Talker, Process
    <2>3. darling_errno[p] = 0
        <3>1. CASE p = "client"
            BY <3>1 DEF OnTrack, ClientOnTrack, NoError
        <3>2. CASE p = "server"
            BY <2>1, <3>2 DEF OnTrack, ServerErrno, NoError
        <3> QED BY <3>1, <3>2 DEF Talker
    <2>4. darling_errno' = darling_errno
        BY <1>1, <2>3 DEF TypeOK
    <2>5. UNCHANGED <<Sockets, Memory>>
        BY <1>1, <2>4 DEF Memory
    <2>6. Delivered'
        BY <2>5, QueuesKept DEF OnTrack
    <2>7. ServerErrno' /\ ServerOnTrack'
        BY <2>1, <2>2, <2>5 DEF OnTrack, ServerErrno, ServerOnTrack, BeforeAnswer, Replying,
                                Talker, Process, Sockets, Memory, HostInet, Reported, NoError
    <2>8. ClientOnTrack' /\ MainOnTrack'
        BY <2>1, <2>2, <2>5 DEF OnTrack, ClientOnTrack, MainOnTrack, Unsent, Talker, Process,
                                Sockets, Memory, NoError, Differs
    <2>9. Awaited'
        BY <2>1, <2>2, <2>5 DEF OnTrack, Awaited, BeforeAnswer, Talker, Process, Sockets
    <2>10. TypeOK'
        BY <2>1, <2>2, <2>5 DEF TypeOK, Talker, Process, Sockets, Memory
    <2> QED BY <2>6, <2>7, <2>8, <2>9, <2>10 DEF OnTrack
<1>2. CASE /\ Goes(p, "socket", IF p = "server" THEN "bind" ELSE "sendto")
           /\ UNCHANGED <<Sockets, Memory>>
    BY <1>2, ServerGoesStep, ClientGoesStep DEF Goes, Talker, ServerGoes, ClientGoes
<1> QED
    BY <1>1, <1>2, FailedStep DEF Start

-----------------------------------------------------------------------------
(***************************************************************************)
(* The server.                                                             *)
(***************************************************************************)
LEMMA BindStep ==
    ASSUME TypeOK, OnTrack, Bind
    PROVE  (TypeOK /\ OnTrack)'
<1>1. CASE /\ Goes("server", "bind", "bound")
           /\ bound' = TRUE
           /\ UNCHANGED <<server_box, client_box, fate, stray, Memory>>
    <2>1. /\ pc["server"] = "bind" /\ pc' = [pc EXCEPT !["server"] = "bound"]
          /\ UNCHANGED <<host, exit>>
        BY <1>1 DEF Goes
    <2>2. pc'["server"] = "bound" /\ pc'["main"] = pc["main"] /\ pc'["client"] = pc["client"]
        BY <2>1, Moved DEF Process
    <2>3. Delivered'
        BY <1>1 DEF OnTrack, Delivered, ForServer, ForClient, Memory
    <2>4. ServerErrno' /\ ServerOnTrack'
        BY <1>1, <2>1, <2>2 DEF OnTrack, ServerErrno, ServerOnTrack, BeforeAnswer, Replying,
                                Memory, HostInet, Reported, NoError
    <2>5. ClientOnTrack' /\ MainOnTrack'
        BY <1>1, <2>1, <2>2 DEF OnTrack, ClientOnTrack, MainOnTrack, Memory, NoError, Differs
    <2>6. Awaited'
        BY <1>1, <2>1, <2>2 DEF OnTrack, Awaited, BeforeAnswer
    <2>7. TypeOK'
        BY <1>1, <2>1, <2>2 DEF TypeOK, Process, Memory
    <2> QED BY <2>3, <2>4, <2>5, <2>6, <2>7 DEF OnTrack
<1> QED
    BY <1>1, FailedStep DEF Bind

\* The host hands the server one of the datagrams in its queue.
LEMMA HostAnswersServerStep ==
    ASSUME TypeOK, OnTrack, HostAnswersServer
    PROVE  (TypeOK /\ OnTrack)'
<1>1. /\ server_box # <<>>
      /\ pc["server"] = "host" /\ pc' = [pc EXCEPT !["server"] = "answered"]
      /\ server_box' = Tail(server_box)
      /\ buffer' = [buffer EXCEPT !["server"] = Head(server_box)]
      /\ client_address_details' = HostInet
      /\ UNCHANGED <<host, exit, bound, client_box, fate, stray, err, darling_errno,
                     client_buffer_len>>
    BY DEF HostAnswersServer, Goes
<1>2. pc'["server"] = "answered" /\ pc'["main"] = pc["main"] /\ pc'["client"] = pc["client"]
    BY <1>1, Moved DEF Process
<1>3. ForServer' = ForServer /\ ForClient' = ForClient
    BY <1>1 DEF ForServer, ForClient
<1>4. Head(server_box) \in ForServer /\ Tail(server_box) \in Seq(ForServer)
    BY <1>1, HeadTailProperties DEF OnTrack, Delivered
<1>5. buffer'["server"] = Head(server_box) /\ buffer'["client"] = buffer["client"]
    BY <1>1 DEF TypeOK, Talker
<1>6. Delivered'
    BY <1>1, <1>3, <1>4, <1>5 DEF OnTrack, Delivered
<1>7. ServerErrno'
    BY <1>1, <1>2 DEF OnTrack, ServerErrno, BeforeAnswer, Replying, NoError
<1>8. ServerOnTrack'
    <2>1. HostInet' = HostInet
        BY <1>1 DEF HostInet
    <2>2. buffer'["server"] # "nothing"
        BY <1>4, <1>5 DEF ForServer
    <2> QED BY <1>1, <1>2, <2>1, <2>2 DEF OnTrack, ServerOnTrack, Replying
<1>9. ClientOnTrack' /\ MainOnTrack'
    BY <1>1, <1>2, <1>5 DEF OnTrack, ClientOnTrack, MainOnTrack, NoError, Differs
<1>10. Awaited'
    BY <1>1, <1>2 DEF OnTrack, Awaited, BeforeAnswer
<1>11. TypeOK'
    <2>1. Head(server_box) \in Datagram
        BY <1>4 DEF ForServer, Datagram
    <2>2. Tail(server_box) \in Seq(Datagram)
        BY <1>1, HeadTailProperties DEF TypeOK
    <2>3. HostInet \in Sockaddr
        BY HostInetType
    <2>4. buffer' \in [Talker -> Datagram \cup {"nothing", "a part"}]
        BY <1>1, <2>1 DEF TypeOK
    <2> QED BY <1>1, <1>2, <1>5, <2>1, <2>2, <2>3, <2>4 DEF TypeOK, Process
<1> QED
    BY <1>6, <1>7, <1>8, <1>9, <1>10, <1>11 DEF OnTrack

\* The host's recvfrom fails: there is an error from here to the asserts.
LEMMA HostFailsServerStep ==
    ASSUME TypeOK, OnTrack, exit = "running", HostFailsServer
    PROVE  (TypeOK /\ OnTrack)'
<1>1. PICK e \in Errno : err' = [err EXCEPT !["server"] = e]
    BY DEF HostFailsServer
<1>2. /\ pc["server"] = "host" /\ pc' = [pc EXCEPT !["server"] = "answered"]
      /\ UNCHANGED <<host, exit, Sockets, buffer, darling_errno, client_buffer_len,
                     client_address_details>>
    BY DEF HostFailsServer, Goes
<1>3. pc'["server"] = "answered" /\ pc'["main"] = pc["main"] /\ pc'["client"] = pc["client"]
    BY <1>2, Moved DEF Process
<1>4. e # 0
    BY HostsAssumption DEF ErrnoValue, MAX_ERRNO
<1>5. err'["server"] = e /\ err'["client"] = err["client"]
    BY <1>1 DEF TypeOK, Talker
<1>6. Delivered'
    BY <1>2 DEF OnTrack, Delivered, ForServer, ForClient, Sockets
<1>7. ServerErrno'
    BY <1>2, <1>3, <1>4, <1>5 DEF OnTrack, ServerErrno, BeforeAnswer, Replying, NoError
<1>8. ServerOnTrack'
    BY <1>2, <1>3, <1>4, <1>5 DEF OnTrack, ServerOnTrack, Replying, Sockets
<1>9. ClientOnTrack' /\ MainOnTrack'
    BY <1>2, <1>3, <1>5 DEF OnTrack, ClientOnTrack, MainOnTrack, Sockets, NoError, Differs
<1>10. Awaited'
    BY <1>2, <1>3 DEF OnTrack, Awaited, BeforeAnswer, Sockets
<1>11. TypeOK'
    <2>1. err' \in [Talker -> Errno \cup {0}]
        BY <1>1 DEF TypeOK
    <2> QED BY <1>2, <1>3, <1>4, <1>5, <2>1 DEF TypeOK, Process, Sockets
<1> QED
    BY <1>6, <1>7, <1>8, <1>9, <1>10, <1>11 DEF OnTrack

LEMMA ErrorOfType == ASSUME NEW e \in ErrnoValue PROVE ErrorOf(e) \in Int \ {0}
<1>1. e \in Int /\ e > 0 /\ -e < 0 /\ Abs(-e) = e
    BY DEF Abs, ErrnoValue, MAX_ERRNO
<1>2. Row(e) \in Int
    <2>1. \A v \in Translated : HostErrno[v] \in Int
        BY HostErrnoAssumption DEF ErrnoValue
    <2>2. HostENOTSUP \in Int
        BY HostErrnoAssumption DEF ErrnoValue
    <2> QED BY <2>1, <2>2 DEF Row
<1>3. e < length_of_translation_array => linux_to_darwin[e] = Row(e)
    BY <1>1 DEF linux_to_darwin, length_of_translation_array
<1>4. errno_linux_to_bsd(-e) \in {-e, -Row(e)} /\ (errno_linux_to_bsd(-e) = -e \/ Row(e) # 0)
    BY <1>1, <1>3 DEF errno_linux_to_bsd
<1> QED
    BY <1>1, <1>2, <1>4 DEF ErrorOf

\* The emulator's answer: the datagram's length, or -1 with an errno, or 0 without one.
LEMMA ServerReturnsStep ==
    ASSUME TypeOK, OnTrack, ServerReturns
    PROVE  (TypeOK /\ OnTrack)'
<1>1. /\ pc["server"] = "answered" /\ pc' = [pc EXCEPT !["server"] = "compare"]
      /\ UNCHANGED <<host, exit, Sockets, buffer, err>>
    BY DEF ServerReturns, Goes
<1>2. pc'["server"] = "compare" /\ pc'["main"] = pc["main"] /\ pc'["client"] = pc["client"]
    BY <1>1, Moved DEF Process
<1>3. NoError("server")
    BY <1>1 DEF OnTrack, ServerErrno
<1>4. \/ /\ err["server"] = 0 /\ darling_errno' = darling_errno
         /\ client_buffer_len' = Length(buffer["server"])
         /\ client_address_details' = Reported(HostInet)
      \/ /\ err["server"] # 0 /\ client_address_details' = client_address_details
         /\ darling_errno' = [darling_errno EXCEPT !["server"] = ErrorOf(err["server"])]
         /\ client_buffer_len' = -1
      \/ /\ err["server"] # 0 /\ client_address_details' = client_address_details
         /\ darling_errno' = darling_errno
         /\ client_buffer_len' = 0
    BY <1>1 DEF ServerReturns, OnTrack, ServerOnTrack
<1>5. err["server"] # 0 => ErrorOf(err["server"]) \in Int \ {0}
    BY ErrorOfType, HostsAssumption DEF TypeOK, Talker
<1>6. Reported(HostInet)' = Reported(HostInet)
    BY <1>1 DEF Reported, HostInet
<1>7. /\ darling_errno' \in [Talker -> Int]
      /\ darling_errno'["client"] = darling_errno["client"]
      /\ darling_errno'["server"] = 0 \/ (err["server"] # 0 /\ client_buffer_len' = -1)
      /\ err["server"] # 0 => client_buffer_len' = IF darling_errno'["server"] = 0 THEN 0 ELSE -1
    BY <1>3, <1>4, <1>5 DEF TypeOK, NoError, Talker
<1>8. Delivered'
    BY <1>1 DEF OnTrack, Delivered, ForServer, ForClient, Sockets
<1>9. ServerErrno'
    <2>1. Length(buffer["server"])' = Length(buffer["server"])
        BY <1>1 DEF Length
    <2>2. err["server"] = 0 => client_buffer_len' = Length(buffer["server"])
        BY <1>4
    <2> QED BY <1>1, <1>2, <1>7, <2>1, <2>2 DEF ServerErrno, BeforeAnswer, Replying, NoError
<1>10. ServerOnTrack'
    BY <1>1, <1>2, <1>4, <1>6 DEF OnTrack, ServerOnTrack, Replying, Sockets
<1>11. ClientOnTrack' /\ MainOnTrack'
    BY <1>1, <1>2, <1>7 DEF OnTrack, ClientOnTrack, MainOnTrack, Sockets, NoError, Differs
<1>12. Awaited'
    BY <1>1, <1>2 DEF OnTrack, Awaited, BeforeAnswer, Sockets
<1>13. TypeOK'
    <2>1. client_buffer_len' \in {-1, 0, 1}
        BY <1>4 DEF Length
    <2>2. client_address_details' \in Sockaddr
        BY <1>4, ReportedIsSendable DEF TypeOK
    <2> QED BY <1>1, <1>2, <1>7, <2>1, <2>2 DEF TypeOK, Process, Sockets
<1> QED
    BY <1>8, <1>9, <1>10, <1>11, <1>12, <1>13 DEF OnTrack

\* The asserts before the reply end the process only after a failure or with a datagram of
\* another process.
LEMMA ServerComparesStep ==
    ASSUME TypeOK, OnTrack, exit = "running", Asserts("server", "compare", "sendto", Expected)
    PROVE  (TypeOK /\ OnTrack)'
<1>1. CASE Expected
    BY <1>1, ServerGoesStep DEF Asserts, ServerGoes
<1>2. CASE ~Expected
    <2>1. /\ pc["server"] = "compare" /\ exit' = "aborted"
          /\ pc' = pc /\ UNCHANGED <<host, Sockets, Memory>>
        BY <1>2 DEF Asserts, TypeOK, Process
    <2>2. err["server"] # 0 \/ stray > 0
        <3>1. SUFFICES ASSUME err["server"] = 0 PROVE stray > 0
            OBVIOUS
        <3>2. NoError("server") /\ client_buffer_len = Length(buffer["server"])
            BY <2>1, <3>1 DEF OnTrack, ServerErrno, NoError
        <3>3. buffer["server"] # "client message"
            <4>1. Length("client message") = 1
                BY DEF Length
            <4>2. client_buffer_len = 1 => client_buffer_len > 0
                OBVIOUS
            <4> QED BY <1>2, <3>2, <4>1, <4>2 DEF Expected
        <3>4. buffer["server"] \in ForServer
            BY <2>1, <3>1 DEF OnTrack, ServerOnTrack, Delivered
        <3> QED BY <3>3, <3>4 DEF ForServer
    <2> QED BY <2>1, <2>2, EndsStep
<1> QED
    BY <1>1, <1>2

\* The asserts on the emulator's errno before its call and after the reply never fail.
LEMMA ServerErrnoStep ==
    ASSUME TypeOK, OnTrack,
           \/ Asserts("server", "bound", "recvfrom", NoError("server"))
           \/ Asserts("server", "sent", "returned", NoError("server"))
    PROVE  (TypeOK /\ OnTrack)'
<1>1. NoError("server")
    BY DEF Asserts, OnTrack, ServerErrno
<1> QED
    BY <1>1, ServerGoesStep DEF Asserts, ServerGoes

\* A reply comes to the client's queue or is dropped; only an Apple host takes its address.
LEMMA ServerRepliesStep ==
    ASSUME TypeOK, OnTrack, exit = "running", ServerReplies
    PROVE  (TypeOK /\ OnTrack)'
<1>1. CASE Ends("server", "sendto", "failed")
    BY <1>1, FailedStep
<1>2. ASSUME Sendable, NEW f \in {"delivered", "dropped"},
             Goes("server", "sendto", "sent"),
             fate' = [fate EXCEPT !["server"] = f],
             client_box' = IF f = "delivered" THEN Append(client_box, "server message")
                           ELSE client_box,
             UNCHANGED <<bound, server_box, stray, Memory>>
      PROVE  (TypeOK /\ OnTrack)'
    <2>1. /\ pc["server"] = "sendto" /\ pc' = [pc EXCEPT !["server"] = "sent"]
          /\ UNCHANGED <<host, exit>>
        BY <1>2 DEF Goes
    <2>2. pc'["server"] = "sent" /\ pc'["main"] = pc["main"] /\ pc'["client"] = pc["client"]
        BY <2>1, Moved DEF Process
    <2>3. host = "apple"
        <3>1. host # "linux"
            BY <1>2, <2>1, ReportedIsSendable DEF OnTrack, ServerOnTrack
        <3> QED BY <3>1, HostsAssumption DEF TypeOK
    <2>4. fate'["server"] = f /\ fate'["client"] = fate["client"] /\ fate["server"] = "unsent"
        BY <1>2, <2>1 DEF TypeOK, Talker, OnTrack, ServerOnTrack
    <2>5. ForServer' = ForServer
        BY <1>2, <2>4 DEF ForServer
    <2>6. ForClient = {} /\ (f = "delivered" => ForClient' = {"server message"})
        BY <2>4 DEF ForClient
    <2>7. client_box' \in Seq(ForClient')
        <3>1. client_box \in Seq(ForClient) /\ client_box \in Seq(ForClient')
            BY <2>6, SeqGrows DEF OnTrack, Delivered
        <3> QED BY <1>2, <2>6, <3>1, AppendProperties
    <2>8. Delivered'
        BY <1>2, <2>5, <2>7 DEF OnTrack, Delivered, Memory
    <2>9. ServerErrno'
        BY <1>2, <2>1, <2>2 DEF OnTrack, ServerErrno, BeforeAnswer, Replying, Memory, NoError
    <2>10. ServerOnTrack'
        BY <1>2, <2>1, <2>2, <2>3, <2>4 DEF OnTrack, ServerOnTrack, Replying, Memory
    <2>11. ClientOnTrack' /\ MainOnTrack'
        BY <1>2, <2>1, <2>2, <2>4 DEF OnTrack, ClientOnTrack, MainOnTrack, Memory, NoError,
                                      Differs
    <2>12. Awaited'
        <3>1. f = "delivered" => client_box' # <<>>
            BY <1>2, Appended DEF TypeOK, Datagram
        <3> QED BY <2>2, <2>4, <3>1 DEF Awaited, BeforeAnswer
    <2>13. TypeOK'
        <3>1. client_box' \in Seq(Datagram)
            BY <1>2, AppendProperties DEF TypeOK, Datagram
        <3>2. fate' \in [Talker -> {"unsent", "delivered", "dropped", "refused"}]
            BY <1>2 DEF TypeOK
        <3> QED BY <1>2, <2>1, <2>2, <3>1, <3>2 DEF TypeOK, Process, Memory
    <2> QED BY <2>8, <2>9, <2>10, <2>11, <2>12, <2>13 DEF OnTrack
<1> QED
    BY <1>1, <1>2 DEF ServerReplies

LEMMA ServerStep ==
    ASSUME TypeOK, OnTrack, exit = "running", Server
    PROVE  (TypeOK /\ OnTrack)'
<1>1. CASE Start("server", "bind")
    BY <1>1, StartStep DEF Talker
<1>2. CASE ServerCallsHost
    BY <1>2, ServerGoesStep DEF ServerCallsHost, Goes, ServerGoes
<1> QED
    BY <1>1, <1>2, BindStep, ServerErrnoStep, HostAnswersServerStep, ServerReturnsStep,
       ServerComparesStep, ServerRepliesStep DEF Server

-----------------------------------------------------------------------------
(***************************************************************************)
(* The client, and other processes.                                        *)
(***************************************************************************)
\* The client's datagram comes to the server's socket, or to nobody.
LEMMA ClientSendsStep ==
    ASSUME TypeOK, OnTrack, exit = "running", ClientSends
    PROVE  (TypeOK /\ OnTrack)'
<1>1. PICK f \in {"delivered", "dropped", "refused"} :
          /\ fate' = [fate EXCEPT !["client"] = f]
          /\ server_box' = IF f = "delivered" THEN Append(server_box, "client message")
                           ELSE server_box
    BY DEF ClientSends
<1>2. /\ pc["client"] = "sendto" /\ pc' = [pc EXCEPT !["client"] = "recvfrom"]
      /\ UNCHANGED <<host, exit, bound, client_box, stray, Memory>>
    BY DEF ClientSends, Goes
<1>3. pc'["client"] = "recvfrom" /\ pc'["main"] = pc["main"] /\ pc'["server"] = pc["server"]
    BY <1>2, Moved DEF Process
<1>4. fate'["client"] = f /\ fate'["server"] = fate["server"] /\ fate["client"] = "unsent"
    BY <1>1, <1>2 DEF TypeOK, Talker, OnTrack, ClientOnTrack, Unsent
<1>5. /\ ForServer \subseteq ForServer' /\ ForClient' = ForClient
      /\ f = "delivered" => "client message" \in ForServer'
    BY <1>2, <1>4 DEF ForServer, ForClient
<1>6. server_box' \in Seq(ForServer')
    <2>1. server_box \in Seq(ForServer')
        BY <1>5, SeqGrows DEF OnTrack, Delivered
    <2> QED BY <1>1, <1>5, <2>1, AppendProperties
<1>7. Delivered'
    BY <1>2, <1>5, <1>6 DEF OnTrack, Delivered, Memory
<1>8. ServerErrno' /\ ServerOnTrack'
    BY <1>2, <1>3, <1>4 DEF OnTrack, ServerErrno, ServerOnTrack, Memory, HostInet, Reported,
                            NoError
<1>9. ClientOnTrack' /\ MainOnTrack'
    BY <1>2, <1>3, <1>4 DEF OnTrack, ClientOnTrack, MainOnTrack, Unsent, Memory, NoError,
                            Differs
<1>10. Awaited'
    <2>1. f = "delivered" => server_box' # <<>>
        BY <1>1, Appended DEF TypeOK, Datagram
    <2>2. fate["server"] # "delivered"
        \* A server that has replied has had the client's datagram, which is not sent yet.
        <3>1. pc["server"] \notin {"sent", "returned"}
            BY <1>4 DEF OnTrack, ServerOnTrack, Replying, Delivered, ForServer
        <3> QED BY <3>1 DEF OnTrack, ServerOnTrack
    <2> QED BY <1>3, <1>4, <2>1, <2>2 DEF Awaited
<1>11. TypeOK'
    <2>1. server_box' \in Seq(Datagram)
        BY <1>1, AppendProperties DEF TypeOK, Datagram
    <2>2. fate' \in [Talker -> {"unsent", "delivered", "dropped", "refused"}]
        BY <1>1 DEF TypeOK
    <2> QED BY <1>2, <1>3, <2>1, <2>2 DEF TypeOK, Process, Memory
<1> QED
    BY <1>7, <1>8, <1>9, <1>10, <1>11 DEF OnTrack

\* There is nothing in the client's queue but the server's reply.
LEMMA ClientReceivesStep ==
    ASSUME TypeOK, OnTrack, exit = "running", ClientReceives
    PROVE  (TypeOK /\ OnTrack)'
<1>1. PICK part \in {"a part", Head(client_box)} :
            buffer' = [buffer EXCEPT !["client"] = part]
    BY DEF ClientReceives
<1>2. /\ client_box # <<>>
      /\ pc["client"] = "recvfrom" /\ pc' = [pc EXCEPT !["client"] = "compare"]
      /\ client_box' = Tail(client_box)
      /\ UNCHANGED <<host, exit, bound, server_box, fate, stray, err, darling_errno,
                     client_buffer_len, client_address_details>>
    BY DEF ClientReceives, Goes
<1>3. pc'["client"] = "compare" /\ pc'["main"] = pc["main"] /\ pc'["server"] = pc["server"]
    BY <1>2, Moved DEF Process
<1>4. Head(client_box) \in ForClient /\ Tail(client_box) \in Seq(ForClient)
    BY <1>2, HeadTailProperties DEF OnTrack, Delivered
<1>5. fate["server"] = "delivered" /\ part \in {"a part", "server message"}
    BY <1>1, <1>4 DEF ForClient
<1>6. buffer'["client"] = part /\ buffer'["server"] = buffer["server"]
    BY <1>1 DEF TypeOK, Talker
<1>7. Delivered'
    BY <1>2, <1>4, <1>6 DEF OnTrack, Delivered, ForServer, ForClient
<1>8. ServerErrno' /\ ServerOnTrack'
    BY <1>2, <1>3, <1>6 DEF OnTrack, ServerErrno, ServerOnTrack, HostInet, Reported, NoError,
                            Length
<1>9. ClientOnTrack' /\ MainOnTrack'
    BY <1>2, <1>3, <1>5, <1>6 DEF OnTrack, ClientOnTrack, MainOnTrack, Unsent, NoError, Differs
<1>10. Awaited'
    BY <1>2, <1>3 DEF OnTrack, Awaited
<1>11. TypeOK'
    <2>1. client_box' \in Seq(Datagram)
        BY <1>2, HeadTailProperties DEF TypeOK
    <2>2. buffer' \in [Talker -> Datagram \cup {"nothing", "a part"}]
        BY <1>1, <1>5 DEF TypeOK, Datagram
    <2> QED BY <1>2, <1>3, <1>6, <2>1, <2>2 DEF TypeOK, Process
<1> QED
    BY <1>7, <1>8, <1>9, <1>10, <1>11 DEF OnTrack

LEMMA HostFailsClientStep ==
    ASSUME TypeOK, OnTrack, exit = "running", HostFailsClient
    PROVE  (TypeOK /\ OnTrack)'
<1>1. PICK e \in Errno : err' = [err EXCEPT !["client"] = e]
    BY DEF HostFailsClient
<1>2. /\ pc["client"] = "recvfrom" /\ pc' = [pc EXCEPT !["client"] = "compare"]
      /\ UNCHANGED <<host, exit, Sockets, buffer, darling_errno, client_buffer_len,
                     client_address_details>>
    BY DEF HostFailsClient, Goes
<1>3. pc'["client"] = "compare" /\ pc'["main"] = pc["main"] /\ pc'["server"] = pc["server"]
    BY <1>2, Moved DEF Process
<1>4. e # 0
    BY HostsAssumption DEF ErrnoValue, MAX_ERRNO
<1>5. err'["client"] = e /\ err'["server"] = err["server"]
    BY <1>1 DEF TypeOK, Talker
<1>6. Delivered'
    BY <1>2 DEF OnTrack, Delivered, ForServer, ForClient, Sockets
<1>7. ServerErrno' /\ ServerOnTrack'
    BY <1>2, <1>3, <1>5 DEF OnTrack, ServerErrno, ServerOnTrack, Sockets, HostInet, Reported,
                            NoError
<1>8. ClientOnTrack' /\ MainOnTrack'
    BY <1>2, <1>3, <1>4, <1>5 DEF OnTrack, ClientOnTrack, MainOnTrack, Unsent, Sockets, NoError,
                                  Differs
<1>9. Awaited'
    BY <1>2, <1>3 DEF OnTrack, Awaited, Sockets
<1>10. TypeOK'
    <2>1. err' \in [Talker -> Errno \cup {0}]
        BY <1>1 DEF TypeOK
    <2> QED BY <1>2, <1>3, <1>5, <2>1 DEF TypeOK, Process, Sockets
<1> QED
    BY <1>6, <1>7, <1>8, <1>9, <1>10 DEF OnTrack

\* Line 121 aborts at the whole reply.
LEMMA ClientStep ==
    ASSUME TypeOK, OnTrack, exit = "running", Client
    PROVE  (TypeOK /\ OnTrack)'
<1>1. CASE Start("client", "sendto")
    BY <1>1, StartStep DEF Talker
<1>2. CASE Asserts("client", "compare", "close", Differs)
    <2>1. CASE Differs
        BY <1>2, <2>1, ClientGoesStep DEF Asserts, ClientGoes
    <2>2. CASE ~Differs
        <3>1. exit' = "aborted" /\ pc' = pc /\ UNCHANGED <<host, Sockets, Memory>>
            BY <1>2, <2>2 DEF Asserts, TypeOK, Process
        <3> QED BY <2>2, <3>1, EndsStep DEF Differs
    <2> QED BY <2>1, <2>2
<1>3. CASE ClientCloses
    BY <1>3, ClientGoesStep DEF ClientCloses, Goes, ClientGoes
<1>4. CASE Asserts("client", "closed", "returned", NoError("client"))
    <2>1. NoError("client")
        BY DEF OnTrack, ClientOnTrack
    <2> QED BY <1>4, <2>1, ClientGoesStep DEF Asserts, ClientGoes
<1> QED
    BY <1>1, <1>2, <1>3, <1>4, ClientSendsStep, ClientReceivesStep DEF Client

LEMMA OthersSendStep ==
    ASSUME TypeOK, OnTrack, OthersSend
    PROVE  (TypeOK /\ OnTrack)'
<1>1. PICK d \in {"stray", "empty"} : server_box' = Append(server_box, d)
    BY DEF OthersSend
<1>2. /\ stray < MaxStray /\ stray' = stray + 1
      /\ UNCHANGED <<host, pc, exit, bound, client_box, fate, Memory>>
    BY DEF OthersSend
<1>3. stray' \in 0 .. MaxStray /\ stray' > 0
    <2>1. stray \in 0 .. MaxStray
        BY DEF TypeOK
    <2> QED BY <1>2, <2>1, HostsAssumption
<1>4. ForServer \subseteq ForServer' /\ d \in ForServer' /\ ForClient' = ForClient
    BY <1>2, <1>3 DEF ForServer, ForClient
<1>5. server_box' \in Seq(ForServer')
    <2>1. server_box \in Seq(ForServer')
        BY <1>4, SeqGrows DEF OnTrack, Delivered
    <2> QED BY <1>1, <1>4, <2>1, AppendProperties
<1>6. Delivered'
    BY <1>2, <1>4, <1>5 DEF OnTrack, Delivered, Memory
<1>7. ServerErrno' /\ ServerOnTrack'
    BY <1>2 DEF OnTrack, ServerErrno, ServerOnTrack, Memory, HostInet, Reported, NoError
<1>8. ClientOnTrack' /\ MainOnTrack'
    BY <1>2, <1>3 DEF OnTrack, ClientOnTrack, MainOnTrack, Memory, NoError, Differs
<1>9. Awaited'
    BY <1>1, <1>2, Appended DEF OnTrack, Awaited, TypeOK, Datagram
<1>10. TypeOK'
    <2>1. server_box' \in Seq(Datagram)
        BY <1>1, AppendProperties DEF TypeOK, Datagram
    <2> QED BY <1>2, <1>3, <2>1 DEF TypeOK, Memory
<1> QED
    BY <1>6, <1>7, <1>8, <1>9, <1>10 DEF OnTrack

-----------------------------------------------------------------------------
(***************************************************************************)
(* The invariant, and what follows from it.                                *)
(***************************************************************************)
LEMMA InitOnTrack == Init => TypeOK /\ OnTrack
<1> SUFFICES ASSUME Init PROVE TypeOK /\ OnTrack
    OBVIOUS
<1>1. <<>> \in Seq(Datagram) /\ <<>> \in Seq(ForServer) /\ <<>> \in Seq(ForClient)
    OBVIOUS
<1>2. Zeroed \in Sockaddr
    BY DEF Zeroed, Sockaddr, Byte, UCHAR_MAX
<1>3. /\ pc["main"] = "create_server" /\ pc["server"] = "unborn" /\ pc["client"] = "unborn"
      /\ pc \in [Process -> {"create_server", "unborn"}]
    <2>1. /\ DOMAIN pc = Process /\ pc = [p \in Process |-> pc[p]]
          /\ pc["main"] = "create_server" /\ pc["server"] = "unborn" /\ pc["client"] = "unborn"
        BY DEF Init, Process
    <2>2. \A p \in Process : pc[p] \in {"create_server", "unborn"}
        BY <2>1 DEF Process
    <2> QED BY <2>1, <2>2
<1>4. TypeOK
    <2>1. /\ fate \in [Talker -> {"unsent"}] /\ buffer \in [Talker -> {"nothing"}]
          /\ err \in [Talker -> {0}] /\ darling_errno \in [Talker -> Int]
        BY DEF Init
    <2>2. /\ host \in Hosts /\ bound = FALSE /\ stray \in 0 .. MaxStray
          /\ server_box = <<>> /\ client_box = <<>> /\ client_buffer_len = 0
          /\ client_address_details = Zeroed /\ exit = "running"
        BY HostsAssumption DEF Init
    <2> QED BY <1>1, <1>2, <1>3, <2>1, <2>2 DEF TypeOK
<1>5. OnTrack
    <2>1. /\ fate["client"] = "unsent" /\ fate["server"] = "unsent"
          /\ buffer["client"] = "nothing" /\ buffer["server"] = "nothing"
          /\ err["client"] = 0 /\ err["server"] = 0
          /\ darling_errno["client"] = 0 /\ darling_errno["server"] = 0
        BY DEF Init, Talker
    <2>2. server_box = <<>> /\ client_box = <<>> /\ exit = "running"
        BY DEF Init
    <2>3. Delivered /\ Awaited
        BY <1>1, <2>1, <2>2 DEF Delivered, Awaited
    <2>4. ServerErrno /\ ServerOnTrack
        BY <1>3, <2>1 DEF ServerErrno, ServerOnTrack, BeforeAnswer, Replying, NoError
    <2>5. ClientOnTrack /\ MainOnTrack
        BY <1>3, <2>1, <2>2 DEF ClientOnTrack, MainOnTrack, Unsent, NoError, Differs
    <2> QED BY <2>3, <2>4, <2>5 DEF OnTrack
<1> QED
    BY <1>4, <1>5

LEMMA OnTrackStep == TypeOK /\ OnTrack /\ [Next]_vars => (TypeOK /\ OnTrack)'
<1> SUFFICES ASSUME TypeOK, OnTrack, [Next]_vars
             PROVE  (TypeOK /\ OnTrack)'
    OBVIOUS
<1>1. CASE \E p \in Process : Step(p)
    BY <1>1, MainStep, ServerStep, ClientStep DEF Step
<1>2. CASE exit = "running" /\ (HostFailsServer \/ HostFailsClient \/ OthersSend)
    BY <1>2, HostFailsServerStep, HostFailsClientStep, OthersSendStep
<1>3. CASE UNCHANGED vars
    <2>1. UNCHANGED <<host, pc, exit, Sockets, Memory>>
        BY <1>3 DEF vars, Sockets, Memory
    <2>2. exit \in {"running", "success", "failed", "aborted"}
        BY DEF TypeOK
    <2>3. Delivered'
        BY <2>1, QueuesKept DEF OnTrack
    <2>4. ServerErrno' /\ ServerOnTrack' /\ ClientOnTrack'
        BY <2>1 DEF OnTrack, ServerErrno, ServerOnTrack, ClientOnTrack, Sockets, Memory,
                    HostInet, Reported, NoError, Differs
    <2>5. MainOnTrack' /\ Awaited'
        BY <2>1 DEF OnTrack, MainOnTrack, Awaited, Sockets, Memory
    <2>6. TypeOK'
        BY <2>1 DEF TypeOK, Sockets, Memory
    <2> QED BY <2>3, <2>4, <2>5, <2>6 DEF OnTrack
<1> QED
    BY <1>1, <1>2, <1>3 DEF Next

LEMMA AlwaysOnTrack == Spec => [](TypeOK /\ OnTrack)
BY InitOnTrack, OnTrackStep, PTL DEF Spec

\* The test ends in success only on an Apple host, after the client's datagram has come
\* through the emulator's recvfrom and has been answered at the address it gave, which the
\* host takes; and it aborts only if that recvfrom fails, at a datagram of another process,
\* or at the inverted assert of line 121: whatever the host's calls fail with, however many
\* datagrams others send, whatever numbers the build gives the families.
THEOREM ReplyComesBack == Spec => []ReplyReachesClient
<1>1. ASSUME TypeOK, OnTrack
      PROVE  ReplyReachesClient
    <2>1. host = "apple" /\ pc["server"] = "sendto" => Sendable
        BY <1>1, ReportedIsSendable DEF OnTrack, ServerOnTrack
    <2>2. ASSUME exit = "success"
          PROVE  /\ host = "apple"
                 /\ fate["client"] = "delivered" /\ err["server"] = 0
                 /\ \/ fate["server"] = "delivered" /\ buffer["client"] = "a part"
                    \/ fate["server"] # "unsent" /\ err["client"] # 0
        <3>1. pc["server"] = "returned" /\ pc["client"] = "returned"
            BY <1>1, <2>2 DEF OnTrack, MainOnTrack
        <3>2. /\ host = "apple" /\ fate["server"] \in {"delivered", "dropped"}
              /\ buffer["server"] = "client message"
            BY <1>1, <3>1 DEF OnTrack, ServerOnTrack, Replying
        <3>3. fate["client"] = "delivered" /\ err["server"] = 0
            BY <1>1, <3>1, <3>2 DEF OnTrack, Delivered, ForServer, ServerErrno, Replying
        <3>4. err["client"] # 0 \/ (fate["server"] = "delivered" /\ buffer["client"] = "a part")
            BY <1>1, <3>1 DEF OnTrack, ClientOnTrack, Differs
        <3> QED BY <3>2, <3>3, <3>4
    <2>3. exit = "aborted" =>
              err["server"] # 0 \/ stray > 0 \/ buffer["client"] = "server message"
        BY <1>1 DEF OnTrack, MainOnTrack
    <2> QED BY <2>1, <2>2, <2>3 DEF ReplyReachesClient
<1> QED
    BY <1>1, AlwaysOnTrack, PTL

\* Threads, queues, buffers and errors hold what they may; a server whose recvfrom
\* succeeded has a datagram, and one whose recvfrom failed does not get past its asserts.
THEOREM TestTypeCorrect == Spec => []TypeOK
BY AlwaysOnTrack, PTL

\* As long as neither of the test's two datagrams has been lost, some thread can always go
\* on until the process ends: whoever waits in recvfrom after the other side's datagram has
\* been delivered finds it, and main joins threads that return.
THEOREM OnlyLossDeadlocks == Spec => []DeadlockByLossOnly
<1>1. ASSUME TypeOK, OnTrack
      PROVE  DeadlockByLossOnly
    <2>1. SUFFICES ASSUME \A p \in Process : Blocked(p)
                   PROVE  IF pc["server"] = "returned" THEN fate["server"] = "dropped"
                          ELSE fate["client"] \in {"dropped", "refused"}
        BY DEF DeadlockByLossOnly
    <2>2. Blocked("main") /\ Blocked("server") /\ Blocked("client")
        BY <2>1 DEF Process
    <2>3. pc["server"] # "unborn" /\ pc["client"] # "unborn"
        BY <1>1, <2>2 DEF Blocked, OnTrack, MainOnTrack
    <2>4. CASE pc["server"] = "returned"
        <3>1. pc["client"] # "returned"
            BY <2>2, <2>4 DEF Blocked
        <3>2. pc["client"] = "recvfrom" /\ client_box = <<>>
            BY <2>2, <2>3, <3>1 DEF Blocked
        <3>3. fate["server"] # "delivered"
            BY <1>1, <3>2 DEF OnTrack, Awaited
        <3> QED BY <1>1, <2>4, <3>3 DEF OnTrack, ServerOnTrack
    <2>5. CASE pc["server"] = "host" /\ server_box = <<>>
        <3>1. fate["client"] # "delivered"
            BY <1>1, <2>5 DEF OnTrack, Awaited, BeforeAnswer
        <3>2. fate["client"] # "unsent"
            BY <1>1, <2>2, <2>3 DEF Blocked, OnTrack, ClientOnTrack, Unsent
        <3> QED BY <1>1, <2>5, <3>1, <3>2 DEF TypeOK, Talker
    <2> QED BY <2>2, <2>3, <2>4, <2>5 DEF Blocked
<1> QED
    BY <1>1, AlwaysOnTrack, PTL
=============================================================================
