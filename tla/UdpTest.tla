------------------------------ MODULE UdpTest ------------------------------
(***************************************************************************)
(* The repository's one concurrent test,                                   *)
(* test/indirect_syscall/successful_recvfrom_and_sendto.c: two threads of  *)
(* a process talk over UDP.  The server's recvfrom goes through the        *)
(* emulator, by darling_syscall(29, ...); everything else the test calls   *)
(* is the host's own.  Any of these calls may fail.  The socket address    *)
(* and the errno that the emulator hands back come from SockaddrFixup and  *)
(* ErrnoConversion, so this composes the emulator with its caller.         *)
(***************************************************************************)
EXTENDS Sequences, SockaddrFixup

CONSTANTS
    Hosts,      \* the builds of the test: a subset of {"linux", "apple"}
    Errno,      \* what the host's recvfrom may fail with
    MaxStray    \* bound: datagrams from other processes

ASSUME HostsAssumption ==
    Hosts \subseteq {"linux", "apple"} /\ Errno \subseteq ErrnoValue /\ MaxStray \in Nat

VARIABLES
    host,                   \* the build
    pc,                     \* where each thread is
    bound,                  \* whether the server's socket has its port
    server_box, client_box, \* the datagrams waiting at the two sockets
    fate,                   \* what became of client's and server's datagram
    stray,                  \* how many datagrams other processes have sent
    buffer,                 \* what server and client have received
    err,                    \* what the host's recvfrom of server and client failed with
    darling_errno,          \* the emulator's errno of server and client
    client_buffer_len,      \* what darling_syscall returned to the server
    client_address_details, \* the sender, as recvfrom reported it to the server
    exit                    \* how the process ended

vars == <<host, pc, bound, server_box, client_box, fate, stray, buffer, err, darling_errno,
          client_buffer_len, client_address_details, exit>>

Process == {"main", "server", "client"}
Talker == {"server", "client"}
Datagram == {"client message", "server message", "stray", "empty"}

\* struct sockaddr_in client_address_details = {0}
Zeroed == [bsd_length |-> 0, bsd_family |-> 0, path |-> 0]

sizeof_sockaddr_in == 16

Init ==
    /\ host \in Hosts
    /\ pc = [main |-> "create_server", server |-> "unborn", client |-> "unborn"]
    /\ bound = FALSE
    /\ server_box = <<>> /\ client_box = <<>>
    /\ fate = [t \in Talker |-> "unsent"]
    /\ stray = 0
    /\ buffer = [t \in Talker |-> "nothing"]
    /\ err = [t \in Talker |-> 0]
    /\ darling_errno = [t \in Talker |-> 0]
    /\ client_buffer_len = 0
    /\ client_address_details = Zeroed
    /\ exit = "running"

-----------------------------------------------------------------------------
Sockets == <<bound, server_box, client_box, fate, stray>>
Memory == <<buffer, err, darling_errno, client_buffer_len, client_address_details>>

Goes(p, from, to) ==
    /\ pc[p] = from
    /\ pc' = [pc EXCEPT ![p] = to]
    /\ UNCHANGED <<host, exit>>

\* The whole process ends, whatever the other threads do: exit(1) after perror, a
\* failed assert, the return from main.
Ends(p, from, how) ==
    /\ pc[p] = from
    /\ exit' = how
    /\ UNCHANGED <<host, pc, Sockets, Memory>>

\* assert(condition)
Asserts(p, from, to, condition) ==
    /\ pc[p] = from
    /\ pc' = [pc EXCEPT ![p] = IF condition THEN to ELSE from]
    /\ exit' = IF condition THEN exit ELSE "aborted"
    /\ UNCHANGED <<host, Sockets, Memory>>

\* pthread_create, which may fail; pthread_join.
Create(from, thread, to) ==
    \/ /\ pc["main"] = from
       /\ pc' = [pc EXCEPT !["main"] = to, ![thread] = "set_cerror"]
       /\ UNCHANGED <<host, exit, Sockets, Memory>>
    \/ Ends("main", from, "failed")

Join(from, thread, to) ==
    pc[thread] = "returned" /\ Goes("main", from, to) /\ UNCHANGED <<Sockets, Memory>>

Main ==
    \/ Create("create_server", "server", "create_client")
    \/ Create("create_client", "client", "join_server")
    \/ Join("join_server", "server", "join_client")
    \/ Join("join_client", "client", "return")
    \/ Ends("main", "return", "success")

\* darling_set_cerror(0); socket(PF_INET, SOCK_DGRAM, ...), which may fail.
Start(p, to) ==
    \/ /\ Goes(p, "set_cerror", "socket")
       /\ darling_errno' = [darling_errno EXCEPT ![p] = 0]
       /\ UNCHANGED <<Sockets, buffer, err, client_buffer_len, client_address_details>>
    \/ Goes(p, "socket", to) /\ UNCHANGED <<Sockets, Memory>>
    \/ Ends(p, "socket", "failed")

\* Every assert on the emulator's errno.
NoError(p) == darling_errno[p] = 0

-----------------------------------------------------------------------------
(***************************************************************************)
(* server_thread                                                           *)
(***************************************************************************)
\* The port may be taken.
Bind ==
    \/ /\ Goes("server", "bind", "bound")
       /\ bound' = TRUE
       /\ UNCHANGED <<server_box, client_box, fate, stray, Memory>>
    \/ Ends("server", "bind", "failed")

\* Mutant: the address is converted on an Apple host, too.
Reported_Everywhere(sa) == sockaddr_fixup_from_linux(sa, sizeof_sockaddr_in).out

\* The host writes the sender's address, and sys_recvfrom converts it if the host is Linux.
Reported(sa) ==
    IF host = "linux" THEN sockaddr_fixup_from_linux(sa, sizeof_sockaddr_in).out ELSE sa

\* What the host kernel writes for a sender of family AF_INET.
HostInet ==
    IF host = "linux" THEN [bsd_length |-> LINUX_PF_INET, bsd_family |-> 0, path |-> 0]
    ELSE [bsd_length |-> sizeof_sockaddr_in, bsd_family |-> HostPF["INET"], path |-> 0]

\* The family the host kernel reads in an address.
HostFamily(sa) == IF host = "linux" THEN linux_family(sa) ELSE sa.bsd_family
HostInetNumber == IF host = "linux" THEN LINUX_PF_INET ELSE HostPF["INET"]

\* Mutant: MSG_WAITALL is taken for MSG_DONTWAIT, and there is no datagram yet.
ServerCallsHost_DontWait == Goes("server", "recvfrom", "answered") /\ UNCHANGED <<Sockets, Memory>>

\* darling_syscall(29, ...) comes to the host, which waits for a datagram or fails; the
\* emulator converts its answer and returns.
ServerCallsHost == Goes("server", "recvfrom", "host") /\ UNCHANGED <<Sockets, Memory>>

HostAnswersServer ==
    /\ server_box # <<>>
    /\ Goes("server", "host", "answered")
    /\ server_box' = Tail(server_box)
    /\ buffer' = [buffer EXCEPT !["server"] = Head(server_box)]
    /\ client_address_details' = HostInet
    /\ UNCHANGED <<bound, client_box, fate, stray, err, darling_errno, client_buffer_len>>

HostFailsServer ==
    /\ Goes("server", "host", "answered")
    /\ \E e \in Errno : err' = [err EXCEPT !["server"] = e]
    /\ UNCHANGED <<Sockets, buffer, darling_errno, client_buffer_len, client_address_details>>

\* The length of a datagram; 1 stands for any that is positive.
Length(d) == IF d = "empty" THEN 0 ELSE 1

\* The error that sys_recvfrom returns, and those that set_return_values does not report:
\* ERESTART and EJUSTRETURN, for which recvfrom's result is still 0.
ErrorOf(e) == IF host = "linux" THEN errno_linux_to_bsd(-e) ELSE e
Unreported == {-1, -2}

ServerReturns ==
    /\ Goes("server", "answered", "compare")
    /\ \/ /\ err["server"] = 0
          /\ client_buffer_len' = Length(buffer["server"])
          /\ client_address_details' = Reported(client_address_details)
          /\ UNCHANGED darling_errno
       \/ /\ err["server"] # 0
          /\ ErrorOf(err["server"]) \notin Unreported
          /\ darling_errno' = [darling_errno EXCEPT !["server"] = ErrorOf(err["server"])]
          /\ client_buffer_len' = -1
          /\ UNCHANGED client_address_details
       \/ /\ err["server"] # 0
          /\ ErrorOf(err["server"]) \in Unreported
          /\ client_buffer_len' = 0
          /\ UNCHANGED <<darling_errno, client_address_details>>
    /\ UNCHANGED <<Sockets, buffer, err>>

\* The three asserts before the reply: no errno, some bytes, the expected ones.
Expected ==
    NoError("server") /\ client_buffer_len > 0 /\ buffer["server"] = "client message"

\* The host refuses to send to an address of a family that is not the socket's.
Sendable == HostFamily(client_address_details) = HostInetNumber

\* The client's socket takes datagrams until it is closed.
ClientOpen == pc["client"] \notin {"closed", "returned"}

\* Mutant: no exit(1) after the perror.
ServerReplies_NoExit ==
    /\ Goes("server", "sendto", "sent")
    /\ fate' = [fate EXCEPT !["server"] = IF Sendable THEN "delivered" ELSE "refused"]
    /\ client_box' = IF Sendable THEN Append(client_box, "server message") ELSE client_box
    /\ UNCHANGED <<bound, server_box, stray, Memory>>

\* The host may refuse the reply for other reasons too, and may drop it on its way.
ServerReplies ==
    \/ /\ Sendable
       /\ Goes("server", "sendto", "sent")
       /\ \/ /\ ClientOpen
             /\ fate' = [fate EXCEPT !["server"] = "delivered"]
             /\ client_box' = Append(client_box, "server message")
          \/ /\ fate' = [fate EXCEPT !["server"] = "dropped"]
             /\ UNCHANGED client_box
       /\ UNCHANGED <<bound, server_box, stray, Memory>>
    \/ Ends("server", "sendto", "failed")

Server ==
    \/ Start("server", "bind") \/ Bind
    \/ Asserts("server", "bound", "recvfrom", NoError("server"))
    \/ ServerCallsHost \/ HostAnswersServer \/ ServerReturns
    \/ Asserts("server", "compare", "sendto", Expected)
    \/ ServerReplies
    \/ Asserts("server", "sent", "returned", NoError("server"))

-----------------------------------------------------------------------------
(***************************************************************************)
(* client_thread                                                           *)
(***************************************************************************)
\* Nobody looks at the result of this sendto: it may fail, and a datagram is dropped, of
\* which the sender is not told, if the port is not bound or the host has no room for it.
ClientSends ==
    /\ Goes("client", "sendto", "recvfrom")
    /\ \/ /\ bound
          /\ fate' = [fate EXCEPT !["client"] = "delivered"]
          /\ server_box' = Append(server_box, "client message")
       \/ /\ \E f \in {"dropped", "refused"} : fate' = [fate EXCEPT !["client"] = f]
          /\ UNCHANGED server_box
    /\ UNCHANGED <<bound, client_box, stray, Memory>>

\* recvfrom(client_fd, buffer, strlen(buffer), ...): buffer has not been written, so its
\* strlen is anything, and so is the part of the datagram that fits.
ClientReceives ==
    /\ client_box # <<>>
    /\ Goes("client", "recvfrom", "compare")
    /\ client_box' = Tail(client_box)
    /\ \E part \in {"a part", Head(client_box)} :
            buffer' = [buffer EXCEPT !["client"] = part]
    /\ UNCHANGED <<bound, server_box, fate, stray, err, darling_errno, client_buffer_len,
                   client_address_details>>

\* Nobody looks at its result either: the thread goes on with a buffer that has not been
\* written.  Its NUL at buffer[-1] falls into the top byte of another local, which is 0
\* already in those that are read again.
HostFailsClient ==
    /\ Goes("client", "recvfrom", "compare")
    /\ \E e \in Errno : err' = [err EXCEPT !["client"] = e]
    /\ UNCHANGED <<Sockets, buffer, darling_errno, client_buffer_len, client_address_details>>

\* assert(strcmp("[Server] Sent message to client", buffer)): that they differ.
Differs == buffer["client"] # "server message"

ClientCloses == Goes("client", "close", "closed") /\ UNCHANGED <<Sockets, Memory>>

Client ==
    \/ Start("client", "sendto") \/ ClientSends \/ ClientReceives
    \/ Asserts("client", "compare", "close", Differs)
    \/ ClientCloses
    \/ Asserts("client", "closed", "returned", NoError("client"))

\* Another process sends something to the server's port, perhaps a datagram of no bytes.
\* (Bound: none knows the port the client's socket got from the host.)
OthersSend ==
    /\ bound
    /\ stray < MaxStray
    /\ stray' = stray + 1
    /\ \E d \in {"stray", "empty"} : server_box' = Append(server_box, d)
    /\ UNCHANGED <<host, pc, exit, bound, client_box, fate, Memory>>

-----------------------------------------------------------------------------
Step(p) ==
    /\ exit = "running"
    /\ \/ p = "main" /\ Main
       \/ p = "server" /\ Server
       \/ p = "client" /\ Client

Next ==
    \/ \E p \in Process : Step(p)
    \/ exit = "running" /\ (HostFailsServer \/ HostFailsClient \/ OthersSend)

Spec == Init /\ [][Next]_vars

\* The host's scheduler lets every thread run that can.  That a waiting recvfrom fails is
\* never due: it does not help a thread that waits.
FairSpec == Spec /\ \A p \in Process : WF_vars(Step(p))

\* A server whose recvfrom succeeded has a datagram, and so has one that replies.
TypeOK ==
    /\ host \in Hosts
    /\ pc \in [Process -> {"unborn", "create_server", "create_client", "join_server",
                           "join_client", "return", "set_cerror", "socket", "bind", "bound",
                           "recvfrom", "host", "answered", "compare", "sendto", "sent",
                           "close", "closed", "returned"}]
    /\ bound \in BOOLEAN /\ stray \in 0 .. MaxStray
    /\ server_box \in Seq(Datagram) /\ client_box \in Seq(Datagram)
    /\ fate \in [Talker -> {"unsent", "delivered", "dropped", "refused"}]
    /\ buffer \in [Talker -> Datagram \cup {"nothing", "a part"}]
    /\ err \in [Talker -> Errno \cup {0}]
    /\ darling_errno \in [Talker -> Int]
    /\ client_buffer_len \in {-1, 0, 1}
    /\ client_address_details \in Sockaddr
    /\ exit \in {"running", "success", "failed", "aborted"}
    /\ \/ pc["server"] \notin {"answered", "compare", "sendto", "sent", "returned"}
       \/ pc["server"] \in {"answered", "compare"} /\ err["server"] # 0
       \/ buffer["server"] \in Datagram

-----------------------------------------------------------------------------
(***************************************************************************)
(* Properties.                                                             *)
(***************************************************************************)
\* Nobody tells the threads of these: the client's datagram does not come to the server,
\* because it was sent too early, dropped by the host, or refused by a sendto whose result
\* the client ignores; or the host drops the server's reply.
Lost == fate["client"] \in {"dropped", "refused"} \/ fate["server"] = "dropped"

\* Only the loss of one of the test's two datagrams keeps the process running for ever: no
\* other order of the three threads, no failed recvfrom, no refused reply and no datagram
\* of another process leaves a thread waiting in recvfrom and main in pthread_join.
HangsByLossOnly == <>(exit # "running" \/ Lost)

\* What a thread waits for: pthread_join for a thread's return, recvfrom for a datagram.
Blocked(p) ==
    \/ p = "main" /\ pc["main"] = "join_server" /\ pc["server"] # "returned"
    \/ p = "main" /\ pc["main"] = "join_client" /\ pc["client"] # "returned"
    \/ p = "server" /\ pc["server"] = "host" /\ server_box = <<>>
    \/ p = "client" /\ pc["client"] = "recvfrom" /\ client_box = <<>>
    \/ p # "main" /\ pc[p] \in {"unborn", "returned"}

\* The three threads wait for one another only if one of their datagrams has been lost: it
\* takes no fairness to say that no other order of their steps is a deadlock.  While the
\* server still waits it must have been the client's, afterwards the server's reply.
DeadlockByLossOnly ==
    exit = "running" /\ (\A p \in Process : Blocked(p)) =>
        IF pc["server"] = "returned" THEN fate["server"] = "dropped"
        ELSE fate["client"] \in {"dropped", "refused"}

\* On an Apple host the server's reply goes to an address the host's sendto takes: it got
\* it from its recvfrom through the emulator.  (A Linux build has it converted and then
\* refused, see ReplyAddressUsable.)  The test succeeds only after the client's datagram
\* has come through the emulator and has been answered, and the client has received a part
\* of the answer or failed to receive.  It aborts only if the emulator's recvfrom failed,
\* at a datagram of another process, or at line 121, whose comparison has the wrong sense,
\* when the whole reply has come.
ReplyReachesClient ==
    /\ host = "apple" /\ pc["server"] = "sendto" => Sendable
    /\ exit = "success" =>
            /\ host = "apple"
            /\ fate["client"] = "delivered" /\ err["server"] = 0
            /\ \/ fate["server"] = "delivered" /\ buffer["client"] = "a part"
               \/ fate["server"] # "unsent" /\ err["client"] # 0
    /\ exit = "aborted" =>
            err["server"] # 0 \/ stray > 0 \/ buffer["client"] = "server message"

-----------------------------------------------------------------------------
(***************************************************************************)
(* Inductive invariant for these: who must have come how far for a         *)
(* datagram or an error to be where it is.                                 *)
(***************************************************************************)
\* The datagrams that may have come to the server, and to the client.
ForServer == {d \in {"client message", "stray", "empty"} :
                 IF d = "client message" THEN fate["client"] = "delivered" ELSE stray > 0}
ForClient == {d \in {"server message"} : fate["server"] = "delivered"}

Delivered ==
    /\ server_box \in Seq(ForServer)
    /\ client_box \in Seq(ForClient)
    /\ buffer["server"] \in ForServer \cup {"nothing"}

\* Before the answer there is no error, at the asserts the error is the answer's, and after
\* them there is none.
BeforeAnswer == {"unborn", "set_cerror", "socket", "bind", "bound", "recvfrom", "host"}
Replying == {"sendto", "sent", "returned"}

ServerErrno ==
    /\ pc["server"] \in BeforeAnswer \cup Replying => err["server"] = 0
    /\ pc["server"] # "compare" \/ err["server"] = 0 => NoError("server")
    /\ pc["server"] = "compare" =>
            client_buffer_len = IF err["server"] # 0 THEN IF NoError("server") THEN 0 ELSE -1
                                ELSE Length(buffer["server"])

\* The server replies only to the client, and only to an address the host takes.
ServerOnTrack ==
    /\ pc["server"] \in {"answered", "compare"} /\ err["server"] = 0 =>
            buffer["server"] # "nothing"
    /\ pc["server"] \in Replying => buffer["server"] = "client message"
    /\ pc["server"] = "answered" /\ err["server"] = 0 => client_address_details = HostInet
    /\ (pc["server"] = "compare" /\ err["server"] = 0) \/ pc["server"] = "sendto" =>
            client_address_details = Reported(HostInet)
    /\ pc["server"] \in {"sent", "returned"} =>
            host = "apple" /\ fate["server"] \in {"delivered", "dropped"}
    /\ pc["server"] \notin {"sent", "returned"} => fate["server"] = "unsent"

\* The client comes out of its recvfrom by the server's reply or by a failure.
Unsent == {"unborn", "set_cerror", "socket", "sendto"}
ClientOnTrack ==
    /\ NoError("client")
    /\ pc["client"] \in Unsent <=> fate["client"] = "unsent"
    /\ pc["client"] \in Unsent \cup {"recvfrom"} => err["client"] = 0
    /\ pc["client"] \in {"compare", "close", "closed", "returned"} =>
            err["client"] # 0 \/ (fate["server"] = "delivered" /\ buffer["client"] # "nothing")
    /\ buffer["client"] \in {"nothing", "a part", "server message"}
    /\ pc["client"] \in {"close", "closed", "returned"} => Differs

\* Threads are created once, and the process ends in success after it has joined them.
MainOnTrack ==
    /\ pc["main"] = "create_server" => pc["server"] = "unborn"
    /\ pc["main"] \in {"create_server", "create_client"} => pc["client"] = "unborn"
    /\ pc["main"] # "create_server" => pc["server"] # "unborn"
    /\ pc["main"] \in {"join_server", "join_client"} => pc["client"] # "unborn"
    /\ pc["main"] \in {"join_client", "return"} => pc["server"] = "returned"
    /\ pc["main"] = "return" => pc["client"] = "returned"
    /\ exit = "success" => pc["main"] = "return"
    /\ exit = "aborted" =>
            err["server"] # 0 \/ stray > 0 \/ buffer["client"] = "server message"

\* For DeadlockByLossOnly: whoever may wait for a datagram that has been delivered finds
\* one.
Awaited ==
    /\ fate["client"] = "delivered" /\ pc["server"] \in BeforeAnswer => server_box # <<>>
    /\ fate["server"] = "delivered" /\ pc["client"] = "recvfrom" => client_box # <<>>

OnTrack ==
    Delivered /\ ServerErrno /\ ServerOnTrack /\ ClientOnTrack /\ MainOnTrack /\ Awaited
=============================================================================
