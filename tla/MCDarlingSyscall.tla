------------------------- MODULE MCDarlingSyscall -------------------------
(***************************************************************************)
(* Instances of DarlingSyscall for TLC.                                    *)
(***************************************************************************)
EXTENDS DarlingSyscallProperties

W(i) == SignExtend(i)
MCJunk == [hi |-> 7, lo |-> 77]
MCLinkage == [hi |-> 9, lo |-> 99]

\* Linux and Darwin numbers: PF_LOCAL, PF_INET, PF_IPX, PF_INET6 and errno.
LinuxPF == [LOCAL |-> 1, INET |-> 2, IPX |-> 4, INET6 |-> 10]
DarwinPF == [LOCAL |-> 1, INET |-> 2, IPX |-> 23, INET6 |-> 30]
LinuxErrno == [v \in Translated |-> v]
\* Of the Darwin numbers only those of EPERM and EBADF, which are the same, EAGAIN,
\* ENOSYS and EOPNOTSUPP; the Apple branches of bsd/impl do not use the table.
DarwinErrno == [v \in Translated |-> CASE v = 11 -> 35 [] v = 38 -> 78 [] v = 95 -> 102
                                       [] OTHER -> v]

\* A descriptor whose register has garbage in its upper half, as the ABI allows.
DirtyFd == [hi |-> 5, lo |-> 3]
Buffer == W(1000)
From == W(2000)
Socklen == W(3000)
Fds == W(4000)

\* The program's memory before a call: a recvfrom buffer left from an earlier
\* answer (in BSD form), with room for sixteen bytes or for a local address.
Stale == [bsd_length |-> 16, bsd_family |-> 2, path |-> 0]
Memory(room) == [fd0 |-> 0, fd1 |-> 0, socklen |-> room, sockaddr |-> Stale]

Stub(number, arg, tail, mem) ==
    [eax |-> SYSCALL_CONSTRUCT_UNIX(number), arg |-> arg, tail |-> tail, user |-> mem]
Indirect(number, arg, mem) == Stub(0, <<W(number)>> \o arg, "plain", mem)
Raw(eax) == [eax |-> eax, arg |-> <<W(3), Buffer, W(5)>>, tail |-> "plain", user |-> Memory(16)]

WriteArgs(len) == <<DirtyFd, Buffer, len>>
RecvArgs(from) == <<DirtyFd, Buffer, W(8), [hi |-> 3, lo |-> 64], from,
                    IF from = NULL THEN NULL ELSE Socklen>>

Write == Stub(4, WriteArgs(W(5)), "plain", Memory(16))
WriteNegative == Stub(4, WriteArgs(W(-1)), "plain", Memory(16))
WriteHuge == Stub(4, WriteArgs([hi |-> 1, lo |-> 5]), "plain", Memory(16))
IndirectWrite == Indirect(4, WriteArgs(W(5)), Memory(16))
Recvfrom == Stub(29, RecvArgs(From), "plain", Memory(16))
RecvNoFrom == Stub(29, RecvArgs(NULL), "plain", Memory(16))
IndirectRecvfrom == Indirect(29, RecvArgs(From), Memory(110))
Pipe == Stub(42, <<Fds>>, "pipe", Memory(16))
IndirectPipe == Indirect(42, <<Fds>>, Memory(16))

\* Numbers and classes nobody serves: out of range, no row, past the last row,
\* indirect with a class in the number, negative, indirect of an indirect, Mach,
\* machine-dependent, diagnostics, no class, an unknown and a negative class.
Unserved ==
    { Stub(65535, WriteArgs(W(5)), "plain", Memory(16)),
      Stub(27, WriteArgs(W(5)), "plain", Memory(16)),
      Stub(600, WriteArgs(W(5)), "plain", Memory(16)),
      Stub(599, WriteArgs(W(5)), "plain", Memory(16)),
      Indirect(SYSCALL_CONSTRUCT_UNIX(4), WriteArgs(W(5)), Memory(16)),
      Indirect(-4, WriteArgs(W(5)), Memory(16)),
      Indirect(0, <<W(4)>> \o WriteArgs(W(5)), Memory(16)) }
    \cup { Raw(eax) : eax \in {16777220, 50331652, 67108868, 4, 83886084, -16777212} }

AllCalls == {Write, WriteNegative, WriteHuge, IndirectWrite, Recvfrom, RecvNoFrom,
             IndirectRecvfrom, Pipe, IndirectPipe} \cup Unserved

\* Few calls, for several activations at once.
SomeCalls == {Write, IndirectRecvfrom, Pipe}
NestedCalls == SomeCalls \cup {Indirect(0, <<W(4)>>, Memory(16)), IndirectWrite, Recvfrom,
                               IndirectPipe, Raw(16777220)}

\* No address, an internet address, a local one with its path and one whose path
\* just does not fit into sun_path, a family the table does not translate.
AllAddresses ==
    { NoAddress,
      [family |-> 2, addrlen |-> 16, path |-> 0],
      [family |-> 10, addrlen |-> 28, path |-> 0],
      [family |-> 1, addrlen |-> 8, path |-> 5],
      [family |-> 1, addrlen |-> 107, path |-> 104],
      [family |-> 16, addrlen |-> 12, path |-> 0] }
SomeAddresses == {[family |-> 2, addrlen |-> 16, path |-> 0]}

\* On an Apple host errno 1 and 2 are nothing special; on Linux they are.
AllErrnos == {1, 2, 9, 35, 95}
=============================================================================
