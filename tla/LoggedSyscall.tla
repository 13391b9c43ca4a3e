---------------------------- MODULE LoggedSyscall ----------------------------
(***************************************************************************)
(* DarlingSyscall with its log.  The functions of the C bridge, of the     *)
(* dispatcher and of cerror log with printf (__simple_printf is the same   *)
(* function), so a call takes the lock of stdout several times on its way, *)
(* and printf writes, with the lock held, to a file that may be full.  The *)
(* lock is the only thing that makes calls of different threads wait.      *)
(*                                                                         *)
(* The printf calls of one step are one here, at its beginning.            *)
(***************************************************************************)
EXTENDS DarlingSyscallProperties

VARIABLES
    printing,   \* the activations inside printf: their thread owns the lock of stdout
    full        \* whether the file behind stdout takes no more at the moment

logvars == <<printing, full>>
allvars == <<vars, logvars>>

LoggedInit == Init /\ printing = {} /\ full = FALSE

\* Whether the next step of an activation logs: the handler and the functions of the other
\* classes; darling_common_syscall_unix and the functions that refuse a number; darling_cerror
\* and darling_cerror_nocancel.
Logs(a) == pc[a] \in {"entry", "unix"} \/ (pc[a] = "resume" /\ carry[a])

\* The lock (external) belongs to a thread and is recursive: a handler that interrupts a
\* printf of its own thread gets it.  It is not fair.
LockFree(a) == \A b \in printing : b[1] = a[1]

\* printf, until it has the lock.
TakeLock(a) ==
    /\ Logs(a)
    /\ a \notin printing
    /\ LockFree(a)
    /\ printing' = printing \cup {a}
    /\ UNCHANGED <<vars, full>>

\* Mutant: the dispatcher keeps the lock, to have the log of a call in one piece.
Printed_InOnePiece(a) ==
    /\ a \in printing
    /\ ~full
    /\ full' \in BOOLEAN
    /\ printing' = IF pc[a] = "unix" THEN printing ELSE printing \ {a}

\* The rest of printf: the text is written out, which may have filled the file, and the
\* lock is given back.
Printed(a) ==
    /\ a \in printing
    /\ ~full
    /\ full' \in BOOLEAN
    /\ printing' = printing \ {a}

\* Whoever reads the log makes room.
Drain ==
    /\ full
    /\ full' = FALSE
    /\ UNCHANGED <<vars, printing>>

\* A step of the emulator comes after its log.
LoggedEmulate(a) ==
    \/ TakeLock(a)
    \/ Logs(a) /\ Printed(a) /\ Emulate(a)
    \/ ~Logs(a) /\ Emulate(a) /\ UNCHANGED logvars

LoggedStep(a) ==
    /\ Top(a)
    /\ \/ LoggedEmulate(a)
       \/ HostAnswer(a) /\ UNCHANGED logvars
       \/ Return(a) /\ UNCHANGED logvars

LoggedNext ==
    \/ \E t \in Thread, c \in Call : BeginCall(t, c) /\ UNCHANGED logvars
    \/ \E t \in Thread : SetCerror(t) /\ UNCHANGED logvars
    \/ \E a \in Act : LoggedStep(a)
    \/ Drain

LoggedSpec == LoggedInit /\ [][LoggedNext]_allvars

\* A thread that can run the emulator's code eventually does.  Nothing is assumed of the host
\* kernel, of the program and its handlers, of the lock's order and of the log's reader.
FairSpec == LoggedSpec /\ \A a \in Act : WF_allvars(Top(a) /\ LoggedEmulate(a))

-----------------------------------------------------------------------------
InEmulator(a) == pc[a] \notin {"idle", "host", "returned"}

\* Call b of a signal handler runs on top of call a.
Interrupts(b, a) == b[1] = a[1] /\ b[2] > a[2]

\* A handler's call stays in the host, or the handler does not come back from it, on top of a
\* itself or on top of a call that owns the lock.
HeldUp(a) ==
    \E b \in Act :
        <>[](pc[b] \in {"host", "returned"} /\ \E c \in {a} \cup printing : Interrupts(b, c))

\* Others keep taking the lock: other threads, or handlers without end on top of a.
Overtaken(a) == []<><<\E b \in Act \ {a} : TakeLock(b)>>_allvars

\* A call comes to the host kernel or back to the program, whatever the calls of other
\* threads do there: it may stay in the host for ever itself, but it never holds up anyone
\* from there.  The log makes three exceptions, which are the only ones: its lock may always
\* go to somebody else, its owner may be stopped by a signal handler, and the file may be full
\* for good.
CallsGetThrough ==
    \A a \in Act :
        \/ InEmulator(a) ~> ~InEmulator(a)
        \/ Overtaken(a)
        \/ HeldUp(a)
        \/ <>[]full
=============================================================================
