-------------------------- MODULE SyscallContract --------------------------
(***************************************************************************)
(* What the emulator promises of each system call of a program, whatever   *)
(* code it runs to keep it: a call asks the host kernel at most once, and  *)
(* for what it demands; it comes back once, after the host's answer to it, *)
(* with an outcome that fits the call and the answer; and errno changes    *)
(* only together with the return of a call, or when the program resets it. *)
(***************************************************************************)
CONSTANTS
    Activation,         \* the calls that may be in progress
    Thread,             \* the threads, each with an errno
    ThreadOf(_),        \* the thread an activation belongs to
    NeedsHost(_),       \* whether a call is one the host kernel carries out
    Demands(_, _),      \* Demands(c, q): call c demands q of the host kernel
    Outcome(_, _, _),   \* Outcome(c, k, r): result r fits call c and answer k
    ErrnoAfter(_, _, _, _),  \* ErrnoAfter(c, k, e, f): errno may go from e to f
    NoCall, NoQuestion, NoReply, NoResult

VARIABLES
    act,    \* act[a]: the call, how far it is, and what has been exchanged about it
    errno   \* errno[t]

Phase == {"idle", "begun", "asked", "answered", "done"}

\* An activation at phase p of call c, with question q and reply k, and result r for the program.
At(p, c, q, k, r) == [phase |-> p, call |-> c, asked |-> q, reply |-> k, result |-> r]

Idle == At("idle", NoCall, NoQuestion, NoReply, NoResult)

Init ==
    /\ act = [a \in Activation |-> Idle]
    /\ errno = [t \in Thread |-> 0]

-----------------------------------------------------------------------------
\* Nothing is said of the calls other than a, and of threads other than a's.
OthersKept(a) == \A b \in Activation \ {a} : act'[b] = act[b]
OtherErrnosKept(t) == \A u \in Thread \ {t} : errno'[u] = errno[u]

\* The program makes a call.
Begin(a) ==
    /\ act[a].phase = "idle"
    /\ act'[a] = At("begun", act'[a].call, NoQuestion, NoReply, NoResult)
    /\ OthersKept(a)
    /\ UNCHANGED errno

\* The host kernel is asked, for the first and only time.
Ask(a) ==
    /\ act[a].phase = "begun"
    /\ NeedsHost(act[a].call)
    /\ act'[a] = At("asked", act[a].call, act'[a].asked, act[a].reply, act[a].result)
    /\ Demands(act[a].call, act'[a].asked)
    /\ OthersKept(a)
    /\ UNCHANGED errno

\* The host kernel answers.
Answer(a) ==
    /\ act[a].phase = "asked"
    /\ act'[a] = At("answered", act[a].call, act[a].asked, act'[a].reply, act[a].result)
    /\ OthersKept(a)
    /\ UNCHANGED errno

\* The call returns: at once if the host kernel is not needed, or after its answer.
Complete(a) ==
    LET t == ThreadOf(a)
    IN  /\ act[a].phase = IF NeedsHost(act[a].call) THEN "answered" ELSE "begun"
        /\ act'[a] = At("done", act[a].call, act[a].asked, act[a].reply, act'[a].result)
        /\ Outcome(act[a].call, act[a].reply, act'[a].result)
        /\ ErrnoAfter(act[a].call, act[a].reply, errno[t], errno'[t])
        /\ OthersKept(a)
        /\ OtherErrnosKept(t)

\* The program takes the result and goes on.
Leave(a) ==
    /\ act[a].phase = "done"
    /\ act'[a] = Idle
    /\ OthersKept(a)
    /\ UNCHANGED errno

\* The program sets errno to 0.
Reset(t) ==
    /\ errno'[t] = 0
    /\ OtherErrnosKept(t)
    /\ UNCHANGED act

Next ==
    \/ \E a \in Activation : Begin(a) \/ Ask(a) \/ Answer(a) \/ Complete(a) \/ Leave(a)
    \/ \E t \in Thread : Reset(t)

Spec == Init /\ [][Next]_<<act, errno>>
=============================================================================
