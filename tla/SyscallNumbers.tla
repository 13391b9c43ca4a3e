--------------------------- MODULE SyscallNumbers ---------------------------
(***************************************************************************)
(* The numbers of the two systems: those of XNU, which a program and its   *)
(* stubs use (sys/syscall.h), and those of Linux on x86-64, which bsd/impl *)
(* uses (linux-syscalls/linux-x86_64.h).  Each section lists the names of  *)
(* consecutive numbers; "" stands for a number without a name.             *)
(***************************************************************************)
EXTENDS Integers, Sequences, TLC

\* #define names[i] first + i - 1
Numbered(first, names) ==
    [f \in {names[i] : i \in DOMAIN names} \ {""} |->
        first - 1 + CHOOSE i \in DOMAIN names : names[i] = f]

SYS_0 == Numbered(0, <<
    "syscall", "exit", "fork", "read", "write", "open", "close", "wait4", "", "link", "unlink", "",
    "chdir", "fchdir", "mknod", "chmod", "chown", "", "getfsstat", "", "getpid", "", "", "setuid",
    "getuid", "geteuid", "ptrace", "recvmsg", "sendmsg", "recvfrom", "accept", "getpeername",
    "getsockname", "access", "chflags", "fchflags", "sync", "kill", "", "getppid", "", "dup",
    "pipe", "getegid", "", "", "sigaction", "getgid", "sigprocmask", "getlogin", "setlogin",
    "acct", "sigpending", "sigaltstack", "ioctl", "reboot", "revoke", "symlink", "readlink",
    "execve", "umask", "chroot", "", "", "", "msync", "vfork", "", "", "", "", "", "", "munmap",
    "mprotect", "madvise", "", "", "mincore", "getgroups", "setgroups", "getpgrp", "setpgid",
    "setitimer", "", "swapon", "getitimer", "", "", "getdtablesize", "dup2", "", "fcntl", "select",
    "", "fsync", "setpriority", "socket", "connect", "", "getpriority", "", "", "", "bind",
    "setsockopt", "listen", "", "", "", "", "sigsuspend", "", "", "", "", "gettimeofday",
    "getrusage", "getsockopt", "", "readv", "writev", "settimeofday", "fchown", "fchmod", "",
    "setreuid" >>)

SYS_127 == Numbered(127, <<
    "setregid", "rename", "", "", "flock", "mkfifo", "sendto", "shutdown", "socketpair", "mkdir",
    "rmdir", "utimes", "futimes", "adjtime", "", "gethostuuid", "", "", "", "", "setsid", "", "",
    "", "getpgid", "setprivexec", "pread", "pwrite", "nfssvc", "", "statfs", "fstatfs", "unmount",
    "", "getfh", "", "", "", "quotactl", "", "mount", "", "csops", "csops_audittoken", "", "",
    "waitid", "", "", "", "kdebug_typefilter", "kdebug_trace_string", "kdebug_trace64",
    "kdebug_trace", "setgid", "setegid", "seteuid", "sigreturn", "", "thread_selfcounts",
    "fdatasync", "stat", "fstat", "lstat", "pathconf", "fpathconf", "", "getrlimit", "setrlimit",
    "getdirentries", "mmap", "", "lseek", "truncate", "ftruncate", "sysctl", "mlock", "munlock",
    "undelete", "", "", "", "", "", "", "", "", "", "", "open_dprotected_np", "fsgetpath_ext", "",
    "", "getattrlist", "setattrlist", "getdirentriesattr", "exchangedata", "", "searchfs",
    "delete", "copyfile", "fgetattrlist", "fsetattrlist", "poll", "", "", "", "getxattr",
    "fgetxattr", "setxattr", "fsetxattr", "removexattr", "fremovexattr", "listxattr", "flistxattr",
    "fsctl", "initgroups", "posix_spawn", "ffsctl", "" >>)

SYS_247 == Numbered(247, <<
    "nfsclnt", "fhopen", "", "minherit", "semsys", "msgsys", "shmsys", "semctl", "semget", "semop",
    "", "msgctl", "msgget", "msgsnd", "msgrcv", "shmat", "shmctl", "shmdt", "shmget", "shm_open",
    "shm_unlink", "sem_open", "sem_close", "sem_unlink", "sem_wait", "sem_trywait", "sem_post",
    "sysctlbyname", "", "", "open_extended", "umask_extended", "stat_extended", "lstat_extended",
    "fstat_extended", "chmod_extended", "fchmod_extended", "access_extended", "settid", "gettid",
    "setsgroups", "getsgroups", "setwgroups", "getwgroups", "mkfifo_extended", "mkdir_extended",
    "identitysvc", "shared_region_check_np", "", "vm_pressure_monitor", "psynch_rw_longrdlock",
    "psynch_rw_yieldwrlock", "psynch_rw_downgrade", "psynch_rw_upgrade", "psynch_mutexwait",
    "psynch_mutexdrop", "psynch_cvbroad", "psynch_cvsignal", "psynch_cvwait", "psynch_rw_rdlock",
    "psynch_rw_wrlock", "psynch_rw_unlock", "psynch_rw_unlock2", "getsid", "settid_with_pid",
    "psynch_cvclrprepost", "aio_fsync", "aio_return", "aio_suspend", "aio_cancel", "aio_error",
    "aio_read", "aio_write", "lio_listio", "", "iopolicysys", "process_policy", "mlockall",
    "munlockall", "", "issetugid", "__pthread_kill", "__pthread_sigmask", "__sigwait",
    "__disable_threadsignal", "__pthread_markcancel", "__pthread_canceled", "__semwait_signal", "",
    "proc_info", "sendfile", "stat64", "fstat64", "lstat64", "stat64_extended", "lstat64_extended",
    "fstat64_extended", "getdirentries64", "statfs64", "fstatfs64", "getfsstat64",
    "__pthread_chdir", "__pthread_fchdir", "audit", "auditon", "", "getauid", "setauid", "", "",
    "getaudit_addr", "setaudit_addr", "auditctl", "bsdthread_create", "bsdthread_terminate",
    "kqueue", "kevent", "lchown", "" >>)

SYS_366 == Numbered(366, <<
    "bsdthread_register", "workq_open", "workq_kernreturn", "kevent64", "__old_semwait_signal",
    "__old_semwait_signal_nocancel", "thread_selfid", "ledger", "kevent_qos", "kevent_id", "", "",
    "", "", "__mac_execve", "__mac_syscall", "__mac_get_file", "__mac_set_file", "__mac_get_link",
    "__mac_set_link", "__mac_get_proc", "__mac_set_proc", "__mac_get_fd", "__mac_set_fd",
    "__mac_get_pid", "", "", "", "pselect", "pselect_nocancel", "read_nocancel", "write_nocancel",
    "open_nocancel", "close_nocancel", "wait4_nocancel", "recvmsg_nocancel", "sendmsg_nocancel",
    "recvfrom_nocancel", "accept_nocancel", "msync_nocancel", "fcntl_nocancel", "select_nocancel",
    "fsync_nocancel", "connect_nocancel", "sigsuspend_nocancel", "readv_nocancel",
    "writev_nocancel", "sendto_nocancel", "pread_nocancel", "pwrite_nocancel", "waitid_nocancel",
    "poll_nocancel", "msgsnd_nocancel", "msgrcv_nocancel", "sem_wait_nocancel",
    "aio_suspend_nocancel", "__sigwait_nocancel", "__semwait_signal_nocancel", "__mac_mount",
    "__mac_get_mount", "__mac_getfsstat", "fsgetpath", "audit_session_self", "audit_session_join",
    "fileport_makeport", "fileport_makefd", "audit_session_port", "pid_suspend", "pid_resume",
    "pid_hibernate", "pid_shutdown_sockets", "", "shared_region_map_and_slide_np", "kas_info",
    "memorystatus_control", "guarded_open_np", "guarded_close_np", "guarded_kqueue_np",
    "change_fdguard_np", "usrctl", "proc_rlimit_control", "connectx", "disconnectx", "peeloff",
    "socket_delegate", "telemetry", "proc_uuid_policy", "memorystatus_get_level",
    "system_override", "vfs_purge", "sfi_ctl", "sfi_pidctl", "coalition", "coalition_info",
    "necp_match_policy", "getattrlistbulk", "clonefileat", "openat", "openat_nocancel", "renameat",
    "faccessat", "fchmodat", "fchownat", "fstatat", "fstatat64", "linkat", "unlinkat",
    "readlinkat", "symlinkat", "mkdirat", "getattrlistat", "proc_trace_log", "bsdthread_ctl",
    "openbyid_np", "recvmsg_x", "sendmsg_x", "thread_selfusage", "csrctl",
    "guarded_open_dprotected_np", "guarded_write_np", "guarded_pwrite_np", "guarded_writev_np",
    "renameatx_np", "mremap_encrypted", "netagent_trigger", "stack_snapshot_with_config",
    "microstackshot", "grab_pgo_data", "persona", "", "mach_eventlink_signal",
    "mach_eventlink_wait_until", "mach_eventlink_signal_wait_until", "work_interval_ctl",
    "getentropy", "necp_open", "necp_client_action" >>)

SYS_515 == Numbered(515, <<
    "ulock_wait", "ulock_wake", "fclonefileat", "fs_snapshot", "", "terminate_with_payload",
    "abort_with_payload", "necp_session_open", "necp_session_action", "setattrlistat",
    "net_qos_guideline", "fmount", "ntp_adjtime", "ntp_gettime", "os_fault_with_payload",
    "kqueue_workloop_ctl", "__mach_bridge_remote_time", "coalition_ledger", "log_data",
    "memorystatus_available_memory", "", "shared_region_map_and_slide_2_np", "pivot_root",
    "task_inspect_for_pid", "task_read_for_pid", "preadv", "pwritev", "preadv_nocancel",
    "pwritev_nocancel", "ulock_wait2", "proc_info_extended_id" >>)

\* SYS_xxx of each name; 503 to 514 have none.
XnuNumber == SYS_0 @@ SYS_127 @@ SYS_247 @@ SYS_366 @@ SYS_515

XNU_MAXSYSCALL == 546

-----------------------------------------------------------------------------
NR_0 == Numbered(0, <<
    "read", "write", "open", "close", "stat", "fstat", "lstat", "poll", "lseek", "mmap",
    "mprotect", "munmap", "brk", "rt_sigaction", "rt_sigprocmask", "rt_sigreturn", "ioctl",
    "pread64", "pwrite64", "readv", "writev", "access", "pipe", "select", "sched_yield", "mremap",
    "msync", "mincore", "madvise", "shmget", "shmat", "shmctl", "dup", "dup2", "pause",
    "nanosleep", "getitimer", "alarm", "setitimer", "getpid", "sendfile", "socket", "connect",
    "accept", "sendto", "recvfrom", "sendmsg", "recvmsg", "shutdown", "bind", "listen",
    "getsockname", "getpeername", "socketpair", "setsockopt", "getsockopt", "clone", "fork",
    "vfork", "execve", "exit", "wait4", "kill", "uname", "semget", "semop", "semctl", "shmdt",
    "msgget", "msgsnd", "msgrcv", "msgctl", "fcntl", "flock", "fsync", "fdatasync", "truncate",
    "ftruncate", "getdents", "getcwd", "chdir", "fchdir", "rename", "mkdir", "rmdir", "creat",
    "link", "unlink", "symlink", "readlink", "chmod", "fchmod", "chown", "fchown", "lchown",
    "umask", "gettimeofday", "getrlimit", "getrusage", "sysinfo", "times", "ptrace", "getuid",
    "syslog", "getgid", "setuid", "setgid", "geteuid", "getegid", "setpgid" >>)

NR_110 == Numbered(110, <<
    "getppid", "getpgrp", "setsid", "setreuid", "setregid", "getgroups", "setgroups", "setresuid",
    "getresuid", "setresgid", "getresgid", "getpgid", "setfsuid", "setfsgid", "getsid", "capget",
    "capset", "rt_sigpending", "rt_sigtimedwait", "rt_sigqueueinfo", "rt_sigsuspend",
    "sigaltstack", "utime", "mknod", "uselib", "personality", "ustat", "statfs", "fstatfs",
    "sysfs", "getpriority", "setpriority", "sched_setparam", "sched_getparam",
    "sched_setscheduler", "sched_getscheduler", "sched_get_priority_max", "sched_get_priority_min",
    "sched_rr_get_interval", "mlock", "munlock", "mlockall", "munlockall", "vhangup", "modify_ldt",
    "pivot_root", "_sysctl", "prctl", "arch_prctl", "adjtimex", "setrlimit", "chroot", "sync",
    "acct", "settimeofday", "mount", "umount2", "swapon", "swapoff", "reboot", "sethostname",
    "setdomainname", "iopl", "ioperm", "create_module", "init_module", "delete_module",
    "get_kernel_syms", "query_module", "quotactl", "nfsservctl", "getpmsg", "putpmsg",
    "afs_syscall", "tuxcall", "security", "gettid", "readahead", "setxattr", "lsetxattr",
    "fsetxattr", "getxattr", "lgetxattr", "fgetxattr", "listxattr", "llistxattr", "flistxattr",
    "removexattr", "lremovexattr", "fremovexattr", "tkill", "time", "futex", "sched_setaffinity",
    "sched_getaffinity", "set_thread_area", "io_setup", "io_destroy", "io_getevents", "io_submit",
    "io_cancel", "get_thread_area", "lookup_dcookie", "epoll_create", "epoll_ctl_old",
    "epoll_wait_old", "remap_file_pages", "getdents64", "set_tid_address", "restart_syscall" >>)

NR_220 == Numbered(220, <<
    "semtimedop", "fadvise64", "timer_create", "timer_settime", "timer_gettime",
    "timer_getoverrun", "timer_delete", "clock_settime", "clock_gettime", "clock_getres",
    "clock_nanosleep", "exit_group", "epoll_wait", "epoll_ctl", "tgkill", "utimes", "vserver",
    "mbind", "set_mempolicy", "get_mempolicy", "mq_open", "mq_unlink", "mq_timedsend",
    "mq_timedreceive", "mq_notify", "mq_getsetattr", "kexec_load", "waitid", "add_key",
    "request_key", "keyctl", "ioprio_set", "ioprio_get", "inotify_init", "inotify_add_watch",
    "inotify_rm_watch", "migrate_pages", "openat", "mkdirat", "mknodat", "fchownat", "futimesat",
    "newfstatat", "unlinkat", "renameat", "linkat", "symlinkat", "readlinkat", "fchmodat",
    "faccessat", "pselect6", "ppoll", "unshare", "set_robust_list", "get_robust_list", "splice",
    "tee", "sync_file_range", "vmsplice", "move_pages", "utimensat", "epoll_pwait", "signalfd",
    "timerfd_create", "eventfd", "fallocate", "timerfd_settime", "timerfd_gettime", "accept4",
    "signalfd4", "eventfd2", "epoll_create1", "dup3", "pipe2", "inotify_init1", "preadv",
    "pwritev", "rt_tgsigqueueinfo", "perf_event_open", "recvmmsg", "fanotify_init",
    "fanotify_mark", "prlimit64", "name_to_handle_at", "open_by_handle_at", "clock_adjtime",
    "syncfs", "sendmmsg", "setns", "getcpu", "process_vm_readv", "process_vm_writev", "kcmp",
    "finit_module", "sched_setattr", "sched_getattr", "renameat2", "seccomp", "getrandom",
    "memfd_create", "kexec_file_load", "bpf", "execveat", "userfaultfd", "membarrier", "mlock2",
    "copy_file_range", "preadv2", "pwritev2", "pkey_mprotect", "pkey_alloc", "pkey_free", "statx",
    "io_pgetevents", "rseq" >>)

NR_424 == Numbered(424, <<
    "pidfd_send_signal", "io_uring_setup", "io_uring_enter", "io_uring_register", "open_tree",
    "move_mount", "fsopen", "fsconfig", "fsmount", "fspick", "pidfd_open", "clone3", "", "openat2",
    "pidfd_getfd" >>)

\* __NR_xxx of each name; 335 to 423 have none.
X86_64Number == NR_0 @@ NR_110 @@ NR_220 @@ NR_424
=============================================================================
