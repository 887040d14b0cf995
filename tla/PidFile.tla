------------------------------ MODULE PidFile ------------------------------
(***************************************************************************)
(* The PID file of src/lib/pidfile.c and the processes of a host that use  *)
(* it.  read_pid and check_pid are operators on the file and the process   *)
(* table; write_pid is the four steps between which another process can   *)
(* run: open, flock, fprintf with fflush, and unlock with close.           *)
(*                                                                         *)
(* The file is a name and the inode it leads to: a process that has the    *)
(* file open keeps its inode when another removes the name.  A process     *)
(* number that is free can be given to any new process.                    *)
(*                                                                         *)
(* A daemon calls check_pid and then write_pid when it starts, and         *)
(* remove_pid when it ends.                                                *)
(***************************************************************************)
EXTENDS Integers, FiniteSets

CONSTANTS
    Pids,           \* the process numbers of the host
    Inodes          \* the inodes the file can have

NoPid  == 0
NoFile == 0

ASSUME /\ Pids \subseteq Nat \ {NoPid}
       /\ Inodes \subseteq Nat \ {NoFile}

VARIABLES
    role,           \* per pid: free, a daemon, or another process
    pc,             \* per pid: where a daemon is
    path,           \* the inode the name of the PID file leads to
    content,        \* per inode: the number at its beginning
    fd,             \* per pid: the inode write_pid has open
    lock,           \* per inode: the process that holds its lock
    overlapped      \* the starts and ends of two daemons have overlapped

pidvars == <<role, pc, path, content, fd, lock, overlapped>>

\* Between check_pid and the return of write_pid.
Starting == {"checked", "opened", "locked", "written"}

-----------------------------------------------------------------------------
\* No file, an empty one, or one without a number: 0.
read_pid == IF path = NoFile THEN NoPid ELSE content[path]

\* kill (pid, 0) fails with ESRCH.
NoSuchProcess(pid) == role[pid] = "free"

\* Fault: the result of kill read the wrong way round.
check_pid_Inverted(self) ==
    LET pid == read_pid
    IN  IF pid = NoPid \/ pid = self THEN NoPid
        ELSE IF ~NoSuchProcess(pid) THEN NoPid
        ELSE pid

\* 0 when the file names nobody, the caller, or a process that is gone.
check_pid(self) ==
    LET pid == read_pid
    IN  IF pid = NoPid \/ pid = self THEN NoPid
        ELSE IF NoSuchProcess(pid) THEN NoPid
        ELSE pid

-----------------------------------------------------------------------------
\* A process ends: its number is free, and what it has open is closed and
\* unlocked.
Ended(self) ==
    /\ role' = [role EXCEPT ![self] = "free"]
    /\ pc' = [pc EXCEPT ![self] = "none"]
    /\ fd' = [fd EXCEPT ![self] = NoFile]
    /\ lock' = [i \in Inodes |-> IF lock[i] = self THEN NoPid ELSE lock[i]]

\* Another daemon is between its check_pid and the end of its write_pid.
Overlaps(self) == \E other \in Pids \ {self} : pc[other] \in Starting

Spawn(self, as) ==
    /\ role[self] = "free"
    /\ role' = [role EXCEPT ![self] = as]
    /\ pc' = [pc EXCEPT ![self] = IF as = "daemon" THEN "start" ELSE "none"]
    /\ UNCHANGED <<path, content, fd, lock, overlapped>>

\* A daemon that finds another one leaves.
Check(self) ==
    /\ pc[self] = "start"
    /\ overlapped' = (overlapped \/ Overlaps(self))
    /\ IF check_pid(self) = NoPid
       THEN /\ pc' = [pc EXCEPT ![self] = "checked"]
            /\ UNCHANGED <<role, fd, lock>>
       ELSE Ended(self)
    /\ UNCHANGED <<path, content>>

\* open with O_CREAT and without O_TRUNC: what the file holds stays.
Open(self) ==
    /\ pc[self] = "checked"
    /\ \/ /\ path # NoFile
          /\ fd' = [fd EXCEPT ![self] = path]
          /\ UNCHANGED <<path, content>>
       \/ /\ path = NoFile
          /\ \E i \in Inodes :
                /\ \A p \in Pids : fd[p] # i
                /\ path' = i
                /\ content' = [content EXCEPT ![i] = NoPid]
                /\ fd' = [fd EXCEPT ![self] = i]
    /\ pc' = [pc EXCEPT ![self] = "opened"]
    /\ UNCHANGED <<role, lock, overlapped>>

\* The file cannot be opened or created: write_pid returns 0.
OpenFails(self) ==
    /\ pc[self] = "checked"
    /\ Ended(self)
    /\ UNCHANGED <<path, content, overlapped>>

\* flock without waiting: a process that finds the lock held reads who
\* holds it and returns 0.
Lock(self) ==
    /\ pc[self] = "opened"
    /\ IF lock[fd[self]] = NoPid
       THEN /\ lock' = [lock EXCEPT ![fd[self]] = self]
            /\ pc' = [pc EXCEPT ![self] = "locked"]
            /\ UNCHANGED <<role, fd>>
       ELSE Ended(self)
    /\ UNCHANGED <<path, content, overlapped>>

\* The number goes to the beginning of the file, ended by a new line.
Write(self) ==
    /\ pc[self] = "locked"
    /\ content' = [content EXCEPT ![fd[self]] = self]
    /\ pc' = [pc EXCEPT ![self] = "written"]
    /\ UNCHANGED <<role, path, fd, lock, overlapped>>

\* Fault: the file is closed by a process that goes on holding the lock.
Unlock_Held(self) ==
    /\ pc[self] = "written"
    /\ pc' = [pc EXCEPT ![self] = "running"]
    /\ fd' = [fd EXCEPT ![self] = NoFile]
    /\ UNCHANGED <<role, path, content, lock, overlapped>>

\* Unlock and close: write_pid returns the pid and the daemon runs.  When
\* the lock cannot be given back the file is closed, which gives it back,
\* and write_pid returns 0.
Unlock(self) ==
    /\ pc[self] = "written"
    /\ \/ /\ pc' = [pc EXCEPT ![self] = "running"]
          /\ fd' = [fd EXCEPT ![self] = NoFile]
          /\ lock' = [lock EXCEPT ![fd[self]] = NoPid]
          /\ UNCHANGED role
       \/ Ended(self)
    /\ UNCHANGED <<path, content, overlapped>>

\* unlink, as the daemon ends.
remove_pid(self) ==
    /\ pc[self] = "running"
    /\ overlapped' = (overlapped \/ Overlaps(self))
    /\ path' = NoFile
    /\ Ended(self)
    /\ UNCHANGED content

\* A process is killed, or one that is no daemon ends.
Dies(self) ==
    /\ role[self] # "free"
    /\ Ended(self)
    /\ UNCHANGED <<path, content, overlapped>>

-----------------------------------------------------------------------------
PidInit ==
    /\ role = [p \in Pids |-> "free"]
    /\ pc = [p \in Pids |-> "none"]
    /\ path = NoFile
    /\ content = [i \in Inodes |-> NoPid]
    /\ fd = [p \in Pids |-> NoFile]
    /\ lock = [i \in Inodes |-> NoPid]
    /\ overlapped = FALSE

PidNext ==
    \E self \in Pids :
        \/ \E as \in {"daemon", "other"} : Spawn(self, as)
        \/ Check(self)
        \/ Open(self)
        \/ OpenFails(self)
        \/ Lock(self)
        \/ Write(self)
        \/ Unlock(self)
        \/ remove_pid(self)
        \/ Dies(self)

PidSpec == PidInit /\ [][PidNext]_pidvars

-----------------------------------------------------------------------------
PidTypeOK ==
    /\ role \in [Pids -> {"free", "daemon", "other"}]
    /\ pc \in [Pids -> {"none", "start", "running"} \cup Starting]
    /\ path \in Inodes \cup {NoFile}
    /\ content \in [Inodes -> Pids \cup {NoPid}]
    /\ fd \in [Pids -> Inodes \cup {NoFile}]
    /\ lock \in [Inodes -> Pids \cup {NoPid}]
    /\ overlapped \in BOOLEAN
    /\ \A p \in Pids :
          /\ pc[p] # "none" => role[p] = "daemon"
          /\ fd[p] # NoFile <=> pc[p] \in {"opened", "locked", "written"}
    /\ \A i \in Inodes :
          lock[i] # NoPid => fd[lock[i]] = i /\ pc[lock[i]] \in {"locked", "written"}

\* Two daemons run at the same time only if a start has overlapped with
\* another start or with an end: a daemon that starts while another runs
\* finds the number of that one in the file and leaves, whatever has
\* happened before - daemons killed with their file left behind, the number
\* in it given to another process or to the daemon that starts, locks
\* refused (check_pid with the test of kill, write_pid, remove_pid).
Exclusive ==
    ~overlapped => Cardinality({p \in Pids : pc[p] = "running"}) <= 1

=============================================================================
