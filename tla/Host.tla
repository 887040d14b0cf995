-------------------------------- MODULE Host --------------------------------
(***************************************************************************)
(* What runs on a host beside the transport: the daemons with their PID    *)
(* file, the invocations of gvpectrl on the key files, and a process that  *)
(* detaches itself with daemon.  The three share the host and no state:    *)
(* kill_other, through which gvpectrl reads the PID file, and the daemon   *)
(* that calls daemon and write_pid are not among the sources.  One moves   *)
(* while the others are where they began, which leaves out no behaviour of *)
(* any of them and spares TLC their product.                               *)
(***************************************************************************)
EXTENDS PidFile, Gvpectrl, Dropin

vars == <<pidvars, ctlvars, detvars>>

Init == PidInit /\ CtlInit /\ DetInit

\* A step of the daemons, with the others where they began.
Daemon(step) == CtlInit /\ DetInit /\ step /\ UNCHANGED <<ctlvars, detvars>>

\* A step of gvpectrl.
Tool(step) == PidInit /\ DetInit /\ step /\ UNCHANGED <<pidvars, detvars>>

\* A step of the process that detaches itself.
Detach(step) ==
    PidInit /\ CtlInit /\ ret = NoCall /\ step /\ UNCHANGED <<pidvars, ctlvars>>

\* A call of asprintf or of get_current_dir_name.
Library(step) ==
    PidInit /\ CtlInit /\ det = NotCalled /\ step /\ UNCHANGED <<pidvars, ctlvars>>

Next ==
    \/ \E self \in Pids :
          \/ \E as \in {"daemon", "other"} : Daemon(Spawn(self, as))
          \/ Daemon(Check(self))
          \/ Daemon(Open(self))
          \/ Daemon(OpenFails(self))
          \/ Daemon(Lock(self))
          \/ Daemon(Write(self))
          \/ Daemon(Unlock(self))
          \/ Daemon(remove_pid(self))
          \/ Daemon(Dies(self))
    \/ \E t \in Tools :
          \/ \E argv \in Argvs : Tool(Invoke(t, argv))
          \/ Tool(OpenPub(t))
          \/ Tool(WritePub(t))
          \/ Tool(WritePriv(t))
          \/ Tool(Aborts(t))
    \/ \E nochdir, noclose \in BOOLEAN, fds \in Inherited :
          Detach(Call(nochdir, noclose, fds))
    \/ Detach(Fork)
    \/ Detach(ParentExits)
    \/ Detach(Setsid)
    \/ Detach(Redirect)
    \/ \E text \in Texts, failed \in BOOLEAN : Library(Calls(text, failed))
    \/ \E cwd \in Dirs, readable \in BOOLEAN : Library(Asks(cwd, readable))

Spec == Init /\ [][Next]_vars

TypeOK == PidTypeOK /\ CtlTypeOK /\ DetTypeOK

=============================================================================
