------------------------------- MODULE Dropin -------------------------------
(***************************************************************************)
(* The replacements of src/lib/dropin.c for hosts whose library lacks      *)
(* them: asprintf and get_current_dir_name as operators on blocks of       *)
(* memory, each call a step that leaves its result; daemon as the steps of *)
(* the process that calls it and of the child it forks.                    *)
(*                                                                         *)
(* A block is the sequence of its bytes: its length is what was allocated, *)
(* and a byte nobody has written is Uninitialised.  A text is a sequence   *)
(* of bytes other than NUL.                                                *)
(***************************************************************************)
EXTENDS Integers, Sequences, SequencesExt

NUL == 0

CONSTANTS
    ASPRINTF_LEN,   \* the size asprintf begins with (4096)
    GETCWD_SIZE,    \* the size get_current_dir_name begins with (100)
    Uninitialised,  \* what a byte holds that nobody has written
    Texts,          \* what asprintf is asked to print
    Dirs            \* the names the working directory can have

ASSUME /\ ASPRINTF_LEN \in Nat \ {0} /\ GETCWD_SIZE \in Nat \ {0}
       /\ \A text \in Texts \cup Dirs : NUL \notin Range(text)

VARIABLES
    det,            \* the process that calls daemon, and the child it forks
    ret             \* the last call of one of the other two, and its result

detvars == <<det, ret>>

-----------------------------------------------------------------------------
(* The library underneath *)

malloc(size) == [i \in 1 .. size |-> Uninitialised]

\* The block moves to a new size and keeps the bytes that fit.
realloc(buf, size) ==
    [i \in 1 .. size |-> IF i <= Len(buf) THEN buf[i] ELSE Uninitialised]

\* As much of the text as size - 1 bytes hold, and a NUL behind it.
Stored(buf, size, text) ==
    LET n == Min({Len(text), size - 1})
    IN  [i \in 1 .. Len(buf) |->
            CASE i <= n -> text[i] [] i = n + 1 -> NUL [] OTHER -> buf[i]]

\* A block holds a string when a NUL ends it; a reader of one that none
\* ends runs on into what lies behind the block.
Terminated(buf) == NUL \in Range(buf)
CString(buf) == SubSeq(buf, 1, SelectInSeq(buf, LAMBDA b : b = NUL) - 1)

-----------------------------------------------------------------------------
(* asprintf *)

\* The text is printed into len bytes and the block cut to the status
\* vsnprintf returns, the length of the text; a text that did not fit is
\* printed again, into as many bytes.
asprintf(text, failed) ==
    LET len    == ASPRINTF_LEN
        status == IF failed THEN -1 ELSE Len(text)
        first  == IF failed THEN malloc(len) ELSE Stored(malloc(len), len, text)
        fitted == IF status >= 0 THEN realloc(first, status) ELSE first
    IN  [status |-> status,
         buf    |-> IF status > len - 1 THEN Stored(fitted, status, text)
                    ELSE fitted]

-----------------------------------------------------------------------------
(* get_current_dir_name *)

\* getcwd fails with ERANGE unless the directory and its NUL fit.
Fits(cwd, size) == Len(cwd) + 1 <= size

\* Fault: the block returned after the first getcwd, whatever it said.
get_current_dir_name_Once(cwd, readable) ==
    IF readable /\ Fits(cwd, GETCWD_SIZE)
    THEN Stored(malloc(GETCWD_SIZE), GETCWD_SIZE, cwd)
    ELSE malloc(GETCWD_SIZE)

\* The loop: a block of twice the size for as long as getcwd says ERANGE.
RECURSIVE Doubled(_, _)
Doubled(cwd, size) ==
    IF Fits(cwd, size) THEN Stored(malloc(size), size, cwd)
    ELSE Doubled(cwd, 2 * size)

\* The block is returned whatever getcwd has said last: one nobody has
\* written when the directory cannot be read.
get_current_dir_name(cwd, readable) ==
    IF readable THEN Doubled(cwd, GETCWD_SIZE) ELSE malloc(GETCWD_SIZE)

\* A call of either, with what it was given and what it has returned.
Calls(text, failed) ==
    /\ ret' = [of |-> "asprintf", arg |-> text, ok |-> ~failed,
               status |-> asprintf(text, failed).status,
               buf |-> asprintf(text, failed).buf]
    /\ UNCHANGED det

Asks(cwd, readable) ==
    /\ ret' = [of |-> "get_current_dir_name", arg |-> cwd, ok |-> readable,
               status |-> 0, buf |-> get_current_dir_name(cwd, readable)]
    /\ UNCHANGED det

-----------------------------------------------------------------------------
(* daemon *)

Standard == 0 .. 2

\* What open returns: the lowest descriptor that is free.
Lowest(fds) ==
    CHOOSE d \in DOMAIN fds : fds[d] = "closed" /\ \A e \in 0 .. d - 1 : fds[e] # "closed"

NotCalled ==
    [pc |-> "idle", parent |-> "none", leader |-> FALSE, cwd |-> "start",
     fds |-> [d \in 0 .. 3 |-> "closed"], nochdir |-> FALSE, noclose |-> FALSE]

\* A process with its terminal, or with some of the three closed, calls.
Call(nochdir, noclose, fds) ==
    /\ det.pc = "idle"
    /\ det' = [det EXCEPT !.pc = "fork", !.nochdir = nochdir,
                          !.noclose = noclose, !.fds = fds]
    /\ UNCHANGED ret

\* fork: no child and exit (-1), or a child that goes on while the parent
\* is about to leave.
Fork ==
    /\ det.pc = "fork"
    /\ \/ det' = [det EXCEPT !.pc = "exit-1"]
       \/ det' = [det EXCEPT !.pc = "setsid", !.parent = "forked"]
    /\ UNCHANGED ret

\* The parent ends with 0, wherever the child is.
ParentExits ==
    /\ det.parent = "forked"
    /\ det' = [det EXCEPT !.parent = "exit0"]
    /\ UNCHANGED ret

\* setsid: the child leads a session of its own, or daemon returns -1.
Setsid ==
    /\ det.pc = "setsid"
    /\ \/ det' = [det EXCEPT !.pc = "redirect", !.leader = TRUE]
       \/ det' = [det EXCEPT !.pc = "return-1"]
    /\ UNCHANGED ret

\* Fault: /dev/null taken to be descriptor 3.
Redirect_Descriptor3 ==
    LET moved == IF det.nochdir THEN det ELSE [det EXCEPT !.cwd = "/"]
        fd    == 3
        null  == [moved.fds EXCEPT ![Lowest(moved.fds)] = "null"]
    IN  /\ det.pc = "redirect"
        /\ \/ det' = [moved EXCEPT !.pc = "return0"] /\ det.noclose
           \/ det' = [moved EXCEPT !.pc = "return-1"] /\ ~det.noclose
           \/ /\ ~det.noclose
              /\ det' = [moved EXCEPT !.pc = "return0",
                            !.fds = [d \in 0 .. 3 |-> IF d \in Standard THEN null[fd]
                                                      ELSE null[d]]]
        /\ UNCHANGED ret

\* The rest of daemon: to the root unless nochdir; unless noclose,
\* /dev/null is opened and duplicated onto the three, and stays open under
\* its own number; -1 when it cannot be opened.
Redirect ==
    LET moved == IF det.nochdir THEN det ELSE [det EXCEPT !.cwd = "/"]
        fd    == Lowest(moved.fds)
        null  == [moved.fds EXCEPT ![fd] = "null"]
    IN  /\ det.pc = "redirect"
        /\ \/ det' = [moved EXCEPT !.pc = "return0"] /\ det.noclose
           \/ det' = [moved EXCEPT !.pc = "return-1"] /\ ~det.noclose
           \/ /\ ~det.noclose
              /\ det' = [moved EXCEPT !.pc = "return0",
                            !.fds = [d \in 0 .. 3 |-> IF d \in Standard THEN null[fd]
                                                      ELSE null[d]]]
        /\ UNCHANGED ret

-----------------------------------------------------------------------------
NoCall == [of |-> "none", arg |-> <<>>, ok |-> TRUE, status |-> 0, buf |-> <<>>]

DetInit == det = NotCalled /\ ret = NoCall

\* The three descriptors a process is started with: its terminal or closed.
Inherited == {fds \in [0 .. 3 -> {"tty", "closed"}] : fds[3] = "closed"}

DetNext ==
    \/ \E nochdir, noclose \in BOOLEAN, fds \in Inherited : Call(nochdir, noclose, fds)
    \/ Fork
    \/ ParentExits
    \/ Setsid
    \/ Redirect
    \/ \E text \in Texts, failed \in BOOLEAN : Calls(text, failed)
    \/ \E cwd \in Dirs, readable \in BOOLEAN : Asks(cwd, readable)

DetSpec == DetInit /\ [][DetNext]_detvars

-----------------------------------------------------------------------------
DetTypeOK ==
    /\ ret.of \in {"none", "asprintf", "get_current_dir_name"}
    /\ ret.arg \in Texts \cup Dirs \cup {<<>>}
    /\ ret.status \in -1 .. Len(ret.arg)
    /\ \A i \in DOMAIN ret.buf :
          ret.buf[i] = Uninitialised \/ ret.buf[i] = NUL \/ ret.buf[i] \in Range(ret.arg)
    /\ det \in [pc : {"idle", "fork", "setsid", "redirect", "return0", "return-1", "exit-1"},
             parent : {"none", "forked", "exit0"},
             leader : BOOLEAN, cwd : {"start", "/"},
             fds : [0 .. 3 -> {"tty", "closed", "null"}],
             nochdir : BOOLEAN, noclose : BOOLEAN]

\* The directory of a process that can read it comes back as a string:
\* every byte of it and a NUL behind them, however long it is, in a block
\* of the first size doubled as often as getcwd has said ERANGE and no more
\* often (get_current_dir_name: the loop over getcwd, at the lengths around
\* each size).
WorkingDirectory ==
    ret.of = "get_current_dir_name" /\ ret.ok =>
        /\ Terminated(ret.buf) /\ CString(ret.buf) = ret.arg
        /\ \E k \in 0 .. Len(ret.arg) :
              /\ Len(ret.buf) = GETCWD_SIZE * 2^k
              /\ k > 0 => ~Fits(ret.arg, GETCWD_SIZE * 2^(k - 1))

\* A process daemon has returned 0 to is the child, leads a session of its
\* own without a terminal, is in the root unless nochdir, and unless
\* noclose has /dev/null and nothing of its terminal under the three
\* standard descriptors, whichever of them were closed at the call so that
\* open has returned one of the three themselves (daemon: fork, setsid,
\* chdir, open and the three dup2).
Detached ==
    det.pc = "return0" =>
        /\ det.leader /\ det.parent # "none"
        /\ ~det.nochdir => det.cwd = "/"
        /\ ~det.noclose => \A d \in Standard : det.fds[d] = "null"

=============================================================================
