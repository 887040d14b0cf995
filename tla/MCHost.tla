------------------------------- MODULE MCHost -------------------------------
(***************************************************************************)
(* Host for TLC: two process numbers, so that a number is used again while *)
(* the file still holds it; three inodes, one for the name and two that    *)
(* processes can still have open; arguments for every branch of main, and  *)
(* two nodes; texts and directories of every length up to where asprintf   *)
(* has printed twice and get_current_dir_name has doubled its block four   *)
(* times.                                                                  *)
(***************************************************************************)
EXTENDS Host

MCNodes == <<"a", "b">>

MCArgvs ==
    {<<>>,
     <<[opt |-> "g"]>>,
     <<[opt |-> "q"], [opt |-> "g"], [opt |-> "k", arg |-> "HUP"]>>,
     <<[opt |-> "k", arg |-> ""]>>,
     <<[opt |-> "k", arg |-> "9"], [opt |-> "show-config"]>>,
     <<[opt |-> "k", arg |-> "WINCH"], [opt |-> "g"]>>,
     <<[opt |-> "g"], [opt |-> "version"]>>,
     <<[opt |-> "help"], [opt |-> "s"]>>,
     <<[opt |-> "s"]>>,
     <<[opt |-> "?"], [opt |-> "g"]>>}

\* One text of each length, of bytes that are no NUL.
TextsUpTo(n) == {[i \in 1 .. len |-> 64 + i] : len \in 0 .. n}

MCTexts == TextsUpTo(ASPRINTF_LEN + 2)

MCDirs == TextsUpTo(8 * GETCWD_SIZE + 1) \ {<<>>}

=============================================================================
