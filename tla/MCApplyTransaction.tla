------------------------ MODULE MCApplyTransaction ------------------------
(* TLC instances of ApplyTransaction. *)
EXTENDS ApplyTransaction

\* No step depends on edits or backups, and no property of these runs is about
\* them: one state stands for all that differ in them only.
NothingUnused ==
  <<current, domain.profile, vm, live.profile, nets, host, history, pc,
    mem, dump.profile, listed, i>>
=============================================================================
