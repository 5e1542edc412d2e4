------------------------------- MODULE MCRelease -------------------------------
(***************************************************************************)
(* One commit and the C library's Release; two, of one version, and the    *)
(* crate of every kind; two, of one version each.                          *)
(***************************************************************************)
EXTENDS Release

Commit(v, m) == [version |-> v, manifest |-> m]
History(line, called) == [commits |-> line, called |-> called]

MCHistories ==
  { History(<<Commit(1, "publishes")>>, {"clib"}),
    History(<<Commit(1, "publishes"), Commit(1, "publishes")>>, {"crates"}),
    History(<<Commit(1, "refused"), Commit(1, "publishes")>>, {"crates"}),
    History(<<Commit(1, "unresolved"), Commit(1, "private")>>, {"crates"}),
    History(<<Commit(1, "publishes"), Commit(2, "publishes")>>, {"crates"}) }
================================================================================
