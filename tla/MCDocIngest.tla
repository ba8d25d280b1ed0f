----------------------------- MODULE MCDocIngest -----------------------------
(* TLC instance of DocIngest. *)
EXTENDS DocIngest, TLC

CONSTANTS f1, f2, h1, h2

\* None, one that cannot be parsed, and one that lets both files in.
MCJsons ==
  {[kind |-> "absent", files |-> {}], [kind |-> "broken", files |-> {}],
   [kind |-> "valid", files |-> {f1, f2}]}

MCCommits == {{f1}, {f1, f2}}
=============================================================================
