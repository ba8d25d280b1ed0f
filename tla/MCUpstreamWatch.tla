--------------------------- MODULE MCUpstreamWatch ---------------------------
(* UpstreamWatch on a small instance.                                      *)
EXTENDS UpstreamWatch, TLC

CONSTANTS r1, r2

\* Requests are interchangeable: every action is open to each of them.
Interchangeable == Permutations({r1, r2})

\* butler.json names two upstreams, of which one may be removed.
MCTargetLists == {<<"chromium", "electron">>}

=============================================================================
