----------------------------- MODULE MCHashTab -----------------------------
(* Instances of HashTab for TLC: layers over the root, /a and /a/b, with   *)
(* and without exceptions, and names that only look like theirs.           *)
EXTENDS HashTab

A == <<"/", "a">>
AB == <<"/", "a", "/", "b">>
Mount(p, trail, exc, match) == [path |-> p, trail |-> trail, exc |-> exc, match |-> match]

TreeMounts == {Mount(<<>>, FALSE, TRUE, TRUE),
               Mount(A, FALSE, TRUE, TRUE), Mount(A, TRUE, FALSE, TRUE),
               Mount(AB, FALSE, FALSE, TRUE), Mount(A, TRUE, FALSE, FALSE)}
TreeSearches == {A, AB, A \o <<"1">>, A \o <<"b">>}

DiskMounts == {Mount(A, TRUE, FALSE, TRUE)}
DiskSearches == {A, A \o <<"0">>, A \o <<"1", "0">>}
=============================================================================
