------------------------------ MODULE MCFiles ------------------------------
(* Files for TLC: a file, a directory and a file in it; a version of one      *)
(* block, and one of two, which is too large for the command channel.         *)
EXTENDS Files, TLC

MCPaths == {<<>>, <<"f">>, <<"d">>, <<"d", "g">>}
MCRels == {<<"f">>, <<".", "d">>, <<"d", "g">>, <<"..", "f">>}
MCSize == <<1, 2>>
MCServerPaths == {<<"d", "g">>}

Symmetry == Permutations(Tasks)
=============================================================================
