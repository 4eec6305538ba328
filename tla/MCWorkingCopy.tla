--------------------------- MODULE MCWorkingCopy ----------------------------
(* A file in a directory that can be renamed; others come beside it and     *)
(* outside of the directory.                                                *)
EXTENDS WorkingCopy

MCOrigin == {<<"d", "a">>}
MCFilePaths == {<<"a">>, <<"d", "b">>}
MCDirPaths == {<<"e">>}
=============================================================================
