----------------------------- MODULE MCFileCache -----------------------------
(* Two or three writers over one directory.                                   *)
EXTENDS FileCache
==============================================================================
