------------------------------ MODULE MCFileIo ------------------------------
(***************************************************************************)
(* FileIoCallers.tla for TLC.                                              *)
(***************************************************************************)
EXTENDS FileIoCallers, TLC

\* Databases are interchangeable, and so are files.
Names == Permutations(Db) \cup Permutations(File)
=============================================================================
