---------------------------- MODULE MCFileUpload ----------------------------
(* FileUpload for TLC: sessions, ids and transaction ids are model values. *)
EXTENDS FileUpload, TLC

Symmetric == Permutations(Sessions) \cup Permutations(Ids) \cup Permutations(Tids)
=============================================================================
