------------------------------ MODULE MCBoard ------------------------------
(* The instance of Board for TLC. *)
EXTENDS Board, TLC

\* One thread with a reply, two threads with an id left out between them, a
\* board of a single article and one of none.
Dirs == {<< <<1, TRUE>>, <<2, FALSE>> >>, << <<1, TRUE>>, <<3, TRUE>> >>, << <<1, TRUE>> >>, <<>>}
Renamings == Permutations(Procs)
=============================================================================
