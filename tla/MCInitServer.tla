---------------------------- MODULE MCInitServer ----------------------------
(* InitServer on small instances: three sockets that send one frame each; and *)
(* two, one with a second window, beside a socket that has used up its window. *)
EXTENDS InitServer, TLC

Bound(frames, more) == [sent |-> frames, windows |-> more]

Talk == {[s \in Socket |-> IF s = t THEN Bound(0, 1) ELSE IF s = m THEN Bound(1, 0) ELSE Bound(0, 0)] :
           <<t, m>> \in {p \in Socket \X Socket : p[1] # p[2]}}
Scenes == Talk \cup {[s \in Socket |-> Bound(0, 0)]}

Symmetry == Permutations(Socket) \cup Permutations(User) \cup Permutations(Secret) \cup Permutations(Room)
=============================================================================
