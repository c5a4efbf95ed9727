--------------------------- MODULE MCLogDirectory ---------------------------
(* LogDirectory with integers of three bits, -4 to 3, worlds of two and    *)
(* three ranks, and paths cut behind the fourth token.                     *)
EXTENDS LogDirectory

Good == <<"a", "/", "b", "/">>
NoSlash == <<"a", "/", "b">>
Long == <<"a", "/", "b", "/", "c", "/">>
Absolute == <<"/", "a", "/">>
Readonly == <<"l", "/", "b", "/">>
MCPaths == {Good, NoSlash, Long, Absolute, Readonly, <<>>}
MCLocked == {<<"l">>}
MCOthers == {<<"a">>, <<"a", "/", "b">>}

Recv(n) == [op |-> "MPI_Recv", ranks |-> 1, counts |-> <<n>>, displs |-> <<0>>]
Alltoall(n, ranks) ==
  [op |-> "MPI_Alltoall", ranks |-> ranks,
   counts |-> [i \in 1..ranks |-> n], displs |-> [i \in 1..ranks |-> n * (i - 1)]]
Alltoallv(counts, displs) ==
  [op |-> "MPI_Alltoallv", ranks |-> Len(counts), counts |-> counts,
   displs |-> displs]

(* Blocks in order and out of order, with a gap, on a part of the world,   *)
(* and with a sum that overflows to a negative and to a small number.      *)
MCCalls ==
  {Recv(0), Recv(2), Alltoall(1, 1), Alltoall(1, 2), Alltoall(2, 2),
   Alltoall(1, 3), Alltoall(3, 3),
   Alltoallv(<<2>>, <<0>>), Alltoallv(<<1, 2>>, <<0, 1>>),
   Alltoallv(<<1, 1>>, <<2, 0>>),
   Alltoallv(<<3, 1>>, <<0, 3>>), Alltoallv(<<2, 0, 1>>, <<1, 1, 0>>)}
=============================================================================
