------------------------------- MODULE Replay -------------------------------
(***************************************************************************)
(* The same application, alone, with libmpire_replay preloaded             *)
(* (src/src/mpire/mpire_replay.c).  Every wrapper that dumped a buffer     *)
(* during the capture loads it from the next numbered log file instead of  *)
(* asking MPI.  Sends, barriers, MPI_Start and MPI_Abort return at once.   *)
(*                                                                         *)
(* The run to repeat is a parameter: the sequence of its calls (program)   *)
(* and the log directory it left (files).  A call is a record              *)
(*   [op |-> name, buf |-> buffer or NULL, req |-> request variable or     *)
(*    NULL, root |-> rank of the root of a collective]                     *)
(* and one iteration of MPI_Waitall counts as one call.                    *)
(***************************************************************************)
EXTENDS Integers, Sequences, Requests

CONSTANTS
  Api,                  \* "C" or "Fortran"
  Bufs,
  Junk,                 \* what a buffer holds after a call that took its
                        \* data from elsewhere than the log
  MPIre_rank,
  FortranBindingsCallC, \* do the MPI library's Fortran bindings call the C
                        \* functions, so that the C wrappers see them?
  MaxPasses             \* bound: times a harness replays the region

VARIABLES
  program, files,
  rphase,         \* "off", "running", "exited" (an error path) or "done"
  rmem,           \* content of the application's buffers
  rtab,           \* requestHtab of the replaying process
  cpt_read,       \* number of the next log file to load
  pos,            \* calls done: position in program
  passes,         \* times MPI_Init was called
  loaded          \* history: the payloads loaded since the last MPI_Init

rvars == <<rphase, rmem, rtab, cpt_read, pos, passes, loaded>>

-----------------------------------------------------------------------------
(* MUTANT: a failed open is not noticed, as in the capture library. *)
read_in_file_goes_on(b) ==
  /\ cpt_read' = cpt_read + 1
  /\ \/ /\ cpt_read \in DOMAIN files
        /\ rmem' = [rmem EXCEPT ![b] = files[cpt_read]]
        /\ loaded' = Append(loaded, files[cpt_read])
     \/ /\ cpt_read \notin DOMAIN files
        /\ UNCHANGED <<rmem, loaded>>
  /\ UNCHANGED rphase

(* The number is used up whether or not the file opens. *)
read_in_file(b) ==
  /\ cpt_read' = cpt_read + 1
  /\ \/ /\ cpt_read \in DOMAIN files
        /\ rmem' = [rmem EXCEPT ![b] = files[cpt_read]]
        /\ loaded' = Append(loaded, files[cpt_read])
        /\ UNCHANGED rphase
     \/ /\ cpt_read \notin DOMAIN files
        /\ rphase' = "exited"
        /\ UNCHANGED <<rmem, loaded>>

(* The application is at a call of f. *)
Current == program[pos + 1]

At(f) ==
  /\ rphase = "running" /\ pos < Len(program)
  /\ Current.op = f
  /\ pos' = pos + 1
  /\ UNCHANGED passes

(* A call whose data is the next file of the log. *)
Load == read_in_file(Current.buf) /\ UNCHANGED rtab

Skip == UNCHANGED <<rphase, rmem, rtab, cpt_read, loaded>>

-----------------------------------------------------------------------------
(* First MPI_Init, in an environment that names the rank and the directory *)
(* of the log (else the process exits here, before anything is replayed);  *)
(* memory is what the application has in its buffers where it starts.      *)
MPI_Init(from, memory) ==
  /\ rphase = "off"
  /\ rphase' = "running"
  /\ rmem' = memory /\ rtab' = EmptyTable
  /\ cpt_read' = 0 /\ loaded' = <<>>
  /\ pos' = from /\ passes' = 1

(* MUTANT: the file number goes on. *)
MPI_Init_again_no_reset(from, memory) ==
  /\ rphase = "running" /\ passes < MaxPasses
  /\ loaded' = <<>>
  /\ rmem' = memory /\ pos' = from /\ passes' = passes + 1
  /\ UNCHANGED <<rphase, rtab, cpt_read>>

(* MPI_Init with MPI up already, the way a harness replays a region again: *)
(* the file number restarts, the table stays as it is.                     *)
MPI_Init_again(from, memory) ==
  /\ rphase = "running" /\ passes < MaxPasses
  /\ cpt_read' = 0 /\ loaded' = <<>>
  /\ rmem' = memory /\ pos' = from /\ passes' = passes + 1
  /\ UNCHANGED <<rphase, rtab>>

(* How the process ends does not matter here: a fault counts as an exit.   *)
MPI_Irecv ==
  /\ At("MPI_Irecv")
  /\ \/ /\ ~IsDuplicate(rtab, Current.req)
        /\ rtab' \in add_request(rtab, Current.req, Current.buf)
        /\ UNCHANGED <<rphase, rmem, cpt_read, loaded>>
     \/ /\ \/ IsDuplicate(rtab, Current.req)
           \/ NoEntry(rtab, Current.req)
        /\ rphase' = "exited"
        /\ UNCHANGED <<rtab, rmem, cpt_read, loaded>>

(* MUTANT: a request without an entry is left to MPI, which waits for a    *)
(* message nobody sends.                                                   *)
Finish_waits(a) ==
  /\ get_request(rtab, a) # NULL
  /\ read_in_file(get_request(rtab, a))
  /\ rtab' = del_request(rtab, a)

(* A request without an entry is taken for a send. *)
Finish(a) ==
  IF get_request(rtab, a) # NULL
  THEN /\ read_in_file(get_request(rtab, a))
       /\ rtab' = del_request(rtab, a)
  ELSE Skip

MPI_Wait == At("MPI_Wait") /\ Finish(Current.req)

(* Both bindings look the address up, one iteration at a time. *)
WaitallStep == At("MPI_Waitall") /\ Finish(Current.req)

MPI_Isend == At("MPI_Isend") /\ Skip

MPI_Recv == At("MPI_Recv") /\ Load

MPI_Allreduce == At("MPI_Allreduce") /\ Load

MPI_Alltoall == At("MPI_Alltoall") /\ Load

MPI_Alltoallv == At("MPI_Alltoallv") /\ Load

(* MUTANT: the root loads a file too. *)
MPI_Bcast_every_rank == At("MPI_Bcast") /\ Load

(* The communicator plays no role: the rank compared with root is the rank *)
(* in MPI_COMM_WORLD.                                                      *)
MPI_Bcast ==
  /\ At("MPI_Bcast")
  /\ IF MPIre_rank # Current.root THEN Load ELSE Skip

(* The Fortran wrapper is called mpi_reduce, without the underscore of the *)
(* symbol a Fortran program calls.  Unless the MPI library's own binding   *)
(* ends in the C wrapper, the call reduces over the one process there is,  *)
(* and a root other than rank 0 is an error that ends the program.         *)
ReduceIntercepted == Api = "C" \/ FortranBindingsCallC

(* MUTANT: every rank but the root loads a file. *)
MPI_Reduce_not_root ==
  /\ At("MPI_Reduce")
  /\ IF MPIre_rank # Current.root THEN Load ELSE Skip

MPI_Reduce ==
  /\ At("MPI_Reduce")
  /\ \/ /\ ReduceIntercepted
        /\ IF MPIre_rank = Current.root THEN Load ELSE Skip
     \/ /\ ~ReduceIntercepted /\ Current.root = 0
        /\ rmem' = [rmem EXCEPT ![Current.buf] = Junk]
        /\ UNCHANGED <<rphase, rtab, cpt_read, loaded>>
     \/ /\ ~ReduceIntercepted /\ Current.root # 0
        /\ rphase' = "exited"
        /\ UNCHANGED <<rmem, rtab, cpt_read, loaded>>

(* setenv has no effect on a replay. *)
SetDump == At("setenv") /\ Skip

MPI_Finalize ==
  /\ rphase = "running" /\ pos = Len(program)
  /\ rphase' = "done"
  /\ rtab' = EmptyTable
  /\ UNCHANGED <<rmem, cpt_read, pos, passes, loaded>>

-----------------------------------------------------------------------------
Off ==
  /\ rphase = "off"
  /\ rmem = [b \in Bufs |-> Junk] /\ rtab = EmptyTable
  /\ cpt_read = 0 /\ pos = 0 /\ passes = 0 /\ loaded = <<>>

Call ==
  \/ MPI_Irecv \/ MPI_Isend \/ MPI_Wait \/ WaitallStep
  \/ MPI_Recv \/ MPI_Allreduce \/ MPI_Alltoall \/ MPI_Alltoallv
  \/ MPI_Bcast \/ MPI_Reduce \/ SetDump
=============================================================================
