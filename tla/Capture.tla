------------------------------ MODULE Capture ------------------------------
(***************************************************************************)
(* One process of an MPI job that runs with libmpire_capture preloaded     *)
(* (src/src/mpire/mpire_capture.c).  The library wraps the receiving calls *)
(* of the application: it lets MPI do the call, then dumps the received    *)
(* buffer in the next numbered log file.  A nonblocking receive is dumped  *)
(* by the call that waits for it; until then it is an entry of             *)
(* requestHtab, filed under the address of the request variable.           *)
(*                                                                         *)
(* The process is single threaded, so a wrapper is one action; the loop of *)
(* MPI_Waitall is one action per iteration.  Messages land in the buffers  *)
(* of posted receives at any time in between (Deliver), the process may be *)
(* killed at any time (Crash).                                             *)
(*                                                                         *)
(* The application is any legal MPI program over a few buffers and request *)
(* variables: it never touches the buffer of a pending receive, never      *)
(* posts on a request variable in use and finalizes with nothing pending.  *)
(***************************************************************************)
EXTENDS Integers, Sequences, FiniteSets, Requests

CONSTANTS
  Api,            \* "C" or "Fortran": the bindings the application calls
  Calls,          \* the wrapped functions (and setenv) the application uses
  Bufs,           \* receive buffers
  Reqs,           \* request variables of the application (their addresses)
  REQUEST_NULL,   \* the handle MPI leaves in a completed request variable
  Vals,           \* payloads of messages
  Blank,          \* content of a buffer nothing was received in yet
  Junk,           \* content of a log file that no call of this run produced
  Comms, WORLD,   \* communicators, MPI_COMM_WORLD among them
  CommRank,       \* rank of this process in each communicator
  Ranks,          \* ranks that occur as the root of a collective
  MPIre_rank,     \* the rank to capture (environment variable MPIRE_RANK)
  OpenOutcomes,   \* may MPI_File_open succeed (TRUE), fail (FALSE)?
  MaxStale,       \* bound: log files left in the directory by earlier runs
  MaxLogged       \* bound: no call starts after this many payloads to log
                  \* or log files

AllCalls == {"MPI_Irecv", "MPI_Isend", "MPI_Recv", "MPI_Wait", "MPI_Waitall",
             "MPI_Bcast", "MPI_Alltoall", "MPI_Alltoallv", "MPI_Allreduce",
             "MPI_Reduce", "setenv", "non_implemented_hook"}

(* States of a request variable that holds no pending receive. *)
Idle == "idle"
Sending == "sending"

Payload == Vals \cup {Blank, Junk}

ASSUME ConstantsAssumption ==
  /\ Api \in {"C", "Fortran"} /\ OutOfMemory \in BOOLEAN
  /\ Calls \subseteq AllCalls
  /\ NULL \notin Bufs
  /\ REQUEST_NULL \notin Reqs
  /\ Idle \notin Bufs /\ Sending \notin Bufs
  /\ Junk \notin Vals /\ Blank \notin Vals
  /\ WORLD \in Comms
  /\ CommRank \in [Comms -> Int]
  /\ MPIre_rank \in Int
  /\ OpenOutcomes \subseteq BOOLEAN
  /\ MaxStale \in Nat /\ MaxLogged \in Nat

VARIABLES
  phase,          \* "boot", "running", "finalized", or how the process died
  dump,           \* MPIRE_ACTIVE_DUMP in the environment: "unset", "0", "1"
  requestHtab,    \* request variable -> buffer
  files,          \* the log directory: file number -> content
  cpt_write,      \* number of the next log file
  mem,            \* content of the application's buffers
  active,         \* request variable -> Idle, Sending or the receive's buffer
  arrived,        \* pending receives whose message is in the buffer
  todo,           \* requests the loop of MPI_Waitall still has to look at
  inbound         \* history: what the process received as the rank to
                  \* capture while the dump was active, in the order the
                  \* calls returned it

logVars == <<phase, files, cpt_write>>
vars == <<phase, dump, requestHtab, files, cpt_write, mem, active, arrived,
          todo, inbound>>

-----------------------------------------------------------------------------
(* The wrappers compare the rank in the communicator of the call ... *)
Captured(c) == CommRank[c] = MPIre_rank

(* ... but only the process whose rank in MPI_COMM_WORLD is MPIre_rank has  *)
(* been through htable_init.                                                *)
TableReady == Captured(WORLD)

Pending(a) == active[a] \in Bufs
Free(b) == \A a \in Reqs : active[a] # b
Complete(a) == Pending(a) => a \in arrived

(* The application is about to call f. *)
Calling(f) ==
  /\ f \in Calls
  /\ phase = "running" /\ todo = <<>>
  /\ Len(inbound) < MaxLogged /\ cpt_write < MaxLogged

(* The application gets v from a call on communicator c.  The rank to      *)
(* capture is meant in MPI_COMM_WORLD; a process that has it only in c is  *)
(* taken for that rank by the calls on c.                                  *)
Received(v, c) ==
  inbound' = IF (Captured(WORLD) \/ Captured(c)) /\ dump = "1"
             THEN Append(inbound, v) ELSE inbound

-----------------------------------------------------------------------------
(* MUTANT: the number of the file is not used up. *)
write_in_file_same_number(v) ==
  \/ /\ dump # "1"
     /\ UNCHANGED logVars
  \/ /\ dump = "1"
     /\ files' = Put(files, cpt_write, v)
     /\ UNCHANGED <<phase, cpt_write>>

(* A failed MPI_File_open returns a positive error class, which the test   *)
(* "fp < 0" lets through: the write is lost, the number is used.           *)
(* getenv returns a null pointer when the variable is unset.               *)
write_in_file(v) ==
  \/ /\ dump = "unset"
     /\ phase' = "fault"
     /\ UNCHANGED <<files, cpt_write>>
  \/ /\ dump = "0"
     /\ UNCHANGED logVars
  \/ /\ dump = "1"
     /\ cpt_write' = cpt_write + 1
     /\ \E opened \in OpenOutcomes :
          files' = IF opened THEN Put(files, cpt_write, v) ELSE files
     /\ UNCHANGED phase

(* The captured process turns the dump on unless the user has decided,     *)
(* creates the directory, prepares its table and records the number of     *)
(* ranks.  The process exits when MPIRE_RANK is not set or when the file   *)
(* nprocs cannot be created.                                               *)
init_MPIre ==
  /\ \E ready \in BOOLEAN : phase' = IF ready THEN "running" ELSE "exited"
  /\ dump' = IF Captured(WORLD) /\ dump = "unset" THEN "1" ELSE dump
  /\ requestHtab' = EmptyTable

MPI_Init ==
  /\ phase = "boot"
  /\ init_MPIre
  /\ UNCHANGED <<files, cpt_write, mem, active, arrived, todo, inbound>>

(* MUTANT: an old entry of the address is kept for the new receive. *)
MPI_Irecv_keeps_entry(a, b, c) ==
  /\ Calling("MPI_Irecv")
  /\ active[a] = Idle /\ Free(b)
  /\ active' = [active EXCEPT ![a] = b]
  /\ \/ a \in DOMAIN requestHtab /\ UNCHANGED requestHtab
     \/ requestHtab' \in add_request(requestHtab, a, b)
  /\ UNCHANGED <<phase, dump, files, cpt_write, mem, arrived, todo, inbound>>

(* On a process that never initialised the table the wrapper follows a     *)
(* null pointer.                                                           *)
MPI_Irecv(a, b, c) ==
  /\ Calling("MPI_Irecv")
  /\ active[a] = Idle /\ Free(b)
  /\ \/ /\ ~Captured(c)
        /\ active' = [active EXCEPT ![a] = b]
        /\ UNCHANGED <<phase, requestHtab>>
     \/ /\ Captured(c) /\ TableReady
        /\ ~IsDuplicate(requestHtab, a)
        /\ requestHtab' \in add_request(requestHtab, a, b)
        /\ active' = [active EXCEPT ![a] = b]
        /\ UNCHANGED phase
     \/ /\ Captured(c) /\ TableReady
        /\ IsDuplicate(requestHtab, a)
        /\ phase' = "exited"
        /\ UNCHANGED <<requestHtab, active>>
     \/ /\ Captured(c)
        /\ ~TableReady \/ NoEntry(requestHtab, a)
        /\ phase' = "fault"
        /\ UNCHANGED <<requestHtab, active>>
  /\ UNCHANGED <<dump, files, cpt_write, mem, arrived, todo, inbound>>

(* The capture library leaves sends to MPI. *)
MPI_Isend(a) ==
  /\ Calling("MPI_Isend")
  /\ active[a] = Idle
  /\ active' = [active EXCEPT ![a] = Sending]
  /\ UNCHANGED <<phase, dump, requestHtab, files, cpt_write, mem, arrived,
                 todo, inbound>>

(* MPI puts the message of a pending receive in its buffer. *)
Deliver(a) ==
  /\ phase = "running"
  /\ Pending(a) /\ a \notin arrived
  /\ \E v \in Vals : mem' = [mem EXCEPT ![active[a]] = v]
  /\ arrived' = arrived \cup {a}
  /\ UNCHANGED <<phase, dump, requestHtab, files, cpt_write, active, todo,
                 inbound>>

-----------------------------------------------------------------------------
(* A call on c that returns a payload in b at once; logged: does the       *)
(* wrapper's condition select this process?                                *)
Receive(b, c, logged) ==
  /\ Free(b)
  /\ \E v \in Vals :
       /\ mem' = [mem EXCEPT ![b] = v]
       /\ Received(v, c)
       /\ IF logged THEN write_in_file(v) ELSE UNCHANGED logVars
  /\ UNCHANGED <<dump, requestHtab, active, arrived, todo>>

(* MUTANT: the rank is not compared. *)
MPI_Recv_every_rank(b, c) == Calling("MPI_Recv") /\ Receive(b, c, TRUE)

MPI_Recv(b, c) == Calling("MPI_Recv") /\ Receive(b, c, Captured(c))

MPI_Allreduce(b, c) == Calling("MPI_Allreduce") /\ Receive(b, c, Captured(c))

MPI_Alltoall(b, c) == Calling("MPI_Alltoall") /\ Receive(b, c, Captured(c))

(* mpi_alltoallv_ dereferences the caller's arrays of counts as arrays of  *)
(* pointers: a Fortran program does not survive the call.                  *)
MPI_Alltoallv(b, c) ==
  /\ Calling("MPI_Alltoallv")
  /\ \/ Api = "C" /\ Receive(b, c, Captured(c))
     \/ /\ Api = "Fortran"
        /\ phase' = "fault"
        /\ UNCHANGED <<dump, requestHtab, files, cpt_write, mem, active,
                       arrived, todo, inbound>>

MPI_Bcast(b, root, c) ==
  /\ Calling("MPI_Bcast")
  /\ IF CommRank[c] # root
     THEN Receive(b, c, Captured(c) /\ CommRank[c] # root)
     ELSE Free(b) /\ UNCHANGED vars

(* MUTANT: the test of MPI_Bcast in the wrapper of MPI_Reduce. *)
MPI_Reduce_all_but_root(b, root, c) ==
  /\ Calling("MPI_Reduce")
  /\ IF CommRank[c] = root
     THEN Receive(b, c, Captured(c) /\ CommRank[c] # root)
     ELSE Free(b) /\ UNCHANGED vars

MPI_Reduce(b, root, c) ==
  /\ Calling("MPI_Reduce")
  /\ IF CommRank[c] = root
     THEN Receive(b, c, Captured(c) /\ CommRank[c] = root)
     ELSE Free(b) /\ UNCHANGED vars

-----------------------------------------------------------------------------
(* MPI has completed the request in variable a; the wrapper looks key up   *)
(* and dumps the buffer it finds.  The rank is that in MPI_COMM_WORLD.     *)
Finish(a, key) ==
  LET found == get_request(requestHtab, key) IN
  /\ active' = [active EXCEPT ![a] = Idle]
  /\ arrived' = arrived \ {a}
  /\ IF Pending(a) THEN Received(mem[active[a]], WORLD) ELSE UNCHANGED inbound
  /\ IF Captured(WORLD) /\ found # NULL
     THEN /\ write_in_file(mem[found])
          /\ requestHtab' = del_request(requestHtab, key)
     ELSE UNCHANGED <<requestHtab, phase, files, cpt_write>>
  /\ UNCHANGED <<dump, mem>>

(* mpi_wait_ leaves the completed handle in the variable, so a Fortran     *)
(* program that waits again on it is outside this model.                   *)
MPI_Wait(a) ==
  /\ Calling("MPI_Wait")
  /\ Api = "Fortran" => active[a] # Idle
  /\ Complete(a)
  /\ Finish(a, a)
  /\ UNCHANGED todo

(* The arrays of distinct request variables MPI_Waitall may be given. *)
Arrays ==
  {s \in UNION {[1..n -> Reqs] : n \in 1..Cardinality(Reqs)} :
     \A i, j \in DOMAIN s : s[i] = s[j] => i = j}

(* PMPI_Waitall returns when every request is complete; active keeps each  *)
(* of them until the loop has looked at it.                                *)
MPI_Waitall(s) ==
  /\ Calling("MPI_Waitall")
  /\ \A i \in DOMAIN s : /\ Complete(s[i])
                         /\ Api = "Fortran" => active[s[i]] # Idle
  /\ todo' = s
  /\ UNCHANGED <<phase, dump, requestHtab, files, cpt_write, mem, active,
                 arrived, inbound>>

(* MUTANT: the Fortran wrapper makes the mistake of the C one. *)
WaitallKey_handle(a) == REQUEST_NULL

(* The C wrapper looks the HANDLE up, which PMPI_Waitall has set to        *)
(* MPI_REQUEST_NULL; the Fortran one looks the address up.                 *)
WaitallKey(a) == IF Api = "C" THEN REQUEST_NULL ELSE a

WaitallStep ==
  /\ phase = "running" /\ todo # <<>>
  /\ Finish(Head(todo), WaitallKey(Head(todo)))
  /\ todo' = Tail(todo)

-----------------------------------------------------------------------------
(* The application or its harness opens and closes the captured region. *)
SetDump(d) ==
  /\ Calling("setenv")
  /\ d # dump
  /\ dump' = d
  /\ UNCHANGED <<phase, requestHtab, files, cpt_write, mem, active, arrived,
                 todo, inbound>>

non_implemented_hook ==
  /\ Calling("non_implemented_hook")
  /\ phase' = "aborted"
  /\ UNCHANGED <<dump, requestHtab, files, cpt_write, mem, active, arrived,
                 todo, inbound>>

MPI_Finalize ==
  /\ phase = "running" /\ todo = <<>>
  /\ \A a \in Reqs : active[a] = Idle
  /\ phase' = "finalized"
  /\ requestHtab' = EmptyTable
  /\ UNCHANGED <<dump, files, cpt_write, mem, active, arrived, todo, inbound>>

(* The process is killed, possibly while it writes the next log file. *)
Crash ==
  /\ phase = "running"
  /\ phase' = "crashed"
  /\ \/ UNCHANGED files
     \/ /\ \E c \in Comms : Captured(c)
        /\ dump = "1"
        /\ files' = Put(files, cpt_write, Junk)
  /\ UNCHANGED <<dump, requestHtab, cpt_write, mem, active, arrived, todo,
                 inbound>>

-----------------------------------------------------------------------------
Init ==
  /\ phase = "boot"
  /\ dump \in {"unset", "0", "1"}
  /\ requestHtab = EmptyTable
  /\ \E k \in 0..MaxStale : files = [i \in 0..(k - 1) |-> Junk]
  /\ cpt_write = 0
  /\ mem = [b \in Bufs |-> Blank]
  /\ active = [a \in Reqs |-> Idle]
  /\ arrived = {}
  /\ todo = <<>>
  /\ inbound = <<>>

Collective ==
  \E b \in Bufs, c \in Comms :
    \/ MPI_Allreduce(b, c)
    \/ MPI_Alltoall(b, c)
    \/ MPI_Alltoallv(b, c)
    \/ \E root \in Ranks : MPI_Bcast(b, root, c) \/ MPI_Reduce(b, root, c)

Next ==
  \/ MPI_Init
  \/ \E a \in Reqs : \/ \E b \in Bufs, c \in Comms : MPI_Irecv(a, b, c)
                     \/ MPI_Isend(a)
                     \/ Deliver(a)
                     \/ MPI_Wait(a)
  \/ \E b \in Bufs, c \in Comms : MPI_Recv(b, c)
  \/ Collective
  \/ \E s \in Arrays : MPI_Waitall(s)
  \/ WaitallStep
  \/ \E d \in {"0", "1"} : SetDump(d)
  \/ non_implemented_hook
  \/ MPI_Finalize
  \/ Crash

Spec == Init /\ [][Next]_vars

-----------------------------------------------------------------------------
(* Types of the variables. *)
TypeOK ==
  /\ phase \in {"boot", "running", "finalized", "exited", "aborted", "fault",
                "crashed"}
  /\ dump \in {"unset", "0", "1"}
  /\ DOMAIN requestHtab \subseteq Reqs
  /\ requestHtab \in [DOMAIN requestHtab -> Bufs]
  /\ DOMAIN files \subseteq Nat
  /\ files \in [DOMAIN files -> Payload]
  /\ cpt_write \in Nat
  /\ mem \in [Bufs -> Payload]
  /\ active \in [Reqs -> Bufs \cup {Idle, Sending}]
  /\ arrived \subseteq Reqs
  /\ todo \in Seq(Reqs)
  /\ inbound \in Seq(Payload)

(* Every communicator of the application ranks the captured process        *)
(* MPIre_rank, and none of its wrappers is the MPI_Waitall of the C        *)
(* bindings, which does not find the requests it waits for.                *)
AddressedWaits ==
  /\ \A c \in Comms : Captured(c)
  /\ Api = "Fortran" \/ "MPI_Waitall" \notin Calls

(* The log files 0, 1, ... up to cpt_write are the payloads the captured    *)
(* process received while the dump was active, in the order its calls      *)
(* returned them: through nonblocking receives completed in any order, in  *)
(* the middle of MPI_Waitall, and in the log a killed process leaves.      *)
AllInboundSaved ==
  /\ cpt_write = Len(inbound)
  /\ \A i \in 1..Len(inbound) :
       (i - 1) \in DOMAIN files /\ files[i - 1] = inbound[i]

(* requestHtab holds exactly the pending receives, each with the buffer it *)
(* was posted for: none is missing when MPI_Wait comes for it, and no      *)
(* entry of a receive that is over is left to be taken for another one.    *)
RequestTableExact ==
  phase = "running" =>
    /\ DOMAIN requestHtab = {a \in Reqs : Pending(a)}
    /\ \A a \in DOMAIN requestHtab : requestHtab[a] = active[a]

(* Whatever entries of completed receives are left in the table, one that  *)
(* is found for a pending receive has its buffer, and one is found unless  *)
(* htable_add had no memory for it: add_request exits rather than let an   *)
(* old entry stand for a new receive.                                      *)
PendingIsTabled ==
  (phase = "running" /\ \A c \in Comms : Captured(c)) =>
    \A a \in Reqs : Pending(a) =>
      \/ get_request(requestHtab, a) = active[a]
      \/ OutOfMemory /\ get_request(requestHtab, a) = NULL

(* A number is used once: a step writes no file below cpt_write, not even   *)
(* one that an earlier run left, and the number of the file it writes is    *)
(* below cpt_write afterwards, unless the process was killed over it.       *)
Written ==
  {i \in DOMAIN files' : i \notin DOMAIN files \/ files'[i] # files[i]}

WriteOnce ==
  [][/\ cpt_write <= cpt_write'
     /\ DOMAIN files \subseteq DOMAIN files'
     /\ \A i \in Written :
          cpt_write <= i /\ (i < cpt_write' \/ phase' = "crashed")]_vars

(* A process other than the one to capture keeps no entry, and every       *)
(* number it uses and every file it writes is for a payload it received in *)
(* a call on a communicator that gives it the captured rank, while the     *)
(* dump was set in its environment: none is for a call on another one.     *)
BystanderUntouched ==
  ~Captured(WORLD) =>
    /\ requestHtab = EmptyTable
    /\ cpt_write = Len(inbound)
    /\ \A i \in DOMAIN files :
         \/ files[i] = Junk
         \/ i < cpt_write /\ files[i] = inbound[i + 1]

(* Every number the captured process used stands for a file it wrote;      *)
(* otherwise write_in_file has reported "Failed to open log file" and      *)
(* exited (mpire_capture.c:47-50).                                         *)
OpenFailureStops ==
  phase # "exited" =>
    \A i \in 0..(cpt_write - 1) : i \in DOMAIN files /\ files[i] # Junk
=============================================================================
