---------------------------- MODULE LogDirectory ----------------------------
(***************************************************************************)
(* What the log files hold: captures that run one after another over one   *)
(* file system, and the replay that follows.  A buffer has elements here.  *)
(* The capture dumps as many as the arguments of the call say, with the    *)
(* size of the call's communicator; the replay loads as many as they say   *)
(* with the size of MPI_COMM_WORLD at the capture, which it has from the   *)
(* file nprocs.  Files are opened without being truncated, and a capture   *)
(* may be killed at any time.                                              *)
(*                                                                         *)
(* A call is [op, ranks, counts, displs]: ranks is the size of its         *)
(* communicator and block i of the receive buffer is counts[i] elements    *)
(* from displs[i] on.  The reductions, MPI_Bcast and MPI_Recv dump one     *)
(* block of as many elements as they are told; MPI_Recv stands for them.   *)
(***************************************************************************)
EXTENDS OutputPath

CONSTANTS
  Sizes,          \* sizes of MPI_COMM_WORLD
  Calls,          \* calls of applications
  Width,          \* bits of an int
  MaxCalls        \* bound: calls of a capture

VARIABLES
  nprocs,         \* directory -> what its file nprocs says, 0 for nothing
  files,          \* <<directory, number>> -> elements of the log file
  size,           \* size of MPI_COMM_WORLD in the last capture
  saved,          \* history: how far it got: "no", "empty" or "size" in nprocs
  program,        \* history: its calls
  before,         \* history: files its directory had before
  torn,           \* history: was it killed during the write of its last call?
  MPIre_size,     \* of the replay
  cpt_read,       \* of the replay: calls done
  got             \* elements the last replayed call loaded

captureVars == <<nprocs, files, size, saved, program, before, torn>>
replayVars == <<MPIre_size, cpt_read, got>>
vars == <<pathVars, captureVars, replayVars>>

(* f with k mapped to v, whether or not k was in its domain *)
Put(f, k, v) == [x \in DOMAIN f \cup {k} |-> IF x = k THEN v ELSE f[x]]

cpt_write == Len(program)
Half == 2 ^ (Width - 1)
Wrap(x) == ((x + Half) % (2 * Half)) - Half
Ints == (-Half)..(Half - 1)
Sum(s) == FoldSeq(+, 0, s)

(* Positions a call receives in, and what an element of the log is: its    *)
(* run, call and position, or whatever was in a gap between the blocks.    *)
Block(c, i) == (c.displs[i] + 1)..(c.displs[i] + c.counts[i])
Received(c) == UNION {Block(c, i) : i \in DOMAIN c.counts}
Extent(c) == Max(Received(c) \cup {0})
Memory(r, n, c) ==
  [i \in 1..Extent(c) |-> <<IF i \in Received(c) THEN r ELSE 0, n, i>>]

(* What MPI asks of those who call it: counts are not negative, a call has *)
(* one block (MPI_Recv) or one for each rank, all of one size for          *)
(* MPI_Alltoall, and no place of a receive buffer is written twice.        *)
ASSUME CallAssumption ==
  /\ Sizes \subseteq Nat /\ Width \in Nat \ {0} /\ MaxCalls \in Nat
  /\ \A c \in Calls :
       /\ c.op \in {"MPI_Recv", "MPI_Alltoall", "MPI_Alltoallv"}
       /\ c.ranks \in Nat \ {0}
       /\ c.counts \in Seq(Nat) /\ c.displs \in Seq(Nat)
       /\ Len(c.counts) = IF c.op = "MPI_Recv" THEN 1 ELSE c.ranks
       /\ Len(c.displs) = Len(c.counts)
       /\ \A i, j \in DOMAIN c.counts :
            /\ c.op = "MPI_Alltoall" => c.counts[i] = c.counts[j]
            /\ i # j => Block(c, i) \cap Block(c, j) = {}

-----------------------------------------------------------------------------
(* MUTANT: recvcount instead of recvcount*size. *)
Count_of_one_rank(c, ranks, stray) ==
  IF c.op = "MPI_Alltoallv"
  THEN Wrap(Sum(Cut(c.counts, ranks))
            + IF ranks > c.ranks THEN stray ELSE 0)
  ELSE c.counts[1]

(* The count the wrapper of c passes on if it takes ranks for the size of  *)
(* the communicator; stray is what the entries past the end of recvcounts  *)
(* add up to.                                                              *)
Count(c, ranks, stray) ==
  CASE c.op = "MPI_Recv" -> c.counts[1]
    [] c.op = "MPI_Alltoall" -> Wrap(c.counts[1] * ranks)
    [] c.op = "MPI_Alltoallv" ->
         Wrap(Sum(Cut(c.counts, ranks))
              + IF ranks > c.ranks THEN stray ELSE 0)

(* MUTANT: the elements are appended. *)
Overwritten_appends(old, new) == old \o new

(* The file is opened for writing but not truncated. *)
Overwritten(old, new) == new \o SubSeq(old, Len(new) + 1, Len(old))

(* MPI_File_write of the elements; a negative count is an error that is    *)
(* ignored.                                                                *)
Dumped(c) == Cut(Memory(run, cpt_write, c), Count(c, c.ranks, 0))

(* The first k elements of the dump reach the file. *)
write_in_file(c, k) ==
  LET f == <<Dir(outpath), cpt_write>>
      old == IF f \in DOMAIN files THEN files[f] ELSE <<>>
  IN  files' = Put(files, f, Overwritten(old, SubSeq(Dumped(c), 1, k)))

Init ==
  /\ PathInit
  /\ nprocs = <<>> /\ files = <<>>
  /\ size = 0 /\ saved = "no" /\ program = <<>> /\ before = {} /\ torn = FALSE
  /\ MPIre_size = 0 /\ cpt_read = 0 /\ got = <<>>

Start(q, n) ==
  /\ StartCapture(q)
  /\ size' = n
  /\ saved' = "no" /\ program' = <<>> /\ before' = {} /\ torn' = FALSE
  /\ UNCHANGED <<nprocs, files, replayVars>>

(* MUTANT: a file that is there already is left as it is. *)
OpenNprocs_keeps_old ==
  /\ phase = "open"
  /\ \/ /\ Exists(outpath) /\ Dir(outpath) \notin Locked
        /\ phase' = IF Dir(outpath) \in DOMAIN nprocs THEN "running" ELSE "write"
        /\ nprocs' = IF Dir(outpath) \in DOMAIN nprocs THEN nprocs
                     ELSE Put(nprocs, Dir(outpath), 0)
        /\ saved' = IF Dir(outpath) \in DOMAIN nprocs THEN "size" ELSE "empty"
        /\ before' = {f[2] : f \in {f \in DOMAIN files : f[1] = Dir(outpath)}}
     \/ /\ ~Exists(outpath) \/ Dir(outpath) \in Locked
        /\ phase' = "exited"
        /\ UNCHANGED <<nprocs, saved, before>>
  /\ UNCHANGED <<dirs, path, outpath, p, run, files, size, program, torn,
                 replayVars>>

(* MUTANT: the result of fopen is not looked at. *)
OpenNprocs_unchecked ==
  /\ phase = "open" /\ phase' = "write"
  /\ nprocs' = Put(nprocs, Dir(outpath), 0)
  /\ saved' = "empty"
  /\ before' = {f[2] : f \in {f \in DOMAIN files : f[1] = Dir(outpath)}}
  /\ UNCHANGED <<dirs, path, outpath, p, run, files, size, program, torn,
                 replayVars>>

(* fopen(nprocs, "w") truncates the file. *)
OpenNprocs ==
  /\ phase = "open"
  /\ \/ /\ Exists(outpath) /\ Dir(outpath) \notin Locked
        /\ phase' = "write"
        /\ nprocs' = Put(nprocs, Dir(outpath), 0)
        /\ saved' = "empty"
        /\ before' = {f[2] : f \in {f \in DOMAIN files : f[1] = Dir(outpath)}}
     \/ /\ ~Exists(outpath) \/ Dir(outpath) \in Locked
        /\ phase' = "exited"
        /\ UNCHANGED <<nprocs, saved, before>>
  /\ UNCHANGED <<dirs, path, outpath, p, run, files, size, program, torn,
                 replayVars>>

(* What fprintf printed reaches the file with fclose. *)
WriteNprocs ==
  /\ phase = "write"
  /\ phase' = "running"
  /\ nprocs' = [nprocs EXCEPT ![Dir(outpath)] = size]
  /\ saved' = "size"
  /\ UNCHANGED <<dirs, path, outpath, p, run, files, size, program, before,
                 torn, replayVars>>

(* The application makes call c. *)
Calling(c) ==
  /\ phase = "running" /\ Len(program) < MaxCalls
  /\ c.ranks <= size
  /\ program' = Append(program, c)

Call(c) ==
  /\ Calling(c)
  /\ write_in_file(c, Len(Dumped(c)))
  /\ UNCHANGED <<pathVars, nprocs, size, saved, before, torn, replayVars>>

(* Killed with a part of the elements written. *)
TornCall(c) ==
  /\ Calling(c)
  /\ \E k \in 0..(Len(Dumped(c)) - 1) : write_in_file(c, k)
  /\ torn' = TRUE /\ phase' = "stopped"
  /\ UNCHANGED <<dirs, path, outpath, p, run, nprocs, size, saved, before,
                 replayVars>>

(* The capture ends, or is killed between two steps. *)
Stop ==
  /\ phase \in {"mkpath", "open", "write", "running"}
  /\ phase' = "stopped" /\ p' = 0
  /\ UNCHANGED <<dirs, path, outpath, run, captureVars, replayVars>>

-----------------------------------------------------------------------------
(* MUTANT: a buffer shorter than the capture's. *)
StartReplay_short_buffer ==
  LET q == Cut(path, CapLen - 2) IN
  /\ phase \in {"stopped", "exited"}
  /\ \/ /\ path # <<>> /\ Dir(q) \in DOMAIN nprocs
        /\ phase' = "replay"
        /\ MPIre_size' = nprocs[Dir(q)]
     \/ /\ path = <<>> \/ Dir(q) \notin DOMAIN nprocs
        /\ phase' = "replay_exited"
        /\ UNCHANGED MPIre_size
  /\ UNCHANGED <<dirs, path, outpath, p, run, captureVars, cpt_read, got>>

(* The replay, with MPIRE_INPUT_PATH set to what MPIRE_OUTPUT_PATH was.    *)
(* Its buffer holds 1024 characters, which no path here exceeds.  An empty *)
(* nprocs leaves MPIre_size at its initial 0.                              *)
StartReplay ==
  /\ phase \in {"stopped", "exited"}
  /\ \/ /\ path # <<>> /\ Dir(path) \in DOMAIN nprocs
        /\ phase' = "replay"
        /\ MPIre_size' = nprocs[Dir(path)]
     \/ /\ path = <<>> \/ Dir(path) \notin DOMAIN nprocs
        /\ phase' = "replay_exited"
        /\ UNCHANGED MPIre_size
  /\ UNCHANGED <<dirs, path, outpath, p, run, captureVars, cpt_read, got>>

(* MUTANT: the whole file is loaded. *)
Loaded_whole_file(f, n) == files[f]

(* MPI_File_read of n elements; a short file or a negative count goes      *)
(* unnoticed.                                                              *)
Loaded(f, n) == Cut(files[f], n)

(* The next call of the application, whose file is there: Replay models    *)
(* the exit where one is missing.  For communicators smaller than the      *)
(* world the loop of MPI_Alltoallv runs past the end of recvcounts.        *)
ReplayCall ==
  LET c == program[cpt_read + 1]
      f == <<Dir(path), cpt_read>>
  IN
  /\ phase = "replay" /\ cpt_read < Len(program)
  /\ cpt_read' = cpt_read + 1
  /\ \E stray \in Ints : got' = Loaded(f, Count(c, MPIre_size, stray))
  /\ UNCHANGED <<pathVars, captureVars, MPIre_size>>

Next ==
  \/ \E q \in Paths, n \in Sizes : Start(q, n)
  \/ Mkdir /\ UNCHANGED <<captureVars, replayVars>>
  \/ \E d \in Others : OtherMkdir(d) /\ UNCHANGED <<captureVars, replayVars>>
  \/ OpenNprocs
  \/ WriteNprocs
  \/ \E c \in Calls : Call(c) \/ TornCall(c)
  \/ Stop
  \/ StartReplay
  \/ ReplayCall

Spec == Init /\ [][Next]_vars

-----------------------------------------------------------------------------
Element == (0..MaxRuns) \X (0..MaxCalls) \X Nat
TypeOK ==
  /\ dirs \subseteq {Root} \cup Locked \cup Others
                 \cup {Cut(q, i) : q \in Paths, i \in 0..CapLen}
  /\ phase \in {"none", "mkpath", "open", "write", "running", "stopped",
               "exited", "replay", "replay_exited"}
  /\ path \in Paths \cup {<<>>}
  /\ p \in 0..Len(outpath) /\ (phase = "mkpath" <=> p > 0)
  /\ run \in 0..MaxRuns
  /\ DOMAIN nprocs \subseteq dirs /\ Range(nprocs) \subseteq Sizes \cup {0}
  /\ \A f \in DOMAIN files : /\ f \in (DOMAIN nprocs) \X (0..(MaxCalls - 1))
                           /\ files[f] \in Seq(Element)
  /\ size \in Sizes \cup {0} /\ saved \in {"no", "empty", "size"}
  /\ program \in Seq(Calls) /\ Len(program) <= MaxCalls
  /\ before \subseteq 0..(MaxCalls - 1) /\ torn \in BOOLEAN
  /\ MPIre_size \in Sizes \cup {0}
  /\ cpt_read \in 0..Len(program) /\ got \in Seq(Element)

-----------------------------------------------------------------------------
(* The replay is behind the call c of number i, on the whole world or (for *)
(* MPI_Recv) on any communicator; c returned in the capture; its file was  *)
(* new then.                                                               *)
World(c) == c.op = "MPI_Recv" \/ c.ranks = size
Returned(i) == torn => i < cpt_write - 1
Fresh(i) == i \notin before
Replayed(i, c) == phase = "replay" /\ i = cpt_read - 1 /\ c = program[cpt_read]

(* What a replay loads is what the captured process had in the same places *)
(* of the same buffer after the same call: no element of an earlier        *)
(* capture in the same directory, although files are not truncated, none   *)
(* shifted by gaps between the blocks, none made up where the count        *)
(* overflows.  For a call that was killed, or on a smaller communicator,   *)
(* it takes a file that was new (write_in_file, read_in_file).             *)
LoadedIsCaptured ==
  \A i \in 0..(MaxCalls - 1), c \in Range(program) :
    Replayed(i, c) /\ ((World(c) /\ Returned(i)) \/ Fresh(i)) =>
      IsPrefix(got, Memory(run, i, c))

(* It loads all that was received, if the blocks have no gaps and the      *)
(* count fits in an int: recvcount*size and the sum of the recvcounts are  *)
(* computed alike on both sides, from two sources for the size.            *)
Restored ==
  \A i \in 0..(MaxCalls - 1), c \in Range(program) :
    /\ Replayed(i, c) /\ World(c) /\ Returned(i)
    /\ Received(c) = 1..Extent(c) /\ Extent(c) < Half
    => got = Memory(run, i, c)

(* It never writes behind the receive buffer, not even from the longer     *)
(* file of an earlier capture or after a torn write, unless the            *)
(* communicator is smaller than the world and the file is an old one.      *)
NoOverrun ==
  \A i \in 0..(MaxCalls - 1), c \in Range(program) :
    Replayed(i, c) /\ (World(c) \/ Fresh(i)) => Len(got) <= Extent(c)

(* "MPI_Comm_size will return the inital number of MPI ranks at capture    *)
(* time" (doc/mpire-tutorial.1.md:46-48), whatever was captured in the   *)
(* directory before, unless the capture died before it wrote nprocs.       *)
SizeRestored ==
  phase = "replay" /\ saved = "size" => MPIre_size = size

(* Capture and replay agree on the directory: where a capture opened its   *)
(* log, the replay of the same path does, if the path was not cut.         *)
ReplayOpens ==
  phase = "replay_exited" => saved = "no" \/ Len(path) > CapLen
=============================================================================
