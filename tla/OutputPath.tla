----------------------------- MODULE OutputPath -----------------------------
(***************************************************************************)
(* How a capture gets its log directory: MPIRE_OUTPUT_PATH is cut to the   *)
(* size of MPIre_output_path, and mkpath creates the directories on it one *)
(* mkdir at a time (src/src/mpire/mpire_capture.c).  Captures run one      *)
(* after another; other processes, captures of other ranks among them,     *)
(* create directories in between.  What init_MPIre does after mkpath is in *)
(* module LogDirectory.                                                    *)
(*                                                                         *)
(* A path is a sequence in which names and slashes alternate; the          *)
(* directory it leads to is the path without a slash at its end.           *)
(***************************************************************************)
EXTENDS Integers, SequencesExt

CONSTANTS
  Paths,          \* values of MPIRE_OUTPUT_PATH, and MPIRE_INPUT_PATH
  CapLen,         \* what fits in MPIre_output_path
  Locked,         \* directories in which nothing can be created
  Others,         \* directories other processes may create
  MaxRuns         \* bound: captures

Slash == "/"

ASSUME PathAssumption ==
  /\ Paths \subseteq Seq(UNION {Range(q) : q \in Paths})
  /\ \A q \in Paths : \A i \in 1..(Len(q) - 1) : q[i] = Slash <=> q[i + 1] # Slash
  /\ CapLen \in Nat /\ MaxRuns \in Nat

VARIABLES
  dirs,           \* directories that exist
  phase,          \* "none", "mkpath", "open", "write", "running", "stopped",
                  \* "exited" (on an error), or a phase of the replay
  path,           \* MPIRE_OUTPUT_PATH of the last capture
  outpath,        \* MPIre_output_path
  p,              \* the slash in outpath mkpath is at
  run             \* captures so far

pathVars == <<dirs, phase, path, outpath, p, run>>

Cut(s, n) == SubSeq(s, 1, Min({n, Len(s)}))

Root == <<>>                    \* where paths start, relative or absolute
Dir(q) == IF q # <<>> /\ Last(q) = Slash THEN Front(q) ELSE q
Parent(d) == IF Len(d) > 2 THEN SubSeq(d, 1, Len(d) - 2) ELSE Root

(* stat and fopen: the empty path leads nowhere. *)
Exists(q) == q # <<>> /\ Dir(q) \in dirs
Creatable(d) == Parent(d) \in dirs \ Locked

PathInit ==
  /\ dirs = {Root} \cup Locked
  /\ phase = "none" /\ path = <<>> /\ outpath = <<>> /\ p = 0 /\ run = 0

-----------------------------------------------------------------------------
(* The loop of mkpath over the slashes of q but one in front: it goes on   *)
(* behind position i, or mkpath returns.                                   *)
NextSlash(q, i) ==
  LET later == {j \in 2..Len(q) : q[j] = Slash /\ j > i}
  IN  IF later = {} THEN phase' = "open" /\ p' = 0
                    ELSE phase' = "mkpath" /\ p' = Min(later)

(* init_MPIre up to the call of mkpath, which asserts that the path is not *)
(* empty.                                                                  *)
StartCapture(q) ==
  /\ phase \in {"none", "stopped", "exited"} /\ run < MaxRuns
  /\ run' = run + 1
  /\ path' = q
  /\ outpath' = Cut(q, CapLen)
  /\ \/ /\ Exists(outpath')
        /\ phase' = "open" /\ p' = 0
     \/ /\ ~Exists(outpath') /\ outpath' = <<>>
        /\ phase' = "exited" /\ p' = 0
     \/ /\ ~Exists(outpath') /\ outpath' # <<>>
        /\ NextSlash(outpath', 0)
  /\ UNCHANGED dirs

(* MUTANT: a directory that exists is an error like any other. *)
Mkdir_EEXIST_fails ==
  LET d == SubSeq(outpath, 1, p - 1) IN
  /\ phase = "mkpath"
  /\ \/ /\ d \notin dirs /\ Creatable(d)
        /\ dirs' = dirs \cup {d}
        /\ NextSlash(outpath, p)
     \/ /\ d \in dirs \/ ~Creatable(d)
        /\ phase' = "open" /\ p' = 0
        /\ UNCHANGED dirs
  /\ UNCHANGED <<path, outpath, run>>

(* One mkdir.  EEXIST is passed over; with any other error mkpath returns  *)
(* -1, which init_MPIre ignores.                                           *)
Mkdir ==
  LET d == SubSeq(outpath, 1, p - 1) IN
  /\ phase = "mkpath"
  /\ \/ /\ d \notin dirs /\ Creatable(d)
        /\ dirs' = dirs \cup {d}
        /\ NextSlash(outpath, p)
     \/ /\ d \in dirs
        /\ NextSlash(outpath, p)
        /\ UNCHANGED dirs
     \/ /\ d \notin dirs /\ ~Creatable(d)
        /\ phase' = "open" /\ p' = 0
        /\ UNCHANGED dirs
  /\ UNCHANGED <<path, outpath, run>>

(* Another process creates a directory while mkpath is at work. *)
OtherMkdir(d) ==
  /\ phase = "mkpath"
  /\ d \notin dirs /\ Creatable(d)
  /\ dirs' = dirs \cup {d}
  /\ UNCHANGED <<phase, path, outpath, p, run>>

-----------------------------------------------------------------------------
(* A directory on the path, or Root, in which nothing can be created. *)
Blocked == \E i \in 0..Len(outpath) : Dir(SubSeq(outpath, 1, i)) \in Locked

(* A capture whose path ends with a slash gets its directory, whoever else *)
(* creates parts of it at the same time: the only thing that stops it is a *)
(* directory it may not create anything in.  (mkpath lets EEXIST pass; its *)
(* result is not looked at, so the open of nprocs decides.)                *)
SlashedPathsOpen ==
  phase = "exited" /\ outpath # <<>> => Last(outpath) # Slash \/ Blocked

(* "Create output directory file_path" (mpire_capture.c:18): a capture     *)
(* stops only where the directory cannot be created.                       *)
DirectoryCreated ==
  phase = "exited" /\ outpath # <<>> => Blocked
=============================================================================
