--------------------------- MODULE CaptureReplay ----------------------------
(***************************************************************************)
(* A run under libmpire_capture and then replays of it under               *)
(* libmpire_replay, joined by what survives the first process: the log     *)
(* directory and the application itself.  The application is               *)
(* deterministic (README.md, Limitations), so a replay makes the calls of  *)
(* the captured run; hist remembers them, each with the state the call     *)
(* left, and Replay takes its program from there.                          *)
(*                                                                         *)
(* What is replayed is a region captured with MPIRE_ACTIVE_DUMP=1 from the *)
(* first log file on: a whole run, or the part of it between two calls of  *)
(* setenv.  Its harness gives the application the memory it had where the  *)
(* region starts.                                                          *)
(***************************************************************************)
EXTENDS Capture

CONSTANTS
  ReplayOutOfMemory,    \* may malloc fail in the replaying process?
  FortranBindingsCallC, \* see Replay
  MaxCalls,             \* bound: calls of a captured run
  MaxPasses             \* bound: times a region is replayed

ASSUME BoundsAssumption ==
  /\ MaxCalls \in Nat /\ MaxPasses \in Nat \ {0}
  /\ ReplayOutOfMemory \in BOOLEAN

VARIABLES
  hist,        \* the calls that returned, with the state each one left
  base,        \* where the replayed region starts: position in hist
  rphase, rmem, rtab, cpt_read, pos, passes, loaded   \* see Replay

Program == [i \in 1..Len(hist) |-> hist[i].call]

R == INSTANCE Replay WITH program <- Program, OutOfMemory <- ReplayOutOfMemory

rvars == <<rphase, rmem, rtab, cpt_read, pos, passes, loaded>>
allvars == <<vars, hist, base, rvars>>

-----------------------------------------------------------------------------
Call(op, buf, req, root) ==
  [op |-> op, buf |-> buf, req |-> req, root |-> root]

(* The pending receives among the request variables. *)
PostedIn(act) == [a \in {x \in Reqs : act[x] \in Bufs} |-> act[a]]

(* Only a call that returns is part of the run. *)
Returns(call) ==
  hist' = IF phase' # "running" THEN hist
          ELSE Append(hist, [call |-> call, mem |-> mem', cpt |-> cpt_write',
                             posted |-> PostedIn(active'), dump |-> dump'])

RecordedCollective ==
  \E b \in Bufs, c \in Comms :
    \/ MPI_Allreduce(b, c) /\ Returns(Call("MPI_Allreduce", b, NULL, NULL))
    \/ MPI_Alltoall(b, c) /\ Returns(Call("MPI_Alltoall", b, NULL, NULL))
    \/ MPI_Alltoallv(b, c) /\ Returns(Call("MPI_Alltoallv", b, NULL, NULL))
    \/ \E root \in Ranks :
         \/ MPI_Bcast(b, root, c) /\ Returns(Call("MPI_Bcast", b, NULL, root))
         \/ MPI_Reduce(b, root, c) /\ Returns(Call("MPI_Reduce", b, NULL, root))

RecordedCall ==
  /\ Len(hist) < MaxCalls
  /\ \/ MPI_Init /\ Returns(Call("MPI_Init", NULL, NULL, NULL))
     \/ \E a \in Reqs :
          \/ \E b \in Bufs, c \in Comms :
               MPI_Irecv(a, b, c) /\ Returns(Call("MPI_Irecv", b, a, NULL))
          \/ MPI_Isend(a) /\ Returns(Call("MPI_Isend", NULL, a, NULL))
          \/ MPI_Wait(a) /\ Returns(Call("MPI_Wait", NULL, a, NULL))
     \/ \E b \in Bufs, c \in Comms :
          MPI_Recv(b, c) /\ Returns(Call("MPI_Recv", b, NULL, NULL))
     \/ RecordedCollective
     \/ WaitallStep /\ Returns(Call("MPI_Waitall", NULL, Head(todo), NULL))
     \/ \E d \in {"0", "1"} :
          SetDump(d) /\ Returns(Call("setenv", NULL, NULL, NULL))

UnrecordedStep ==
  /\ \/ \E a \in Reqs : Deliver(a)
     \/ \E s \in Arrays : MPI_Waitall(s)
     \/ non_implemented_hook
     \/ MPI_Finalize
     \/ Crash
  /\ UNCHANGED hist

CaptureStep == (RecordedCall \/ UnrecordedStep) /\ UNCHANGED <<base, rvars>>

-----------------------------------------------------------------------------
(* A region may start where the dump is active and the log still empty. *)
CanStart(i) ==
  /\ hist[i].dump = "1" /\ hist[i].cpt = 0
  /\ i > 1 => hist[i - 1].dump = "0"

InRegion == pos < Len(hist) /\ hist[pos + 1].dump = "1"

StartReplay ==
  /\ phase \notin {"boot", "running"} /\ Captured(WORLD)
  /\ \E i \in 1..Len(hist) :
       CanStart(i) /\ base' = i /\ R!MPI_Init(i, hist[i].mem)
  /\ UNCHANGED <<vars, hist>>

ReplayCall == InRegion /\ R!Call /\ UNCHANGED <<vars, hist, base>>

RepeatRegion ==
  /\ ~InRegion
  /\ R!MPI_Init_again(base, hist[base].mem)
  /\ UNCHANGED <<vars, hist, base>>

FinishReplay ==
  /\ phase = "finalized"
  /\ R!MPI_Finalize
  /\ UNCHANGED <<vars, hist, base>>

ReplayStep == StartReplay \/ ReplayCall \/ RepeatRegion \/ FinishReplay

CRInit == Init /\ hist = <<>> /\ base = 0 /\ R!Off

CRNext == CaptureStep \/ ReplayStep

CRSpec == CRInit /\ [][CRNext]_allvars

-----------------------------------------------------------------------------
(* Types of the variables this module adds. *)
CRTypeOK ==
  /\ TypeOK
  /\ \A i \in 1..Len(hist) :
       /\ hist[i].mem \in [Bufs -> Payload]
       /\ DOMAIN hist[i].posted \subseteq Reqs
       /\ \A a \in DOMAIN hist[i].posted : hist[i].posted[a] \in Bufs
       /\ hist[i].cpt \in Nat
       /\ hist[i].dump \in {"unset", "0", "1"}
  /\ base \in 0..Len(hist) /\ pos \in 0..Len(hist)
  /\ rphase \in {"off", "running", "exited", "done"}
  /\ rmem \in [Bufs -> Payload]
  /\ DOMAIN rtab \subseteq Reqs /\ rtab \in [DOMAIN rtab -> Bufs]
  /\ cpt_read \in Nat /\ passes \in 0..MaxPasses

(* No receive is pending where the region starts, nor, if it is repeated,  *)
(* where it ended.                                                         *)
IsEnd(i) == i = Len(hist) \/ hist[i + 1].dump # "1"

EdgesClear ==
  /\ DOMAIN hist[base].posted = {}
  /\ passes > 1 => \A i \in base..Len(hist) :
       IsEnd(i) /\ (\A j \in base..i : hist[j].dump = "1") =>
         DOMAIN hist[i].posted = {}

(* Does MPI own the buffer b after call i of the captured run? *)
Owned(b, i) == \E a \in DOMAIN hist[i].posted : hist[i].posted[a] = b

(* After each call it has replayed, the application has in its buffers     *)
(* what it had after the same call of the captured run, a buffer of a      *)
(* pending receive excepted, and no wrapper has given up on the way.       *)
ReplayFaithful ==
  (rphase # "off" /\ EdgesClear) =>
    /\ rphase # "exited"
    /\ \A b \in Bufs : ~Owned(b, pos) => rmem[b] = hist[pos].mem[b]

(* Why it is so: after each call the two libraries are at the same file    *)
(* and have the same receives on their books.                              *)
InStep ==
  (rphase = "running" /\ EdgesClear) =>
    /\ cpt_read = hist[pos].cpt
    /\ rtab = hist[pos].posted

(* The abstract promise: what a replay has loaded since it (re)started the *)
(* region is what the captured process received first, in that order.  A   *)
(* file the capture could not open is never skipped: the replay exits      *)
(* there.  A receive whose entry the replay had no memory for loads        *)
(* nothing, and the next one gets its file.                                *)
(* Receives pending where the region starts do not matter (the replay      *)
(* skips what completes them), those pending at its end do: their entries  *)
(* survive MPI_Init and may load a file in the next pass, so a harness     *)
(* must not repeat such a region.                                          *)
TidyNext ==
  \/ CaptureStep \/ StartReplay \/ ReplayCall \/ FinishReplay
  \/ rtab = EmptyTable /\ RepeatRegion

TidySpec == CRInit /\ [][TidyNext]_allvars

Abstract == INSTANCE RecordReplay WITH recorded <- inbound, played <- loaded

ReplaysTheRecord == Abstract!Spec

(* A replay comes to an end: no call waits for another process.            *)
ReplayFairSpec == CRSpec /\ WF_allvars(ReplayStep)

ReplayEnds ==
  rphase = "running" ~> \/ rphase \in {"exited", "done"}
                        \/ ~InRegion /\ passes = MaxPasses
=============================================================================
