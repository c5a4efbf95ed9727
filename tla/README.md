# MPIre: a verification project

MPIre captures one rank of an MPI application and replays it alone.  During the
capture `libmpire_capture` is preloaded into every process of the job; in the
process whose rank is `MPIRE_RANK` it dumps every buffer that MPI hands to the
application into numbered log files.  During a replay `libmpire_replay` is
preloaded into a single process, which makes the same calls and gets the same
buffers from the files.  The promise of the program is in the first paragraph of
its README: the capture "intercepts and saves all the inbound communication for
the desired rank", and the replay "replaces the standard MPI calls with reads to
the logs".  Everything here is about that promise: what it needs, where it
holds, and where it does not.

Source paths below are relative to `src/src/` (`mpire/...`, `ccan/...`).

## 1. Inventory

| component | state | operations | talks to |
|---|---|---|---|
| request table, `mpire/mpire.h` | `requestHtab`: address of a request variable -> buffer, count, datatype | `add_request` (exits on a duplicate), `get_request`, `del_request` | ccan htable |
| capture library, `mpire/mpire_capture.c` | `cpt_write`, `MPIre_rank`, output path, the table | `MPI_Init`/`init_MPIre`, `MPI_Irecv`, `MPI_Recv`, `MPI_Wait`, `MPI_Waitall`, five collectives, `MPI_Finalize`, the hooks that abort; each for C and Fortran | MPI (`PMPI_*`), log directory, environment |
| replay library, `mpire/mpire_replay.c` | `cpt_read`, `MPIre_rank`, `MPIre_size`, input path, the table | the same calls answered from the log, `MPI_Init` called again, stubs that return success (sends, barriers, ...) | log directory, environment |
| log directory | files `0`, `1`, ..., `nprocs` | created, written, read; never emptied | both libraries |
| environment variable `MPIRE_ACTIVE_DUMP` | unset, `0`, `1` | set by the user, by `init_MPIre`, by the application or a harness at any time; read at every dump | capture library |
| hash table, `ccan/htable` | bucket array, tag bits in pointers, deleted markers | add, get, delete, grow, rehash | request table |
| hash functions, `ccan/hash` | none | `hash_pointer` | request table |
| output path, `mkpath` and `init_MPIre` | path buffer, directories, `nprocs` | create directories, save the number of ranks | file system, other processes |
| application and harness (external) | buffers, request variables | any legal sequence of MPI calls, `setenv` | the libraries |
| MPI library (external) | pending requests | delivers messages, completes requests | the libraries |

Correctness, component by component:

* **Request table**: a pending receive has an entry with its own buffer, until
  the call that completes it; no entry of another receive is taken for it.
* **Capture**: the log is what the process received while the dump was active,
  in the order the calls returned it; numbers are used once; processes other
  than the captured one are undisturbed; a failure is reported, not skipped.
* **Replay**: each call leaves in the application's buffers what the captured
  call left; both libraries are at the same file after the same call; a replay
  never waits for anybody.
* **Hash table**: it is a function from keys to entries whatever the hash values
  and addresses, and every search ends.
* **Output path and log files**: capture and replay agree on the directory, and it
  gets created; what is loaded is what was dumped by the same call of the same
  run, element by element, inside the buffer.
* **Hash functions**: the value depends on the bytes of the key alone, whatever
  their alignment, and on all of them.

The hard behaviour is in the ordering.  A nonblocking receive is a file of the
log at the moment it is *completed*, its buffer fills at any time before, the
dump may be switched in between, the process may be killed at any point, and the
replay recomputes all of it from the application's calls: one call that loads a
file where the capture wrote none shifts the rest of the run.  `PROJECT.json`
lists these places under `hazards`.

## 2. Modules

```
Requests            the table of pending receives, as operators on functions
  Capture           one process under libmpire_capture        (core)
    CaptureProofs   theorems about Capture
    CaptureReplay   a captured run and replays of it; INSTANCE Replay, RecordReplay
      CaptureReplayProofs   theorems about CaptureReplay (uses CaptureProofs)
  Replay            the replaying process
RecordReplay        abstract specification: record payloads, play them in order
OutputPath          MPIRE_OUTPUT_PATH, mkpath, other processes' mkdir
  LogDirectory      nprocs, files of elements, several captures and a replay
    LogDirectoryProofs      theorems about the path, the directory and nprocs
      LogContentsProofs     theorems about what is in the log files
Htable              ccan's hash table, which implements the function of Requests
  HtableLemmas      powers of two, distances round a table, loops
    HtableProofs    theorems about Htable
Hash                ccan's hash functions, up to their mixing
  HashProofs        theorems about Hash
MCCapture, MCCaptureReplay, MCLogDirectory, MCHtable      instances for TLC
```

### Requests

`requestHtab` is a function from addresses of request variables to buffers.
Count and datatype always travel with the buffer and are left out, and so is
`bufsize`.  `add_request` is the set of tables the insertion may leave: with
`OutOfMemory` the old one is among them, since nobody looks at the result of
`htable_add`.  `IsDuplicate` and `NoEntry` are the two ways in which the function ends
the process, by `exit` for an address that has an entry and by a null pointer when
`malloc` fails; they guard disjuncts of the actions that call it.  `del_request`
cannot fail in its callers, which delete what they just found.

### Capture

One process, single threaded: a wrapper is one action, except `MPI_Waitall`,
whose loop is one action (`WaitallStep`) per request with the rest of the
request array in `todo`.  Between actions messages arrive (`Deliver`) and the
process may be killed (`Crash`, which may leave a torn file `cpt_write`).

| TLA+ | code |
|---|---|
| `phase` | life of the process: `running`, `finalized`, and four ways to die: `exited` (`exit(EXIT_FAILURE)`), `aborted` (a hook), `fault` (null or wild pointer), `crashed` (killed) |
| `dump` | `MPIRE_ACTIVE_DUMP` as `getenv` sees it |
| `requestHtab`, `cpt_write`, `files` | the variables of the same name; the log directory |
| `mem` | content of the receive buffers, one value per buffer |
| `active`, `arrived` | what MPI knows: the receive or send pending in a request variable, and whether its message is in the buffer |
| `inbound` | history: what the application received, while the dump was active, as the rank to capture: its rank in the world or, for a call of its own on a communicator, in that one |
| `Captured(c)` | `MPI_Comm_rank(c, &rank); rank == MPIre_rank` |
| `write_in_file` | the function, including the null pointer when the variable is unset and the open that fails unnoticed (line 47) |
| `Finish(a, key)` | lookup, dump and deletion after a completion |
| `WaitallKey` | line 296 looks up the handle, line 331 the address |

`inbound` is appended by what MPI does (`Received`), never by what the wrapper
decides, so a wrapper that misses a call is visible as a difference between
`inbound` and `files`.

The application is arbitrary but legal MPI: it does not touch the buffer of a
pending receive, does not post on a request variable that is in use, and
finalizes with nothing pending.  Payloads are opaque here; elements, counts and
displacements are the subject of `LogDirectory`.

The library also assumes, and so does the model, that a buffer pointer is not
null and that a Fortran program does not wait again on a request variable that
is already complete (`mpi_wait_` leaves the old handle in it).

### Replay

The run to be repeated is a parameter, `program`: the sequence of its calls.
Each wrapper is an action that is enabled when the program is at a call of its
name (`At`), and moves `pos` on.  An iteration of `MPI_Waitall` counts as one
call.  `read_in_file` uses the number up whether or not the file opens and exits
when it does not.  `MPI_Init_again` is `MPI_Init` with MPI up already: the file
number restarts, the table does not.  The functions that only return
`MPI_SUCCESS` change nothing the model keeps; `MPI_Isend` represents them.
`ReduceIntercepted` says whether a Fortran reduction reaches a wrapper at all:
the Fortran one is called `mpi_reduce`, without underscore (line 1003), so it
depends on the MPI library's own binding calling the C function.  The first
`MPI_Init` is modelled in an environment that names the rank and the directory.

### CaptureReplay

Extends `Capture` and instantiates `Replay` with the calls of the captured run.
The history variable `hist` records each call that returned, with the buffers,
the pending receives, `cpt_write` and `dump` it left.  A replay may start once
the captured process is gone (finalized, exited or killed) at any point where the
dump is active and the log still empty: right after `MPI_Init`, or where `setenv`
first opened the region.  Its harness restores the buffers of that point.  The
replay goes on while the captured run had the dump active, and may be repeated
(`RepeatRegion`).  The application is deterministic, as MPIre's README demands:
the replayed calls are those of the captured run.

`EdgesClear` is the condition under which a region can be replayed at all: no
receive pending where it starts, nor, if it is repeated, where it ends.  Without
it the property fails, as it must: a receive posted before the region has no
entry in the replaying process, and one left by the first pass keeps its entry
through `MPI_Init` (line 86 resets `cpt_read` only), so that a `Wait` of the
second pass loads a file that belongs to a later call.  `TidySpec` restricts only
the latter, by the harness not repeating a region that left entries.

### RecordReplay

What capture and replay promise together: a sequence grows by what is received,
and replays hand it out from its beginning, in order, none skipped or changed.
The refinement mapping is `recorded <- inbound`, `played <- loaded`.

### Htable

The table one level down, as `ccan/htable/htable.c` stores it: an array of machine
words with linear probing, markers for deleted entries, doubling when three
quarters are used and rehashing in place when nine tenths are used or marked.
Bits that are equal in all pointers are not stored; their places hold bits of the
hash value, and one of them says that the entry is in its home bucket.  A word is
the set of positions of its one bits, so the masks of the code are plain set
operations, and the loops of the code are folds over the buckets in the same
order.  `hash` is an arbitrary function from entries to hash values, chosen in
`Init`: nothing is assumed of `hash_pointer`.  The actions are those of the
users: `Add` an entry that was looked up and not found, `Delete` one that was
found, `htable_clear`.  `added` is a history variable, the set the table stands
for, and `LookupsExact` relates the two; with the address of the request variable
as the key this is the function `requestHtab` of `Requests`.  The debug printing
is the only user of `htable_first` and `htable_next`, which change nothing.

### OutputPath

A path is a sequence of names and slashes; `Dir` forgets a slash at its end, as
`stat` and `fopen` do.  `StartCapture` is `init_MPIre` up to the call of `mkpath`:
the path is cut to the buffer (`CapLen` tokens for its 128 characters), `stat`
decides whether `mkpath` is called at all, and an empty path fails its assertion.
`Mkdir` is one iteration of the loop, with `p` at the slash the C variable points to:
the directory is created, or is there already (`EEXIST`), or `mkpath` gives up,
which `init_MPIre` does not notice.  `OtherMkdir` is another process, such as the
capture of another rank, that creates a directory between two of these steps.
`Locked` are directories without write permission.

### LogDirectory

Extends `OutputPath` by what goes into the directory.  Captures run one after
another over one file system, each with its own path and size of the world; then one
replay follows, with `MPIRE_INPUT_PATH` set to the path of the last capture.

| TLA+ | code |
|---|---|
| `OpenNprocs`, `WriteNprocs` | `fopen` (which truncates, or exits) and `fprintf`/`fclose` of `nprocs`; the process may be killed between the two |
| `files` | `<<directory, number>>` -> elements; a dump overwrites the front of the file and leaves the rest (`MPI_MODE_CREATE \| MPI_MODE_RDWR`) |
| `Count(c, ranks, stray)` | the count a wrapper computes, in `Width` bits, from the size it takes the communicator for: its own in the capture, `MPIre_size` in the replay; `stray` is what the replay's loop reads behind the array of counts when the communicator is smaller |
| `Dumped(c)` | the first `Count` elements of the receive buffer, gaps between the blocks included; a negative count writes nothing |
| `Loaded(f, n)` | `MPI_File_read`, short files unnoticed |
| `TornCall`, `Stop` | killed inside a write, or between two steps |

An element is `<<run, call, position>>`, or `<<0, call, position>>` in a gap the call
received nothing in, so that an element of another run, of another call or at
another place shows.  Only calls of the captured process that return, or during
which it is killed, are replayed; what a replay does beyond them is the subject of
`CaptureReplay`.

### Hash

One call of one of the functions, one action per iteration of the loop and per case
of the switch, so that falling through is a step.  `Routine` is the version of the
code that the function, the alignment of the key and the byte order select; it is a
record of what its loop and its cases add and which of them end in a `break`.  `mix`
and `final` are not interpreted: a hash value is the sequence of what was added
between two mixes, as a bag.  MPIre itself uses only `hash_pointer`, which is
`hash_u32` on the words of a pointer; the other functions are modelled as the library
that the repository carries.  The table of `Htable` works for any hash value.

## 3. Properties and runs

Deadlock checking is off in the configurations of `Capture` and `CaptureReplay`: a
process that finalized, exited or was killed, and a replay that is over, have
nothing left to do; likewise for `LogDirectory` and for `Hash`, whose call returns.
It is on for `Htable`, which can always be cleared.

| run | instance | shows |
|---|---|---|
| `capture_fortran` | 3 request variables, 3 buffers, 2 communicators, up to 2 leftover files, logs of 4 | `AllInboundSaved`, `RequestTableExact`, `WriteOnce`, `TypeOK` with receives completed in any order, in the middle of `Waitall`, the dump switched at any point, kills |
| `capture_bystander` | Fortran, all wrapped calls; this process is the captured rank in a sub-communicator, and in the world it is not | `BystanderUntouched`: no entry, and each number and file is for a payload received on that communicator with the dump set, none for one received on the world; the run reaches the table that was never initialised, the null `getenv` and `mpi_alltoallv_`'s wild pointer |
| `capture_leftovers` | C, with `Waitall`; opens and allocations may fail | `PendingIsTabled`, `WriteOnce` although entries of completed receives stay in the table |
| `replay_c` | C, all wrapped calls, 5 calls, logs of 4 | `AllInboundSaved`, `ReplayFaithful`, `InStep` |
| `replay_region` | Fortran, `Wait`/`Waitall`, region switched by `setenv`, 2 passes, a leftover file, weak fairness | `ReplayFaithful`, `ReplayEnds`, `CRTypeOK` |
| `replay_record` | Fortran, sends, reductions that are not intercepted, regions with receives pending at the edge, opens that fail at capture in a directory that was empty, allocations that fail at replay, 5 calls, 2 passes | `ReplaysTheRecord`, the refinement: the replay exits at the first missing file |
| `c_waitall` | C with `Waitall` | violates `AllInboundSaved` |
| `open_failure` | C, opens may fail | violates `OpenFailureStops` |
| `htable` | words of 5 bits, 4 entries of one heap, 3 hash values in every assignment, tables of up to 8 buckets, allocations that fail | `EntriesShow`, `BucketLeft`, `LookupsExact`, `TypeOK` |
| `log_directory` | 2 captures of 2 calls over 6 paths, worlds of 2 and 3 ranks, `int`s of 3 bits, kills, concurrent `mkdir` | `LoadedIsCaptured`, `Restored`, `NoOverrun`, `SizeRestored`, `ReplayOpens`, `SlashedPathsOpen`, `TypeOK` |
| `output_path` | the same, 1 call | violates `DirectoryCreated` |
| `hash` | every function, alignment and byte order, keys of 0 to 26 elements | `AlignmentIndependent`, `OnlyTheKey`, `KeyInTerm`, `TypeOK` |

Reading the main ones:

* `AllInboundSaved`: files `0 .. cpt_write-1` are `inbound`, element by element.
  It is an invariant, so it also holds of the directory a killed process leaves.
* `RequestTableExact`: the table's domain is the set of pending receives and each
  entry names its own buffer.  `PendingIsTabled` is the half of it that survives
  the mistake in `MPI_Waitall`: stale entries may exist, but `add_request` exits
  before one could stand for a new receive.
* `ReplayFaithful`: after each replayed call the buffers MPI does not own are
  equal to those after the same captured call.  `InStep` is the reason: file
  numbers and tables agree after each call.
* `ReplaysTheRecord`: a replay never invents, skips or reorders what it *loads*.  The
  run has receives pending at the edges, reductions that escape, torn files, numbers
  without a file and receives without an entry.  Its directory was empty before: over
  a leftover file a failed open is not seen by the replay either (see the limits
  below).  Leftover files are in run `replay_region`, intercepted reductions in
  `replay_c`; the theorem covers all of them.  A region that left entries in the table
  is not repeated (`TidySpec`).
* `BystanderUntouched`: the history `inbound` of a process other than the captured one
  has what it received, with the dump set, on communicators that give it the captured
  rank.  Its numbers and files are these payloads and no other, so that a call on any
  other communicator writes nothing.  An application that never uses such a
  communicator writes nothing at all; that a process that has none does not fault
  either is a theorem (`OutsidersUndisturbed`).
* `LookupsExact`: whatever was added and deleted before, a search finds the entries
  that are in the table and no other, through growth, rehashing, pointers that
  take bits away from the hash bits of all entries, and buckets used again.
  `BucketLeft` is why the search ends, `EntriesShow` why no entry is mistaken for
  an empty bucket or a marker.

* `LoadedIsCaptured` is the weakest promise one wants of a log: whatever else goes
  wrong, an element that is loaded is the one the captured process had at that place
  after that call.  It needs the communicator to be the world and the call to have
  returned, or else a file that was new.  `Restored` says that everything that was
  received is loaded, where blocks have no gaps and the count fits in an `int`.
  `NoOverrun` says that a load ends inside the receive buffer, also for torn files.
  Each condition is needed: without it TLC finds the violation (see the limits
  below).
* `SlashedPathsOpen`: the passing counterpart of the finding about `mkpath`; a
  path that ends with a slash works in spite of other processes' `mkdir`.
* `AlignmentIndependent` compares the four unrolled versions with a definition of
  the hash by blocks; `KeyInTerm` says that the key can be read off what was mixed.

**Bounds.**  `MaxLogged` stops new calls when the log or the history has that
many payloads, `MaxCalls` bounds the captured run, `MaxPasses` the replays,
`MaxStale` the leftover files (none in `replay_record`).  Two request variables suffice for completions out
of posting order and for re-posting on a variable while the other is pending
(three in `capture_fortran`, so that a `Waitall` may take a proper part of the
pending requests in another order).  Two payloads suffice to tell buffers apart,
since no wrapper inspects a payload.  A log of 3 or 4 files lets a skipped or
doubled number be followed by a call that suffers from it.  Five calls hold
`MPI_Init`, two overlapping receives and their two completions in either order;
with `setenv` in the run they hold a region around one complete receive.  Leftover
files up to number 1 lie both under and beyond the numbers a run uses.  Buffers,
request variables and payloads are interchangeable, hence the symmetry; the run
with a liveness property does without it.

For `Htable`, four entries make the table grow from one bucket to eight; the three
hash values have neighbouring home buckets, so that probe sequences overlap and
wrap round the end, which is what rehashing in place can get wrong; five bits leave
room for a common bit, differing bits, the highest bit and the lowest one, which is
zero in every address `malloc` returns.  The entries of run `htable` share their
highest bit, for the reason given under the limits below.

For `LogDirectory`, two captures are needed for a file to be reused and a path or a
world size to change in between; two calls for a file number above 0.  Integers from
-4 to 3 let `recvcount*size` and a sum of counts overflow to a negative number and, with
three ranks, to a small positive one.  The paths end with a slash, do not, are absolute,
empty, cut to the directory of another path, or lead into a locked directory.  Keys of
26 elements pass twice through the longest loop before every case of every switch.

**Fairness.**  Only `ReplayEnds` uses any: weak fairness of the replaying
process's steps.  That process is single threaded, its wrappers call no MPI
function that waits for another process (`MPI_File_open` is on `MPI_COMM_SELF`),
and an operating system schedules it.  Nothing is assumed of the captured job,
which may hang or be killed.

## 4. Findings

* **`MPI_Waitall` in C saves nothing** (`mpire_capture.c:296`).  Entries are filed
  under the address of the request variable; the C wrapper looks up the handle,
  which by then is `MPI_REQUEST_NULL`.  The receives are missing from the log, and
  the next `MPI_Irecv` on the same variable exits with "this request is already in
  the htable".  The Fortran wrapper and both replay wrappers use the address.
* **A failed open is not noticed** (`mpire_capture.c:47`): MPI error classes are
  positive, the test is `fp < 0`.
* **`mkpath` leaves out the last directory** (`mpire_capture.c:22`) of a path without
  a slash at its end, such as the one in the tutorial: only components that a slash
  follows are created, and the capture exits when it cannot open `nprocs`.

Limits that are not findings of a run:

* The wrappers compare `MPIRE_RANK` with the rank in the communicator of the call
  (`mpire_capture.c:172` and the like), the waits with the rank in `MPI_COMM_WORLD`.
  On a communicator that ranks the captured process differently its receives are
  missed, and `AllInboundSaved` is violated; this is what the theorems exclude with
  `AddressedWaits`.
* `add_request` ignores the results of `malloc` and `htable_add` (`mpire.h:70`, `77`).
  With `OutOfMemory` in the capture a receive may be posted without an entry, which no
  call then dumps: `AllInboundSaved` is violated.
* A failed open over a file that an earlier run left: the capture goes on, and the
  replay, which exits at a missing file, loads the old one.  `ReplaysTheRecord` is
  violated with leftover files and failing opens in one instance.
* A receive pending where a region starts has no entry in the replaying process, and one
  left by a pass keeps its entry in the next (`mpire_replay.c:86`): `ReplayFaithful`
  is violated without `EdgesClear`, `ReplaysTheRecord` under `CRSpec` in place of
  `TidySpec`.
* A process that has the captured rank in a sub-communicator only logs its own calls
  there, in the directory `/`, since it has no output path, or faults (`capture_bystander`).
* A capture killed between the `fopen` and the `fclose` of `nprocs` leaves it empty, and
  the replay's world has size 0 (`mpire_capture.c:101`); `SizeRestored` is about captures
  that wrote it.
* `MPI_Alltoallv` ignores `rdispls`: with gaps between the blocks the last elements are
  neither dumped nor loaded (`Restored` without its first condition).
* On a communicator smaller than the world the replay counts with the size of the
  world, and `MPI_Alltoallv` adds up entries behind the array of counts.  The file is
  what bounds the load, so over the longer file of an earlier capture it runs past
  the receive buffer (`NoOverrun` without its condition).
* A count past the range of `int` is wrong on both sides alike: the file is empty or
  short (`Restored` without `Extent(c) < Half`).
* Completions that have neither a wrapper nor a hook (`MPI_Test`, `MPI_Testall`,
  `MPI_Waitany`, `MPI_Waitsome`, `mpire_capture.c:463-559`) pass through unlogged.
* `mpi_reduce` lacks its underscore (`mpire_replay.c:1003`).  It does not matter with
  an MPI library whose Fortran binding ends in the C `MPI_Reduce`; with any other the
  replay loses step at the first Fortran reduction (`replay_record` has that case:
  the files are still loaded in order).
* An entry of the hash table can look empty (`ccan/htable/htable.c:204`).  The first
  pointer keeps its highest bit out of the shared bits, so that its word is never 0 or
  1.  A second pointer that equals the first without that bit differs from it in
  nothing that is compared, and with zero hash bits its word is 0 or 1.  It takes
  entries from two mappings, as 0x5555... and 0x1555...; with such addresses
  `EntriesShow` is violated.
* `hash_stable_16`, `_32` and `_64` (`ccan/hash/hash.c:577`, `613`, `644`) drop the last
  block of a key that fills it: the loop leaves it to a switch without a case for it.
  `KeyInTerm` excludes these lengths.  MPIre does not call them.

## 5. Proofs

`CaptureProofs` proves, for every number of buffers, request variables,
communicators and payloads and every bound:

| theorem | statement | assumes |
|---|---|---|
| `TypeCorrect` | `Spec => []TypeOK` | - |
| `LogWrittenOnce` | `Spec => WriteOnce` | - |
| `ReceivesTabled` | `Spec => []PendingIsTabled` | - |
| `TableExact` | `Spec => []RequestTableExact` | `AddressedWaits`, `~OutOfMemory` |
| `InboundSaved` | `Spec => []AllInboundSaved` | `AddressedWaits`, `~OutOfMemory`, every open succeeds |
| `BystandersUntouched` | `Spec => []BystanderUntouched` | - |
| `OutsidersUndisturbed` | no fault, number, file or entry in a process that no communicator gives the captured rank | `NoWildCounts`: no Fortran `MPI_Alltoallv` |

All rest on `ConstantsAssumption`, in `Capture`, which TLC evaluates in the runs,
as it does the other assumptions named below.
`AddressedWaits` says that all communicators give this process the captured rank
and that the program is not a C program with `MPI_Waitall`; the findings show
that neither half, nor the success of opens, can be dropped, and the limits say the
same of the success of allocations.

The argument. A step leaves the directory alone or puts one file at `cpt_write` and uses
the number up, a kill excepted (`Numbered`): that is `WriteOnce`. For the table,
`PendingIsTabled` speaks of what `get_request` returns and only where all communicators
give the process the captured rank. Under that condition `Tabled` is inductive, together
with `NothingPosted` (nothing is pending before `MPI_Init`, which empties the table): an
entry found for a pending receive has its buffer, and one is found unless memory ran
out. It survives entries of completed receives because `add_request` exits on a
duplicate, and the loop of the C `MPI_Waitall` because it deletes only under
`REQUEST_NULL`, which is no address. `RequestTableExact` needs in addition that no entry
is left (`NoneLeft`) and that the C loop never runs (`NoLoopInC`).

With properly addressed waits, or in a process whose waits dump nothing, a step does one
of three things to the log (`StepLogs`, `AddressedStepLogs`): it leaves it alone
(`LogKept`), it uses one number up for the payload that is received in the same step,
with or without the file (`LogGrown`), or it is a kill that tears the file at
`cpt_write` (`LogTorn`). So when the waits are addressed properly and no entry is lost,
each payload received under the dump uses one number (`Counted`, whether or not opens
succeed), because the buffer found is the buffer received in; with successful opens the
file holds it, which is `AllInboundSaved`. If opens may fail, `LogTrue` is what is left
of it: a file that is there below `cpt_write` holds the payload of its number. That
needs `GapsStay`, opens that succeed or a directory that was empty, since a number whose
open failed must have no file; `NoneAhead` (nothing stands at `cpt_write` or beyond) is
the reason in the second case. `BystanderUntouched` is inductive in two parts: the
table of a process that is not the captured one stays empty (`BystanderTable`), and its
numbers and files are its `inbound` (`BystanderLog`), which stays empty where no
communicator gives it the captured rank (`Undisturbed`).

`CaptureReplayProofs` carries this over to the replay:

| theorem | statement | assumes |
|---|---|---|
| `StaysInStep` | `CRSpec => []InStep` | those of `InboundSaved`, `~ReplayOutOfMemory`, `ReduceWrapped` |
| `Faithful` | `CRSpec => []ReplayFaithful` | the same |
| `Refines` | `TidySpec => ReplaysTheRecord` | `AddressedWaits`, `~OutOfMemory`, `GapsStay` |
| `CRTypes` | `CRSpec => []CRTypeOK` | - |

`ReduceWrapped` says that a call of MPI_Reduce reaches a wrapper (C, or Fortran
bindings that call the C functions); the missing underscore of `mpi_reduce` (section
4) shows why the first two theorems need it.  The steps of `CRSpec` are steps of `Capture!Spec`, so `TypeOK`,
`Counted` and, under the respective assumptions, `AllInboundSaved` and `LogTrue` hold.  The history is then described call by call: `HistInv` says
that entry i + 1 `Follows` entry i, that is, what the call gets (`Gets`), which
receives are pending after it (`PostedAfter`), and that what it got under an active
dump is payload number `cpt` of `inbound`.  On the other side `CallMoves` says the
same of a wrapper of the replay, in terms of its own table.  `InStep` and
`ReplayFaithful` together are then inductive: equal tables get the same buffers, and
by `AllInboundSaved` the file loaded is the payload the captured call got.  The
captured run does not move any more (`InReplay`).  For the refinement `Behind` is
enough: with receives pending where the region starts, the table of the replay
is part of the captured one and its file number is at most the captured one, so by
`LogTrue` each load finds its payload or no file, and exits then; an entry that the
replay has no memory for (`Loses`) only makes its table smaller; `MessagesArrived` (a completed receive has a message in
its buffer) shows that what is recorded is a message.  `CRTypes` rests on
`BoundsAssumption` alone: the entries of the history and the variables of the replay
keep their types (`HistTyped`, `ReplayTyped`) whatever the ranks, the waits and the
opens do.

`LogDirectoryProofs` proves, for every set of paths, directories, sizes and calls,
from `PathAssumption` (names and slashes alternate in a path):

| theorem | statement |
|---|---|
| `SlashedOpen` | `Spec => []SlashedPathsOpen` |
| `SizeIsRestored` | `Spec => []SizeRestored` |
| `ReplayFindsLog` | `Spec => []ReplayOpens` |

While `mkpath` is at slash p, the directories of all earlier slashes exist (`Made`),
because EEXIST is passed over and nobody removes a directory; it leaves its loop
early only below a locked directory (`Opening`).  A path that ends in a slash has
the last directory among those the loop makes.  `SizeInv` and `ReplayInv` say what
the file nprocs holds after each phase; if the path of the replay leads to the file
although the capture cut it, only the slash at its end was cut off (`SameDirectory`).

`LogContentsProofs` proves, in addition from `CallAssumption`, for every width of an
`int`, every communicator and every list of counts and displacements:

| theorem | statement |
|---|---|
| `LogTypes` | `Spec => []TypeOK` |
| `LoadsWhatWasCaptured` | `Spec => []LoadedIsCaptured` |
| `NeverOverruns` | `Spec => []NoOverrun` |
| `RestoresAll` | `Spec => []Restored` |

`CallAssumption` says what MPI demands of a call: as many counts and displacements as
ranks, equal counts in `MPI_Alltoall`, blocks that do not overlap.  The argument is one
invariant about the files of the current capture: a file that was new holds a prefix of
the receive buffer of its call, and any file starts with it once the call returned
(`LogInv`); and one about the replay: what it got is a prefix of the file, no longer
than the count it computed (`GotInv`).  That count is, where it is not negative, at most
the buffer: blocks that do not overlap have at most as many elements as the buffer
(`Extent`), and reduction modulo `2^Width` to a nonnegative `int` only makes a number
smaller.  Without gaps the two are equal.  The sums are folds over sequences; what is
needed of them is shown by taking a least counterexample among the subsets of a finite
set, since the library's induction theorems cannot be used.

`HtableProofs` proves, from `HtableAssumption`, for every width of a word, every set
of entries and every function from entries to hash values:

| theorem | statement | assumes |
|---|---|---|
| `HtableTypes` | `Spec => []TypeOK` | `SameTopBit` |
| `ShowsItsEntries` | `Spec => []EntriesShow` | `SameTopBit` |
| `LeavesABucket` | `Spec => []BucketLeft` | `SameTopBit` |
| `FindsWhatWasAdded` | `Spec => []LookupsExact` | `SameTopBit` |

`SameTopBit` says that the entries share their highest bit, as the entries of one heap
do; section 4 shows what happens without it, and TLC evaluates it on the instance of
run `htable`.  The invariant (`TableInv`) says that the table stands for the set
`added`: every valid bucket holds the word that is due there for some entry of the set,
every entry has one bucket (`Content`), no empty bucket lies between the home bucket of
an entry and its own (`Reached`), the bits not stored are common to all entries and the
highest one is not among them (`Masks`, or nothing was stored yet), and the counters are
exact for the entries and an upper bound for the markers.  `Content` makes words and
entries correspond, so that lookups are exact and the table has as many valid buckets
as the set has members.

The two loops are folds, that is, functions on the subsets of `1..n`; `TablesOfLoops`
turns them into sequences of tables, one for each bucket passed.  `double_table` keeps
`Content` for the entries passed so far.  `rehash_table` does not keep `Reached`: it
makes holes in searches that it has not come to yet.  What it keeps (`Swept`) is that,
counted from the empty bucket it started at, no entry lies before its home, and that
the buckets behind the sweep have no marker and only entries whose searches meet valid
buckets alone.  This is why the scan has to start at an empty bucket: only then does no
search cross the start.  `update_common` restores, in every word, the bits in which the
new pointer differs (`UnsharedWord`).  That `hash_bucket` stays inside the table is
shown by counting: a sum of distinct powers of two below `2^b` is the number of the
nonempty sets with a largest element in the word, of which there are fewer than `2^b`.

`HashProofs` proves, from `SizeAssumption` (pointers are a multiple of four bytes), for
keys of any length:

| theorem | statement |
|---|---|
| `AddsBlockByBlock` | `Spec => []HashInv` |
| `HashTypes` | `Spec => []TypeOK` |
| `ReadsOnlyTheKey` | `Spec => []OnlyTheKey` |
| `IndependentOfAlignment` | `Spec => []AlignmentIndependent` |
| `KeepsTheKey` | `Spec => []KeyInTerm` |

Each of the nine routines is first shown to be `Good`: a round of its loop adds whole
blocks (`GoodRound`), and a case of its switch either adds everything up to its number
and breaks, or adds its own element alone and falls through to the case before it
(`GoodCase`); `hash_stable_64`, which mixes inside a case, does so at a block's end.
After that the proofs know no routine.  `HashInv` says that what was mixed are the first
blocks of the key, and that between two cases a, b and c hold the part of the last block
from the case the switch is at (`Part`); one that falls through adds the part in front of
it.  A call that is done has added one term per block (`DoneTerm`), which is the
reference definition.  Since the unit at place o of a block has lane and bits of its own
(`SpotInjective`), a unit is determined by where it is in the term, which gives the
cardinalities in `KeyInTerm`.  The bound `MaxLen` of the run is a constant of the
theorems: they hold for each value of it.

Every invariant the passing runs check is now a theorem.  Only model-checked:
`ReplayEnds`, which is liveness.

## 6. Not modelled

* Datatypes: an element is one value, and a count is in elements of the call's type.
* `MPI_Status` and Fortran handles (`mpire_capture.c:255`, `316`): no state of the
  libraries depends on them, and what they do is up to the MPI library.
* `MPI_Comm_rank` at replay (`mpire_replay.c:511`): the model takes the calls of the
  replay from the captured run, so no decision of the application depends on it.
* Paths with doubled slashes, and the 1024 characters of the replay's buffers.
* `mix` and `final`; `hash_string`, which nobody calls.
* How much memory is left: an allocation that may fail may fail at any time, and the
  entries `add_request` allocates, which are never freed, take none.
* Other processes of the job: a payload is whatever MPI delivers.
* Debug output, the NAS benchmarks under `tests/`, the build.

## 7. Plan

Done: `Requests`, `Capture`, `Replay`, `RecordReplay`, `CaptureReplay`, `Htable`,
`OutputPath`, `LogDirectory`, `Hash`, and the theorems of section 5.  Next: several
ranks in one job, with sub-communicators, composed of `Capture`.
