--------------------------- MODULE CaptureProofs ----------------------------
(***************************************************************************)
(* Theorems about Capture, for every number of buffers, request variables, *)
(* communicators and payloads, and for every bound.                        *)
(***************************************************************************)
EXTENDS Capture, TLAPS

-----------------------------------------------------------------------------
(* What the operations on tables and directories return.                   *)

(* get_request tells an entry from no entry: a buffer is never NULL. *)
LEMMA GetRequest ==
  ASSUME NEW f, f \in [DOMAIN f -> Bufs], NEW k
  PROVE  /\ get_request(f, k) # NULL <=> k \in DOMAIN f
         /\ k \in DOMAIN f => /\ get_request(f, k) = f[k]
                              /\ get_request(f, k) \in Bufs
BY ConstantsAssumption DEF get_request, ConstantsAssumption

LEMMA EmptyTableType ==
  DOMAIN EmptyTable = {} /\ EmptyTable \in [DOMAIN EmptyTable -> Bufs]
BY DEF EmptyTable

-----------------------------------------------------------------------------
(* The log after a call of write_in_file. *)
LogType ==
  /\ phase \in {"boot", "running", "finalized", "exited", "aborted", "fault",
                "crashed"}
  /\ DOMAIN files \subseteq Nat
  /\ files \in [DOMAIN files -> Payload]
  /\ cpt_write \in Nat

LEMMA WriteType ==
  ASSUME LogType, NEW v \in Payload, write_in_file(v)
  PROVE  LogType'
<1>1. CASE dump = "1"
  <2>1. cpt_write' = cpt_write + 1 /\ phase' = phase
    BY <1>1 DEF write_in_file, logVars
  <2>2. files' = Put(files, cpt_write, v) \/ files' = files
    BY <1>1 DEF write_in_file, logVars
  <2>3. DOMAIN files' \subseteq Nat /\ files' \in [DOMAIN files' -> Payload]
    BY <2>2 DEF LogType, Put
  <2> QED BY <2>1, <2>3 DEF LogType
<1>2. CASE dump # "1"
  BY <1>2 DEF write_in_file, logVars, LogType
<1> QED BY <1>1, <1>2

LEMMA ReceiveType ==
  ASSUME TypeOK, NEW b \in Bufs, NEW c, NEW logged \in BOOLEAN,
         Receive(b, c, logged)
  PROVE  TypeOK'
<1>1. PICK v \in Vals :
        /\ mem' = [mem EXCEPT ![b] = v]
        /\ Received(v, c)
        /\ IF logged THEN write_in_file(v) ELSE UNCHANGED logVars
  BY DEF Receive
<1>2. v \in Payload
  BY DEF Payload
<1>3. LogType'
  BY <1>1, <1>2, WriteType DEF TypeOK, LogType, logVars
<1>4. mem' \in [Bufs -> Payload]
  BY <1>1, <1>2 DEF TypeOK
<1>5. inbound' \in Seq(Payload)
  BY <1>1, <1>2 DEF TypeOK, Received
<1>6. UNCHANGED <<dump, requestHtab, active, arrived, todo>>
  BY DEF Receive
<1> QED BY <1>3, <1>4, <1>5, <1>6 DEF TypeOK, LogType

LEMMA FinishType ==
  ASSUME TypeOK, NEW a \in Reqs, NEW key, Finish(a, key),
         todo' \in Seq(Reqs)
  PROVE  TypeOK'
<1> DEFINE found == get_request(requestHtab, key)
<1>1. found # NULL => found \in Bufs
  BY GetRequest DEF TypeOK
<1>4. /\ LogType'
      /\ DOMAIN requestHtab' \subseteq Reqs
      /\ requestHtab' \in [DOMAIN requestHtab' -> Bufs]
  <2>1. CASE Captured(WORLD) /\ found # NULL
    <3>1. /\ write_in_file(mem[found])
          /\ requestHtab' = del_request(requestHtab, key)
      BY <2>1 DEF Finish
    <3>2. mem[found] \in Payload
      BY <1>1, <2>1 DEF TypeOK
    <3>3. LogType'
      BY <3>1, <3>2, WriteType DEF TypeOK, LogType
    <3>4. /\ DOMAIN requestHtab' \subseteq Reqs
          /\ requestHtab' \in [DOMAIN requestHtab' -> Bufs]
      BY <3>1 DEF TypeOK, del_request
    <3> QED BY <3>3, <3>4
  <2>2. CASE ~(Captured(WORLD) /\ found # NULL)
    BY <2>2 DEF Finish, TypeOK, LogType
  <2> QED BY <2>1, <2>2
<1>5. active' \in [Reqs -> Bufs \cup {Idle, Sending}] /\ arrived' \subseteq Reqs
  BY DEF Finish, TypeOK
<1>6. inbound' \in Seq(Payload)
  <2>1. inbound \in Seq(Payload) /\ mem \in [Bufs -> Payload]
    BY DEF TypeOK
  <2>2. CASE Pending(a)
    <3>1. Received(mem[active[a]], WORLD) /\ mem[active[a]] \in Payload
      BY <2>1, <2>2 DEF Finish, Pending
    <3> QED BY <2>1, <3>1 DEF Received
  <2>3. CASE ~Pending(a)
    BY <2>1, <2>3 DEF Finish
  <2> QED BY <2>2, <2>3
<1>7. dump' = dump /\ mem' = mem
  BY DEF Finish
<1> QED BY <1>4, <1>5, <1>6, <1>7 DEF TypeOK, LogType

-----------------------------------------------------------------------------
LEMMA TypeInit == Init => TypeOK
<1> SUFFICES ASSUME Init PROVE TypeOK
  OBVIOUS
<1>1. PICK k \in 0..MaxStale : files = [i \in 0..(k - 1) |-> Junk]
  BY DEF Init
<1>2. DOMAIN files \subseteq Nat /\ files \in [DOMAIN files -> Payload]
  BY <1>1, ConstantsAssumption DEF Payload, ConstantsAssumption
<1>3. /\ DOMAIN requestHtab \subseteq Reqs
      /\ requestHtab \in [DOMAIN requestHtab -> Bufs]
  BY EmptyTableType DEF Init
<1> QED BY <1>2, <1>3 DEF Init, TypeOK, Payload

(* The calls that do nothing but post, send, deliver or change the phase.  *)
LEMMA IrecvType ==
  ASSUME TypeOK, NEW a \in Reqs, NEW b \in Bufs, NEW c \in Comms,
         MPI_Irecv(a, b, c)
  PROVE  TypeOK'
<1>1. UNCHANGED <<dump, files, cpt_write, mem, arrived, todo, inbound>>
  BY DEF MPI_Irecv
<1>2. /\ active' \in [Reqs -> Bufs \cup {Idle, Sending}]
      /\ phase' \in {"running", "exited", "fault"}
  BY DEF MPI_Irecv, Calling, TypeOK
<1>3. requestHtab' = Put(requestHtab, a, b) \/ requestHtab' = requestHtab
  BY DEF MPI_Irecv, add_request
<1>4. /\ DOMAIN requestHtab' \subseteq Reqs
      /\ requestHtab' \in [DOMAIN requestHtab' -> Bufs]
  BY <1>3 DEF TypeOK, Put
<1> QED BY <1>1, <1>2, <1>4 DEF TypeOK

LEMMA CrashType ==
  ASSUME TypeOK, Crash
  PROVE  TypeOK'
<1>1. files' = files \/ files' = Put(files, cpt_write, Junk)
  BY DEF Crash
<1>2. DOMAIN files' \subseteq Nat /\ files' \in [DOMAIN files' -> Payload]
  BY <1>1 DEF TypeOK, Put, Payload
<1> QED BY <1>2 DEF Crash, TypeOK

LEMMA ArraysAreSequences ==
  ASSUME NEW s \in Arrays
  PROVE  s \in Seq(Reqs)
BY DEF Arrays

LEMMA CollectiveType ==
  ASSUME TypeOK, Collective
  PROVE  TypeOK'
<1>1. PICK b \in Bufs, c \in Comms :
        \/ MPI_Allreduce(b, c)
        \/ MPI_Alltoall(b, c)
        \/ MPI_Alltoallv(b, c)
        \/ \E root \in Ranks : MPI_Bcast(b, root, c) \/ MPI_Reduce(b, root, c)
  BY DEF Collective
<1>2. ASSUME NEW logged \in BOOLEAN, Receive(b, c, logged) PROVE TypeOK'
  BY <1>2, ReceiveType
<1>3. ASSUME UNCHANGED vars PROVE TypeOK'
  BY <1>3 DEF vars, TypeOK
<1>4. Captured(c) \in BOOLEAN
  BY DEF Captured
<1>5. CASE MPI_Allreduce(b, c) \/ MPI_Alltoall(b, c)
  BY <1>2, <1>4, <1>5 DEF MPI_Allreduce, MPI_Alltoall
<1>6. CASE MPI_Alltoallv(b, c)
  <2>1. CASE Receive(b, c, Captured(c))
    BY <1>2, <1>4, <2>1
  <2>2. CASE ~Receive(b, c, Captured(c))
    BY <1>6, <2>2 DEF MPI_Alltoallv, TypeOK
  <2> QED BY <2>1, <2>2
<1>7. ASSUME NEW root \in Ranks, MPI_Bcast(b, root, c) PROVE TypeOK'
  BY <1>7, <1>2, <1>3 DEF MPI_Bcast, Captured
<1>8. ASSUME NEW root \in Ranks, MPI_Reduce(b, root, c) PROVE TypeOK'
  BY <1>8, <1>2, <1>3 DEF MPI_Reduce, Captured
<1> QED BY <1>1, <1>5, <1>6, <1>7, <1>8

LEMMA TypeStep == TypeOK /\ [Next]_vars => TypeOK'
<1> SUFFICES ASSUME TypeOK, [Next]_vars PROVE TypeOK'
  OBVIOUS
<1>1. CASE MPI_Init
  <2>1. /\ DOMAIN requestHtab' \subseteq Reqs
        /\ requestHtab' \in [DOMAIN requestHtab' -> Bufs]
    BY <1>1, EmptyTableType DEF MPI_Init, init_MPIre
  <2> QED BY <1>1, <2>1 DEF MPI_Init, init_MPIre, TypeOK
<1>2. ASSUME NEW a \in Reqs, NEW b \in Bufs, NEW c \in Comms,
             MPI_Irecv(a, b, c)
      PROVE  TypeOK'
  BY <1>2, IrecvType
<1>3. ASSUME NEW a \in Reqs, MPI_Isend(a) PROVE TypeOK'
  BY <1>3 DEF MPI_Isend, TypeOK
<1>4. ASSUME NEW a \in Reqs, Deliver(a) PROVE TypeOK'
  BY <1>4 DEF Deliver, Pending, TypeOK, Payload
<1>5. ASSUME NEW a \in Reqs, MPI_Wait(a) PROVE TypeOK'
  <2>1. Finish(a, a) /\ todo' \in Seq(Reqs)
    BY <1>5 DEF MPI_Wait, TypeOK
  <2> QED BY <2>1, FinishType
<1>6. ASSUME NEW b \in Bufs, NEW c \in Comms, MPI_Recv(b, c) PROVE TypeOK'
  BY <1>6, ReceiveType DEF MPI_Recv, Captured
<1>7. CASE Collective
  BY <1>7, CollectiveType
<1>8. ASSUME NEW s \in Arrays, MPI_Waitall(s) PROVE TypeOK'
  BY <1>8, ArraysAreSequences DEF MPI_Waitall, TypeOK
<1>9. CASE WaitallStep
  <2>1. Head(todo) \in Reqs /\ Tail(todo) \in Seq(Reqs)
    BY <1>9 DEF WaitallStep, TypeOK
  <2>2. Finish(Head(todo), WaitallKey(Head(todo))) /\ todo' = Tail(todo)
    BY <1>9 DEF WaitallStep
  <2> QED BY <2>1, <2>2, FinishType
<1>10. ASSUME NEW d \in {"0", "1"}, SetDump(d) PROVE TypeOK'
  BY <1>10 DEF SetDump, TypeOK
<1>11. CASE non_implemented_hook
  BY <1>11 DEF non_implemented_hook, TypeOK
<1>12. CASE MPI_Finalize
  <2>1. /\ DOMAIN requestHtab' \subseteq Reqs
        /\ requestHtab' \in [DOMAIN requestHtab' -> Bufs]
    BY <1>12, EmptyTableType DEF MPI_Finalize
  <2> QED BY <1>12, <2>1 DEF MPI_Finalize, TypeOK
<1>13. CASE Crash
  BY <1>13, CrashType
<1>14. CASE UNCHANGED vars
  BY <1>14 DEF vars, TypeOK
<1> QED
  BY <1>1, <1>2, <1>3, <1>4, <1>5, <1>6, <1>7, <1>8, <1>9, <1>10, <1>11,
     <1>12, <1>13, <1>14 DEF Next

(* In every state of every run, whatever the constants, the variables have *)
(* the types the code gives them; in particular the table never holds      *)
(* anything but buffers under addresses of request variables.              *)
THEOREM TypeCorrect == Spec => []TypeOK
BY TypeInit, TypeStep, PTL DEF Spec

-----------------------------------------------------------------------------
(* A file number is used once.  Every action leaves the directory alone or *)
(* writes at cpt_write, and only a kill leaves the number unused then.      *)

Numbered ==
  \/ files' = files /\ cpt_write' \in {cpt_write, cpt_write + 1}
  \/ \E v : /\ files' = Put(files, cpt_write, v)
            /\ \/ cpt_write' = cpt_write + 1
               \/ cpt_write' = cpt_write /\ phase' = "crashed"

LEMMA NumberedOnce ==
  ASSUME TypeOK, Numbered
  PROVE  /\ cpt_write <= cpt_write'
         /\ DOMAIN files \subseteq DOMAIN files'
         /\ \A i \in Written :
              cpt_write <= i /\ (i < cpt_write' \/ phase' = "crashed")
<1>1. cpt_write \in Nat
  BY DEF TypeOK
<1>2. CASE files' = files /\ cpt_write' \in {cpt_write, cpt_write + 1}
  BY <1>1, <1>2 DEF Written
<1>3. ASSUME NEW v,
             files' = Put(files, cpt_write, v),
             \/ cpt_write' = cpt_write + 1
             \/ cpt_write' = cpt_write /\ phase' = "crashed"
      PROVE  /\ cpt_write <= cpt_write'
             /\ DOMAIN files \subseteq DOMAIN files'
             /\ \A i \in Written :
                  cpt_write <= i /\ (i < cpt_write' \/ phase' = "crashed")
  <2>1. Written \subseteq {cpt_write}
    BY <1>3 DEF Written, Put
  <2>2. DOMAIN files \subseteq DOMAIN files'
    BY <1>3 DEF Put
  <2> QED BY <1>1, <1>3, <2>1, <2>2
<1> QED BY <1>2, <1>3 DEF Numbered

LEMMA StepNumbered ==
  ASSUME TypeOK, [Next]_vars
  PROVE  Numbered
<1>1. ASSUME NEW v, write_in_file(v) PROVE Numbered
  BY <1>1 DEF write_in_file, logVars, Numbered
<1>2. ASSUME NEW b, NEW c, NEW logged, Receive(b, c, logged) PROVE Numbered
  <2>1. PICK v \in Vals : IF logged THEN write_in_file(v) ELSE UNCHANGED logVars
    BY <1>2 DEF Receive
  <2> QED BY <2>1, <1>1 DEF logVars, Numbered
<1>3. ASSUME NEW a, NEW key, Finish(a, key) PROVE Numbered
  BY <1>3, <1>1 DEF Finish, Numbered
<1>4. CASE Collective
  <2>1. PICK b \in Bufs, c \in Comms :
          \/ MPI_Allreduce(b, c)
          \/ MPI_Alltoall(b, c)
          \/ MPI_Alltoallv(b, c)
          \/ \E root \in Ranks : MPI_Bcast(b, root, c) \/ MPI_Reduce(b, root, c)
    BY <1>4 DEF Collective
  <2>2. CASE MPI_Allreduce(b, c) \/ MPI_Alltoall(b, c) \/ MPI_Alltoallv(b, c)
    BY <2>2, <1>2 DEF MPI_Allreduce, MPI_Alltoall, MPI_Alltoallv, Numbered
  <2>3. ASSUME NEW root \in Ranks, MPI_Bcast(b, root, c) \/ MPI_Reduce(b, root, c)
        PROVE  Numbered
    BY <2>3, <1>2 DEF MPI_Bcast, MPI_Reduce, vars, Numbered
  <2> QED BY <2>1, <2>2, <2>3
<1>5. CASE \E a \in Reqs : MPI_Wait(a)
  BY <1>5, <1>3 DEF MPI_Wait
<1>6. CASE WaitallStep
  BY <1>6, <1>3 DEF WaitallStep
<1>7. CASE \E b \in Bufs, c \in Comms : MPI_Recv(b, c)
  BY <1>7, <1>2 DEF MPI_Recv
<1>8. CASE Crash
  BY <1>8 DEF Crash, Numbered
<1>9. CASE \E a \in Reqs : \/ \E b \in Bufs, c \in Comms : MPI_Irecv(a, b, c)
                           \/ MPI_Isend(a)
                           \/ Deliver(a)
  BY <1>9 DEF MPI_Irecv, MPI_Isend, Deliver, Numbered
<1>10. CASE \/ MPI_Init \/ non_implemented_hook \/ MPI_Finalize
            \/ \E s \in Arrays : MPI_Waitall(s)
            \/ \E d \in {"0", "1"} : SetDump(d)
            \/ UNCHANGED vars
  BY <1>10 DEF MPI_Init, init_MPIre, non_implemented_hook, MPI_Finalize, MPI_Waitall,
               SetDump, vars, Numbered
<1> QED
  BY <1>4, <1>5, <1>6, <1>7, <1>8, <1>9, <1>10 DEF Next

(* Whatever fails, exits, faults or is killed, and whatever communicators  *)
(* and waits the application uses, no number is used for two files.        *)
THEOREM LogWrittenOnce == Spec => WriteOnce
<1>1. TypeOK /\ [Next]_vars =>
        [/\ cpt_write <= cpt_write'
         /\ DOMAIN files \subseteq DOMAIN files'
         /\ \A i \in Written :
              cpt_write <= i /\ (i < cpt_write' \/ phase' = "crashed")]_vars
  BY StepNumbered, NumberedOnce
<1> QED BY <1>1, TypeCorrect, PTL DEF Spec, WriteOnce

-----------------------------------------------------------------------------
(* The table of the captured process.  Posting adds the entry of the new   *)
(* receive, finishing takes away the entry of the receive that is over,    *)
(* and no other step touches table or requests.                            *)

NothingPosted == phase = "boot" => \A a \in Reqs : active[a] = Idle

Quiet == UNCHANGED <<requestHtab, active>>

LEMMA StepOnRequests ==
  ASSUME TypeOK, [Next]_vars
  PROVE  \/ MPI_Init
         \/ \E a \in Reqs, b \in Bufs, c \in Comms : MPI_Irecv(a, b, c)
         \/ \E a \in Reqs : MPI_Isend(a) \/ MPI_Wait(a)
         \/ WaitallStep
         \/ MPI_Finalize
         \/ phase' = phase /\ Quiet
         \/ phase = "running" /\ phase' # "boot" /\ Quiet
<1> DEFINE Goal == \/ phase' = phase /\ Quiet
                   \/ phase = "running" /\ phase' # "boot" /\ Quiet
<1>1. ASSUME NEW b, NEW c, NEW logged, Receive(b, c, logged), phase = "running"
      PROVE  Goal
  BY <1>1 DEF Receive, Quiet, write_in_file, logVars
<1>2. CASE Collective
  <2>1. PICK b \in Bufs, c \in Comms :
          \/ MPI_Allreduce(b, c)
          \/ MPI_Alltoall(b, c)
          \/ MPI_Alltoallv(b, c)
          \/ \E root \in Ranks : MPI_Bcast(b, root, c) \/ MPI_Reduce(b, root, c)
    BY <1>2 DEF Collective
  <2>2. CASE MPI_Allreduce(b, c) \/ MPI_Alltoall(b, c) \/ MPI_Alltoallv(b, c)
    BY <2>2, <1>1 DEF MPI_Allreduce, MPI_Alltoall, MPI_Alltoallv, Calling, Quiet
  <2>3. ASSUME NEW root \in Ranks, MPI_Bcast(b, root, c) \/ MPI_Reduce(b, root, c)
        PROVE  Goal
    BY <2>3, <1>1 DEF MPI_Bcast, MPI_Reduce, vars, Calling, Quiet
  <2> QED BY <2>1, <2>2, <2>3
<1>3. CASE \E b \in Bufs, c \in Comms : MPI_Recv(b, c)
  BY <1>3, <1>1 DEF MPI_Recv, Calling
<1>4. CASE \/ non_implemented_hook \/ Crash
           \/ \E s \in Arrays : MPI_Waitall(s)
           \/ \E d \in {"0", "1"} : SetDump(d)
           \/ \E a \in Reqs : Deliver(a)
           \/ UNCHANGED vars
  BY <1>4 DEF non_implemented_hook, Crash, MPI_Waitall, SetDump, Deliver, vars,
              Calling, Quiet
<1>5. ASSUME NEW a \in Reqs,
             \/ \E b \in Bufs, c \in Comms : MPI_Irecv(a, b, c)
             \/ MPI_Isend(a) \/ MPI_Wait(a)
      PROVE  \/ \E x \in Reqs, b \in Bufs, c \in Comms : MPI_Irecv(x, b, c)
             \/ \E x \in Reqs : MPI_Isend(x) \/ MPI_Wait(x)
  BY <1>5
<1> QED BY <1>2, <1>3, <1>4, <1>5 DEF Next

(* What the capture of a finished request does to the table: its own entry *)
(* goes, the others stay.  A handle is never the address of a variable.    *)
LEMMA FinishTable ==
  ASSUME TypeOK, NEW a \in Reqs, NEW key \in {a, REQUEST_NULL}, Finish(a, key)
  PROVE  /\ active' = [active EXCEPT ![a] = Idle]
         /\ \A x \in Reqs \ {a} :
              /\ x \in DOMAIN requestHtab' <=> x \in DOMAIN requestHtab
              /\ x \in DOMAIN requestHtab => requestHtab'[x] = requestHtab[x]
         /\ Captured(WORLD) /\ key = a => a \notin DOMAIN requestHtab'
<1>1. requestHtab' = requestHtab \/ requestHtab' = del_request(requestHtab, key)
  BY DEF Finish
<1>2. ASSUME Captured(WORLD), key = a, a \in DOMAIN requestHtab
      PROVE  requestHtab' = del_request(requestHtab, a)
  BY <1>2, GetRequest DEF Finish, TypeOK
<1>3. active' = [active EXCEPT ![a] = Idle]
  BY DEF Finish
<1>4. REQUEST_NULL \notin Reqs
  BY ConstantsAssumption DEF ConstantsAssumption
<1>5. \A x \in Reqs \ {a} :
         /\ x \in DOMAIN requestHtab' <=> x \in DOMAIN requestHtab
         /\ x \in DOMAIN requestHtab => requestHtab'[x] = requestHtab[x]
  BY <1>1, <1>4 DEF del_request
<1>6. Captured(WORLD) /\ key = a => a \notin DOMAIN requestHtab'
  BY <1>1, <1>2 DEF del_request
<1> QED BY <1>3, <1>5, <1>6

(* The states of a request variable that are no buffer. *)
LEMMA NoBuffer == Idle \notin Bufs /\ Sending \notin Bufs
BY ConstantsAssumption DEF ConstantsAssumption

LEMMA WaitallKeyCases ==
  ASSUME NEW a \in Reqs
  PROVE  WaitallKey(a) \in {a, REQUEST_NULL}
BY DEF WaitallKey

Tabled ==
  phase = "running" => \A a \in Reqs : Pending(a) =>
    /\ a \in DOMAIN requestHtab => requestHtab[a] = active[a]
    /\ ~OutOfMemory => a \in DOMAIN requestHtab

(* What posting a receive does: the address had no entry before.           *)
LEMMA IrecvTable ==
  ASSUME TypeOK, NEW a \in Reqs, NEW b \in Bufs, NEW c \in Comms, Captured(c),
         MPI_Irecv(a, b, c), phase' = phase
  PROVE  /\ a \notin DOMAIN requestHtab
         /\ active' = [active EXCEPT ![a] = b]
         /\ \/ requestHtab' = Put(requestHtab, a, b)
            \/ requestHtab' = requestHtab /\ OutOfMemory
         /\ phase = "running"
<1>1. phase = "running"
  BY DEF MPI_Irecv, Calling
<1>2. /\ ~IsDuplicate(requestHtab, a)
      /\ requestHtab' \in add_request(requestHtab, a, b)
      /\ active' = [active EXCEPT ![a] = b]
  BY <1>1 DEF MPI_Irecv
<1>3. a \notin DOMAIN requestHtab
  BY <1>2, GetRequest DEF IsDuplicate, TypeOK
<1>4. \/ requestHtab' = Put(requestHtab, a, b)
      \/ requestHtab' = requestHtab /\ OutOfMemory
  BY <1>2 DEF add_request
<1> QED BY <1>1, <1>2, <1>3, <1>4

LEMMA TabledStep ==
  ASSUME \A c \in Comms : Captured(c),
         TypeOK, NothingPosted, Tabled, [Next]_vars
  PROVE  NothingPosted' /\ Tabled'
<1>1. CASE MPI_Init
  BY <1>1, NoBuffer DEF MPI_Init, init_MPIre, NothingPosted, Tabled, Pending
<1>2. ASSUME NEW a \in Reqs, NEW b \in Bufs, NEW c \in Comms,
             MPI_Irecv(a, b, c)
      PROVE  NothingPosted' /\ Tabled'
  <2>1. CASE phase' # phase
    BY <1>2, <2>1 DEF MPI_Irecv, NothingPosted, Tabled
  <2>2. CASE phase' = phase
    <3>1. /\ a \notin DOMAIN requestHtab
          /\ active' = [active EXCEPT ![a] = b]
          /\ \/ requestHtab' = Put(requestHtab, a, b)
             \/ requestHtab' = requestHtab /\ OutOfMemory
          /\ phase = "running"
      BY <1>2, <2>2, IrecvTable
    <3>2. ASSUME NEW x \in Reqs, active'[x] \in Bufs
          PROVE  /\ x \in DOMAIN requestHtab' => requestHtab'[x] = active'[x]
                 /\ ~OutOfMemory => x \in DOMAIN requestHtab'
      BY <3>1, <3>2 DEF Tabled, Pending, TypeOK, Put
    <3> QED BY <2>2, <3>1, <3>2 DEF NothingPosted, Tabled, Pending
  <2> QED BY <2>1, <2>2
<1>3. ASSUME NEW a \in Reqs, MPI_Isend(a) PROVE NothingPosted' /\ Tabled'
  BY <1>3, NoBuffer
     DEF MPI_Isend, Calling, NothingPosted, Tabled, Pending, TypeOK
<1>4. ASSUME NEW a \in Reqs, NEW key \in {a, REQUEST_NULL}, Finish(a, key),
             phase = "running"
      PROVE  NothingPosted' /\ Tabled'
  <2>1. phase' \in {"running", "fault"}
    BY <1>4 DEF Finish, write_in_file, logVars
  <2>2. ASSUME NEW x \in Reqs, active'[x] \in Bufs
        PROVE  /\ x \in DOMAIN requestHtab' => requestHtab'[x] = active'[x]
               /\ ~OutOfMemory => x \in DOMAIN requestHtab'
    <3>1. x # a /\ active'[x] = active[x]
      BY <1>4, <2>2, FinishTable, NoBuffer DEF TypeOK
    <3> QED BY <1>4, <2>2, <3>1, FinishTable DEF Tabled, Pending
  <2> QED BY <2>1, <2>2 DEF NothingPosted, Tabled, Pending
<1>5. ASSUME NEW a \in Reqs, MPI_Wait(a) PROVE NothingPosted' /\ Tabled'
  BY <1>4, <1>5 DEF MPI_Wait, Calling
<1>6. CASE WaitallStep
  <2>1. Head(todo) \in Reqs /\ WaitallKey(Head(todo)) \in {Head(todo), REQUEST_NULL}
    BY <1>6, WaitallKeyCases DEF WaitallStep, TypeOK
  <2> QED BY <1>4, <1>6, <2>1 DEF WaitallStep
<1>7. CASE MPI_Finalize
  BY <1>7 DEF MPI_Finalize, NothingPosted, Tabled
<1>8. CASE \/ phase' = phase /\ Quiet
           \/ phase = "running" /\ phase' # "boot" /\ Quiet
  BY <1>8 DEF Quiet, NothingPosted, Tabled, Pending
<1> QED BY <1>1, <1>2, <1>3, <1>5, <1>6, <1>7, <1>8, StepOnRequests

(* As long as every communicator of the application ranks the captured     *)
(* process MPIre_rank, a pending receive has its own entry or, if memory   *)
(* ran out, none, also in the C bindings, whose MPI_Waitall leaves entries *)
(* behind.                                                                 *)
THEOREM ReceivesTabled == Spec => []PendingIsTabled
<1>1. CASE \A c \in Comms : Captured(c)
  <2>1. Init => NothingPosted /\ Tabled
    BY DEF Init, NothingPosted, Tabled
  <2>2. TypeOK /\ NothingPosted /\ Tabled /\ [Next]_vars
          => NothingPosted' /\ Tabled'
    BY <1>1, TabledStep
  <2>3. TypeOK /\ Tabled => PendingIsTabled
    <3> SUFFICES ASSUME TypeOK, Tabled, phase = "running", NEW a \in Reqs, Pending(a)
                 PROVE  \/ get_request(requestHtab, a) = active[a]
                        \/ OutOfMemory /\ get_request(requestHtab, a) = NULL
      BY DEF PendingIsTabled
    <3>1. /\ a \in DOMAIN requestHtab => requestHtab[a] = active[a]
          /\ ~OutOfMemory => a \in DOMAIN requestHtab
      BY DEF Tabled
    <3>2. /\ get_request(requestHtab, a) # NULL <=> a \in DOMAIN requestHtab
          /\ a \in DOMAIN requestHtab =>
               get_request(requestHtab, a) = requestHtab[a]
      BY GetRequest DEF TypeOK
    <3> QED BY <3>1, <3>2
  <2> QED BY <2>1, <2>2, <2>3, TypeCorrect, PTL DEF Spec
<1>2. CASE ~\A c \in Comms : Captured(c)
  <2>1. PendingIsTabled
    BY <1>2 DEF PendingIsTabled
  <2> QED BY <2>1, PTL
<1> QED BY <1>1, <1>2

-----------------------------------------------------------------------------
(* With every wait looking its requests up by address, no entry outlives   *)
(* its receive either.                                                     *)

NoLoopInC == Api = "C" => todo = <<>>

NoneLeft == phase = "running" => \A a \in DOMAIN requestHtab : Pending(a)

LEMMA NoLoopInCStep ==
  ASSUME AddressedWaits, NoLoopInC, [Next]_vars
  PROVE  NoLoopInC'
<1>1. CASE UNCHANGED todo
  BY <1>1 DEF NoLoopInC
<1>2. ASSUME NEW s \in Arrays, MPI_Waitall(s) PROVE NoLoopInC'
  BY <1>2, ConstantsAssumption
     DEF MPI_Waitall, Calling, AddressedWaits, NoLoopInC, ConstantsAssumption
<1>3. CASE WaitallStep
  BY <1>3 DEF WaitallStep, NoLoopInC
<1>4. ASSUME NEW b, NEW c, NEW logged, Receive(b, c, logged) PROVE UNCHANGED todo
  BY <1>4 DEF Receive
<1>5. CASE Collective
  <2>1. UNCHANGED todo
    BY <1>4, <1>5 DEF Collective, MPI_Allreduce, MPI_Alltoall, MPI_Alltoallv,
                      MPI_Bcast, MPI_Reduce, vars
  <2> QED BY <2>1, <1>1
<1>6. CASE \E b \in Bufs, c \in Comms : MPI_Recv(b, c)
  BY <1>1, <1>4, <1>6 DEF MPI_Recv
<1>7. CASE \E a \in Reqs : \/ \E b \in Bufs, c \in Comms : MPI_Irecv(a, b, c)
                           \/ MPI_Isend(a) \/ Deliver(a) \/ MPI_Wait(a)
  BY <1>1, <1>7 DEF MPI_Irecv, MPI_Isend, Deliver, MPI_Wait
<1>8. CASE \/ MPI_Init \/ non_implemented_hook \/ MPI_Finalize \/ Crash
           \/ \E d \in {"0", "1"} : SetDump(d)
           \/ UNCHANGED vars
  BY <1>1, <1>8 DEF MPI_Init, init_MPIre, non_implemented_hook, MPI_Finalize, Crash,
                    SetDump, vars
<1> QED BY <1>2, <1>3, <1>5, <1>6, <1>7, <1>8 DEF Next

LEMMA NoneLeftStep ==
  ASSUME AddressedWaits, TypeOK, NoLoopInC, NoneLeft, [Next]_vars
  PROVE  NoneLeft'
<1>1. Captured(WORLD)
  BY ConstantsAssumption DEF AddressedWaits, ConstantsAssumption
<1>2. CASE MPI_Init \/ MPI_Finalize
  BY <1>2 DEF MPI_Init, init_MPIre, MPI_Finalize, NoneLeft, EmptyTable
<1>3. ASSUME NEW a \in Reqs, NEW b \in Bufs, NEW c \in Comms,
             MPI_Irecv(a, b, c)
      PROVE  NoneLeft'
  <2>1. CASE phase' # phase
    BY <1>3, <2>1 DEF MPI_Irecv, NoneLeft
  <2>2. CASE phase' = phase
    <3>1. /\ active' = [active EXCEPT ![a] = b]
          /\ \/ requestHtab' = Put(requestHtab, a, b)
             \/ requestHtab' = requestHtab
          /\ phase = "running"
      BY <1>3, <2>2, IrecvTable DEF AddressedWaits
    <3>2. \A x \in DOMAIN requestHtab' : active'[x] \in Bufs
      BY <3>1 DEF NoneLeft, Pending, TypeOK, Put
    <3> QED BY <3>2 DEF NoneLeft, Pending
  <2> QED BY <2>1, <2>2
<1>4. ASSUME NEW a \in Reqs, MPI_Isend(a) PROVE NoneLeft'
  BY <1>4, NoBuffer DEF MPI_Isend, Calling, NoneLeft, Pending, TypeOK
<1>5. ASSUME NEW a \in Reqs, Finish(a, a), phase = "running" PROVE NoneLeft'
  <2>1. a \in {a, REQUEST_NULL}
    OBVIOUS
  <2>2. ASSUME NEW x \in DOMAIN requestHtab' PROVE active'[x] \in Bufs
    <3>1. DOMAIN requestHtab' \subseteq DOMAIN requestHtab
      BY <1>5 DEF Finish, del_request
    <3>2. x \in Reqs /\ active[x] \in Bufs
      BY <1>5, <2>2, <3>1 DEF NoneLeft, Pending, TypeOK
    <3>3. x # a
      BY <1>1, <1>5, <2>1, <2>2, FinishTable
    <3> QED BY <1>5, <2>1, <3>2, <3>3, FinishTable DEF TypeOK
  <2> QED BY <2>2 DEF NoneLeft, Pending
<1>6. ASSUME NEW a \in Reqs, MPI_Wait(a) PROVE NoneLeft'
  BY <1>5, <1>6 DEF MPI_Wait, Calling
<1>7. CASE WaitallStep
  <2>1. Head(todo) \in Reqs /\ phase = "running" /\ todo # <<>>
    BY <1>7 DEF WaitallStep, TypeOK
  <2>2. WaitallKey(Head(todo)) = Head(todo)
    BY <2>1 DEF WaitallKey, NoLoopInC
  <2> QED BY <1>5, <1>7, <2>1, <2>2 DEF WaitallStep
<1>8. CASE \/ phase' = phase /\ Quiet
           \/ phase = "running" /\ phase' # "boot" /\ Quiet
  BY <1>8 DEF Quiet, NoneLeft, Pending
<1> QED BY <1>2, <1>3, <1>4, <1>6, <1>7, <1>8, StepOnRequests

(* With Fortran bindings, or in C without MPI_Waitall, and as long as      *)
(* there is memory, the table is the set of pending receives at every      *)
(* point of the run.                                                       *)
THEOREM TableExact ==
  ASSUME AddressedWaits, ~OutOfMemory
  PROVE  Spec => []RequestTableExact
<1>1. \A c \in Comms : Captured(c)
  BY DEF AddressedWaits
<1>2. Init => NothingPosted /\ Tabled /\ NoLoopInC /\ NoneLeft
  BY DEF Init, NothingPosted, Tabled, NoLoopInC, NoneLeft
<1>3. TypeOK /\ NothingPosted /\ Tabled /\ NoLoopInC /\ NoneLeft /\ [Next]_vars
        => NothingPosted' /\ Tabled' /\ NoLoopInC' /\ NoneLeft'
  BY <1>1, TabledStep, NoLoopInCStep, NoneLeftStep
<1>4. TypeOK /\ Tabled /\ NoneLeft => RequestTableExact
  BY DEF TypeOK, Tabled, NoneLeft, RequestTableExact
<1> QED BY <1>2, <1>3, <1>4, TypeCorrect, PTL DEF Spec

-----------------------------------------------------------------------------
(* The log.  A step leaves it alone, adds the payload that the same step    *)
(* gives to the application, or is a kill that tears the next file.        *)

LogKept == UNCHANGED <<files, cpt_write, inbound>>

LogGrown ==
  /\ phase = "running"
  /\ cpt_write' = cpt_write + 1
  /\ \E v \in Payload :
       /\ inbound' = Append(inbound, v)
       /\ \/ files' = Put(files, cpt_write, v)
          \/ files' = files /\ FALSE \in OpenOutcomes

LogTorn ==
  /\ phase' = "crashed"
  /\ files' = Put(files, cpt_write, Junk)
  /\ UNCHANGED <<cpt_write, inbound>>

LEMMA WriteLogs ==
  ASSUME phase = "running", NEW v \in Payload, NEW c, Captured(WORLD) \/ Captured(c),
         Received(v, c), write_in_file(v)
  PROVE  LogKept \/ LogGrown
<1>1. CASE dump = "1"
  <2>1. inbound' = Append(inbound, v)
    BY <1>1 DEF Received
  <2>2. /\ cpt_write' = cpt_write + 1
        /\ \E opened \in OpenOutcomes :
             files' = IF opened THEN Put(files, cpt_write, v) ELSE files
    BY <1>1 DEF write_in_file, logVars
  <2>3. PICK opened \in OpenOutcomes :
          files' = IF opened THEN Put(files, cpt_write, v) ELSE files
    BY <2>2
  <2>4. opened \in BOOLEAN
    BY ConstantsAssumption DEF ConstantsAssumption
  <2>5. \/ files' = Put(files, cpt_write, v)
        \/ files' = files /\ FALSE \in OpenOutcomes
    BY <2>3, <2>4
  <2> QED BY <2>1, <2>2, <2>5 DEF LogGrown
<1>2. CASE dump # "1"
  BY <1>2 DEF write_in_file, logVars, Received, LogKept
<1> QED BY <1>1, <1>2

(* The wrapper of a call on c selects the process just when c gives it the *)
(* captured rank.                                                          *)
LEMMA ReceiveLogs ==
  ASSUME phase = "running", NEW b, NEW c, Captured(WORLD) => Captured(c),
         NEW logged, logged <=> Captured(c), Receive(b, c, logged)
  PROVE  LogKept \/ LogGrown
<1>1. PICK v \in Vals :
        /\ Received(v, c)
        /\ IF logged THEN write_in_file(v) ELSE UNCHANGED logVars
  BY DEF Receive
<1>2. CASE Captured(c)
  BY <1>1, <1>2, WriteLogs DEF Payload
<1>3. CASE ~Captured(c)
  BY <1>1, <1>3 DEF Received, logVars, LogKept
<1> QED BY <1>2, <1>3

LEMMA CollectiveLogs ==
  ASSUME \A c \in Comms : Captured(WORLD) => Captured(c), Collective
  PROVE  LogKept \/ LogGrown
<1>1. PICK b \in Bufs, c \in Comms :
        \/ MPI_Allreduce(b, c)
        \/ MPI_Alltoall(b, c)
        \/ MPI_Alltoallv(b, c)
        \/ \E root \in Ranks : MPI_Bcast(b, root, c) \/ MPI_Reduce(b, root, c)
  BY DEF Collective
<1>2. phase = "running" /\ (Captured(WORLD) => Captured(c))
  BY <1>1 DEF MPI_Allreduce, MPI_Alltoall, MPI_Alltoallv, MPI_Bcast, MPI_Reduce,
              Calling
<1>3. ASSUME NEW logged, logged <=> Captured(c), Receive(b, c, logged)
      PROVE  LogKept \/ LogGrown
  BY <1>2, <1>3, ReceiveLogs
<1>4. CASE MPI_Allreduce(b, c) \/ MPI_Alltoall(b, c)
  BY <1>3, <1>4 DEF MPI_Allreduce, MPI_Alltoall
<1>5. CASE MPI_Alltoallv(b, c)
  BY <1>3, <1>5 DEF MPI_Alltoallv, LogKept
<1>6. ASSUME NEW root \in Ranks, MPI_Bcast(b, root, c)
      PROVE  LogKept \/ LogGrown
  <2>1. CASE CommRank[c] # root
    <3>1. Receive(b, c, Captured(c) /\ CommRank[c] # root)
      BY <1>6, <2>1 DEF MPI_Bcast
    <3> QED BY <1>3, <2>1, <3>1
  <2>2. CASE CommRank[c] = root
    BY <1>6, <2>2 DEF MPI_Bcast, vars, LogKept
  <2> QED BY <2>1, <2>2
<1>7. ASSUME NEW root \in Ranks, MPI_Reduce(b, root, c)
      PROVE  LogKept \/ LogGrown
  <2>1. CASE CommRank[c] = root
    <3>1. Receive(b, c, Captured(c) /\ CommRank[c] = root)
      BY <1>7, <2>1 DEF MPI_Reduce
    <3> QED BY <1>3, <2>1, <3>1
  <2>2. CASE CommRank[c] # root
    BY <1>7, <2>2 DEF MPI_Reduce, vars, LogKept
  <2> QED BY <2>1, <2>2
<1> QED BY <1>1, <1>4, <1>5, <1>6, <1>7

LEMMA StepLogs ==
  ASSUME TypeOK, \A c \in Comms : Captured(WORLD) => Captured(c), [Next]_vars
  PROVE  \/ LogKept \/ LogGrown \/ LogTorn
         \/ phase = "running" /\ \E a \in Reqs : Finish(a, a)
         \/ WaitallStep
<1>1. CASE \E b \in Bufs, c \in Comms : MPI_Recv(b, c)
  <2>1. PICK b \in Bufs, c \in Comms : MPI_Recv(b, c)
    BY <1>1
  <2>2. phase = "running" /\ Receive(b, c, Captured(c))
    BY <2>1 DEF MPI_Recv, Calling
  <2> QED BY <2>2, ReceiveLogs
<1>2. CASE \E a \in Reqs : MPI_Wait(a)
  BY <1>2 DEF MPI_Wait, Calling
<1>3. CASE Crash
  BY <1>3 DEF Crash, LogKept, LogTorn
<1>4. CASE \E a \in Reqs : \/ \E b \in Bufs, c \in Comms : MPI_Irecv(a, b, c)
                           \/ MPI_Isend(a) \/ Deliver(a)
  BY <1>4 DEF MPI_Irecv, MPI_Isend, Deliver, LogKept
<1>5. CASE \/ MPI_Init \/ non_implemented_hook \/ MPI_Finalize
           \/ \E s \in Arrays : MPI_Waitall(s)
           \/ \E d \in {"0", "1"} : SetDump(d)
           \/ UNCHANGED vars
  BY <1>5 DEF MPI_Init, non_implemented_hook, MPI_Finalize, MPI_Waitall, SetDump,
              vars, LogKept
<1>6. CASE Collective
  BY <1>6, CollectiveLogs
<1> QED BY <1>1, <1>2, <1>3, <1>4, <1>5, <1>6 DEF Next

(* A wait of the captured process dumps the buffer of the pending receive. *)
LEMMA FinishLogs ==
  ASSUME Captured(WORLD), TypeOK, RequestTableExact, phase = "running",
         NEW a \in Reqs, Finish(a, a)
  PROVE  LogKept \/ LogGrown
<1>1. CASE Pending(a)
  <2>1. get_request(requestHtab, a) = active[a] /\ active[a] # NULL
    BY <1>1, GetRequest DEF TypeOK, RequestTableExact
  <2>2. Received(mem[active[a]], WORLD) /\ write_in_file(mem[active[a]])
    BY <1>1, <2>1 DEF Finish
  <2>3. mem[active[a]] \in Payload
    BY <1>1 DEF Pending, TypeOK
  <2> QED BY <2>2, <2>3, WriteLogs
<1>2. CASE ~Pending(a)
  <2>1. get_request(requestHtab, a) = NULL
    BY <1>2, GetRequest DEF TypeOK, RequestTableExact
  <2> QED BY <1>2, <2>1 DEF Finish, LogKept
<1> QED BY <1>1, <1>2

LEMMA AddressedStepLogs ==
  ASSUME AddressedWaits, TypeOK, NoLoopInC, RequestTableExact, [Next]_vars
  PROVE  LogKept \/ LogGrown \/ LogTorn
<1>1. Captured(WORLD) /\ \A c \in Comms : Captured(c)
  BY ConstantsAssumption DEF AddressedWaits, ConstantsAssumption
<1>2. CASE WaitallStep
  <2>1. Head(todo) \in Reqs /\ phase = "running" /\ todo # <<>>
    BY <1>2 DEF WaitallStep, TypeOK
  <2>2. WaitallKey(Head(todo)) = Head(todo)
    BY <2>1 DEF WaitallKey, NoLoopInC
  <2>3. Finish(Head(todo), Head(todo))
    BY <1>2, <2>2 DEF WaitallStep
  <2> QED BY <1>1, <2>1, <2>3, FinishLogs
<1> QED BY <1>1, <1>2, StepLogs, FinishLogs

(* As many numbers are used as payloads were received, ...                 *)
Counted == cpt_write = Len(inbound)

LEMMA CountedStep ==
  ASSUME TypeOK, Counted, LogKept \/ LogGrown \/ LogTorn
  PROVE  Counted'
<1>1. CASE LogGrown
  <2>1. PICK v \in Payload : inbound' = Append(inbound, v)
    BY <1>1 DEF LogGrown
  <2>2. Len(inbound') = Len(inbound) + 1
    BY <2>1 DEF TypeOK
  <2> QED BY <1>1, <2>2 DEF Counted, LogGrown
<1>2. CASE LogKept \/ LogTorn
  BY <1>2 DEF Counted, LogKept, LogTorn
<1> QED BY <1>1, <1>2

(* ... whether or not the files open.                                      *)
LEMMA InboundCounted ==
  ASSUME AddressedWaits, ~OutOfMemory
  PROVE  Spec => [](NoLoopInC /\ Counted)
<1>1. Init => NoLoopInC /\ Counted
  BY DEF Init, NoLoopInC, Counted
<1>2. TypeOK /\ RequestTableExact /\ NoLoopInC /\ Counted /\ [Next]_vars
        => NoLoopInC' /\ Counted'
  BY NoLoopInCStep, AddressedStepLogs, CountedStep
<1> QED BY <1>1, <1>2, TypeCorrect, TableExact, PTL DEF Spec

EveryOpenSucceeds == OpenOutcomes \subseteq {TRUE}

LEMMA SavedStep ==
  ASSUME EveryOpenSucceeds, TypeOK, AllInboundSaved, LogKept \/ LogGrown \/ LogTorn
  PROVE  AllInboundSaved'
<1>1. cpt_write = Len(inbound) /\ inbound \in Seq(Payload) /\ cpt_write \in Nat
  BY DEF AllInboundSaved, TypeOK
<1>2. CASE LogKept
  BY <1>2 DEF LogKept, AllInboundSaved
<1>3. CASE LogGrown
  <2>1. PICK v \in Payload :
          inbound' = Append(inbound, v) /\ files' = Put(files, cpt_write, v)
    BY <1>3 DEF LogGrown, EveryOpenSucceeds
  <2>2. Len(inbound') = Len(inbound) + 1 /\ cpt_write' = cpt_write + 1
    BY <1>1, <1>3, <2>1 DEF LogGrown
  <2>3. ASSUME NEW i \in 1..Len(inbound')
        PROVE  (i - 1) \in DOMAIN files' /\ files'[i - 1] = inbound'[i]
    <3>1. CASE i = Len(inbound) + 1
      BY <1>1, <2>1, <3>1 DEF Put
    <3>2. CASE i # Len(inbound) + 1
      <4>1. i \in 1..Len(inbound) /\ i - 1 # cpt_write
        BY <1>1, <2>2, <3>2
      <4>2. (i - 1) \in DOMAIN files /\ files[i - 1] = inbound[i]
        BY <4>1 DEF AllInboundSaved
      <4> QED BY <1>1, <2>1, <4>1, <4>2 DEF Put
    <3> QED BY <3>1, <3>2
  <2> QED BY <1>1, <2>2, <2>3 DEF AllInboundSaved
<1>4. CASE LogTorn
  <2>1. \A i \in 1..Len(inbound) : i - 1 # cpt_write
    BY <1>1
  <2> QED BY <1>4, <2>1 DEF LogTorn, AllInboundSaved, Put
<1> QED BY <1>2, <1>3, <1>4

(* If moreover every log file can be opened, the log is the sequence of    *)
(* payloads the captured process received while the dump was active, up to *)
(* the point where the run ended, however it ended.                        *)
THEOREM InboundSaved ==
  ASSUME AddressedWaits, ~OutOfMemory, EveryOpenSucceeds
  PROVE  Spec => []AllInboundSaved
<1>1. Init => AllInboundSaved
  BY DEF Init, AllInboundSaved
<1>2. TypeOK /\ RequestTableExact /\ NoLoopInC /\ AllInboundSaved /\ [Next]_vars
        => AllInboundSaved'
  BY AddressedStepLogs, SavedStep
<1> QED BY <1>1, <1>2, TypeCorrect, TableExact, InboundCounted, PTL DEF Spec

(* A file that is there has the payload of its number.  An open that fails *)
(* leaves a gap, if there was no older file to stay in its place.          *)
LogTrue ==
  \A i \in DOMAIN files : i < Len(inbound) => files[i] = inbound[i + 1]

NoneAhead ==
  (MaxStale = 0 /\ phase \in {"boot", "running"}) =>
    \A i \in DOMAIN files : i < cpt_write

GapsStay == EveryOpenSucceeds \/ MaxStale = 0

LEMMA TrueStep ==
  ASSUME GapsStay, TypeOK, Counted, NoneAhead, LogTrue,
         LogKept \/ LogGrown \/ LogTorn
  PROVE  LogTrue'
<1>1. /\ cpt_write = Len(inbound) /\ inbound \in Seq(Payload) /\ cpt_write \in Nat
      /\ DOMAIN files \subseteq Nat
  BY DEF Counted, TypeOK
<1>2. CASE LogKept
  BY <1>2 DEF LogKept, LogTrue
<1>3. CASE LogTorn
  BY <1>1, <1>3 DEF LogTorn, LogTrue, Put
<1>4. CASE LogGrown
  <2>1. PICK v \in Payload :
          /\ inbound' = Append(inbound, v)
          /\ \/ files' = Put(files, cpt_write, v)
             \/ files' = files /\ FALSE \in OpenOutcomes
    BY <1>4 DEF LogGrown
  <2>2. /\ inbound'[cpt_write + 1] = v /\ Len(inbound') = cpt_write + 1
        /\ \A i \in Nat : i < cpt_write => inbound'[i + 1] = inbound[i + 1]
    BY <1>1, <2>1
  <2>3. CASE files' = Put(files, cpt_write, v)
    <3>1. ASSUME NEW i \in DOMAIN files', i < Len(inbound')
          PROVE  files'[i] = inbound'[i + 1]
      <4>1. CASE i = cpt_write
        BY <2>2, <2>3, <4>1 DEF Put
      <4>2. CASE i # cpt_write
        <5>1. i \in DOMAIN files /\ files'[i] = files[i] /\ i \in Nat
          BY <1>1, <2>3, <4>2 DEF Put
        <5>2. i < cpt_write
          BY <1>1, <2>2, <3>1, <4>2, <5>1
        <5> QED BY <1>1, <2>2, <5>1, <5>2 DEF LogTrue
      <4> QED BY <4>1, <4>2
    <3> QED BY <3>1 DEF LogTrue
  <2>4. CASE files' = files /\ FALSE \in OpenOutcomes
    <3>1. \A i \in DOMAIN files : i < cpt_write
      BY <1>4, <2>4 DEF GapsStay, EveryOpenSucceeds, NoneAhead, LogGrown
    <3>2. ASSUME NEW i \in DOMAIN files PROVE files[i] = inbound'[i + 1]
      <4>1. i \in Nat /\ i < cpt_write /\ files[i] = inbound[i + 1]
        BY <1>1, <3>1 DEF LogTrue
      <4> QED BY <2>2, <4>1
    <3> QED BY <2>4, <3>2 DEF LogTrue
  <2> QED BY <2>1, <2>3, <2>4
<1> QED BY <1>2, <1>3, <1>4

LEMMA NoneAheadStep ==
  ASSUME TypeOK, NoneAhead, LogKept \/ LogGrown \/ LogTorn, [Next]_vars
  PROVE  NoneAhead'
<1> SUFFICES ASSUME MaxStale = 0, phase' \in {"boot", "running"},
                    NEW i \in DOMAIN files'
             PROVE  i < cpt_write'
  BY DEF NoneAhead
<1>1. phase \in {"boot", "running"}
  BY StepOnRequests DEF MPI_Init, MPI_Irecv, MPI_Isend, MPI_Wait, WaitallStep,
                        MPI_Finalize, Calling
<1>2. \A j \in DOMAIN files : j < cpt_write
  BY <1>1 DEF NoneAhead
<1>3. cpt_write \in Nat /\ DOMAIN files \subseteq Nat
  BY DEF TypeOK
<1>4. CASE LogKept
  BY <1>2, <1>4 DEF LogKept
<1>5. CASE LogGrown
  <2>1. cpt_write' = cpt_write + 1 /\ (i = cpt_write \/ i \in DOMAIN files)
    BY <1>5 DEF LogGrown, Put
  <2> QED BY <1>2, <1>3, <2>1
<1> QED BY <1>4, <1>5 DEF LogTorn

LEMMA LogIsTrue ==
  ASSUME AddressedWaits, ~OutOfMemory, GapsStay
  PROVE  Spec => []LogTrue
<1>1. Init => NoneAhead /\ LogTrue
  <2> SUFFICES ASSUME Init PROVE NoneAhead /\ LogTrue
    OBVIOUS
  <2>1. PICK k \in 0..MaxStale : files = [i \in 0..(k - 1) |-> Junk]
    BY DEF Init
  <2>2. inbound = <<>> /\ \A i \in DOMAIN files : i \in 0..(k - 1)
    BY <2>1 DEF Init
  <2> QED BY <2>1, <2>2 DEF NoneAhead, LogTrue
<1>2. TypeOK /\ RequestTableExact /\ NoLoopInC /\ Counted /\ NoneAhead /\ LogTrue
        /\ [Next]_vars => NoneAhead' /\ LogTrue'
  BY AddressedStepLogs, NoneAheadStep, TrueStep
<1> QED BY <1>1, <1>2, TypeCorrect, TableExact, InboundCounted, PTL DEF Spec

-----------------------------------------------------------------------------
(* The processes nobody asked to capture. *)

BystanderTable == requestHtab = EmptyTable

BystanderLog ==
  /\ cpt_write = Len(inbound)
  /\ \A i \in DOMAIN files :
       \/ files[i] = Junk
       \/ i < cpt_write /\ files[i] = inbound[i + 1]

LEMMA BystanderTableStep ==
  ASSUME ~Captured(WORLD), TypeOK, BystanderTable, [Next]_vars
  PROVE  BystanderTable'
<1>1. CASE MPI_Init \/ MPI_Finalize
  BY <1>1 DEF MPI_Init, init_MPIre, MPI_Finalize, BystanderTable
<1>2. ASSUME NEW a \in Reqs, NEW b \in Bufs, NEW c \in Comms, MPI_Irecv(a, b, c)
      PROVE  BystanderTable'
  BY <1>2 DEF MPI_Irecv, TableReady, BystanderTable
<1>3. ASSUME NEW a, NEW key, Finish(a, key) PROVE BystanderTable'
  BY <1>3 DEF Finish, BystanderTable
<1>4. CASE WaitallStep \/ \E a \in Reqs : MPI_Isend(a) \/ MPI_Wait(a)
  BY <1>3, <1>4 DEF WaitallStep, MPI_Wait, MPI_Isend, BystanderTable
<1>5. CASE Quiet
  BY <1>5 DEF Quiet, BystanderTable
<1> QED BY <1>1, <1>2, <1>4, <1>5, StepOnRequests

LEMMA BystanderLogStep ==
  ASSUME ~Captured(WORLD), TypeOK, BystanderLog, [Next]_vars
  PROVE  BystanderLog'
<1>1. /\ cpt_write = Len(inbound) /\ inbound \in Seq(Payload) /\ cpt_write \in Nat
      /\ DOMAIN files \subseteq Nat
  BY DEF BystanderLog, TypeOK
<1>2. CASE LogKept
  BY <1>2 DEF LogKept, BystanderLog
<1>3. CASE LogTorn
  BY <1>1, <1>3 DEF LogTorn, BystanderLog, Put
<1>4. CASE LogGrown
  <2>1. PICK v \in Payload :
          /\ inbound' = Append(inbound, v)
          /\ files' \in {Put(files, cpt_write, v), files}
    BY <1>4 DEF LogGrown
  <2>2. /\ cpt_write' = cpt_write + 1 /\ Len(inbound') = cpt_write'
        /\ inbound'[cpt_write + 1] = v
        /\ \A i \in Nat : i < cpt_write => inbound'[i + 1] = inbound[i + 1]
    BY <1>1, <1>4, <2>1 DEF LogGrown
  <2>3. ASSUME NEW i \in DOMAIN files', files'[i] # Junk
        PROVE  i < cpt_write' /\ files'[i] = inbound'[i + 1]
    <3>1. CASE i = cpt_write /\ files' = Put(files, cpt_write, v)
      BY <1>1, <2>2, <3>1 DEF Put
    <3>2. CASE i \in DOMAIN files /\ files'[i] = files[i]
      <4>1. i \in Nat /\ i < cpt_write /\ files[i] = inbound[i + 1]
        BY <1>1, <2>3, <3>2 DEF BystanderLog
      <4> QED BY <1>1, <2>2, <3>2, <4>1
    <3> QED BY <2>1, <3>1, <3>2 DEF Put
  <2> QED BY <2>2, <2>3 DEF BystanderLog
<1>5. ASSUME NEW a, NEW key, Finish(a, key) PROVE LogKept
  BY <1>5 DEF Finish, Received, LogKept
<1>6. CASE WaitallStep
  BY <1>2, <1>5, <1>6 DEF WaitallStep
<1> QED BY <1>2, <1>3, <1>4, <1>5, <1>6, StepLogs

(* A process that is not the captured one keeps no table, and what it logs *)
(* is what it received in calls on communicators that give it the captured *)
(* rank.                                                                   *)
THEOREM BystandersUntouched == Spec => []BystanderUntouched
<1>1. CASE ~Captured(WORLD)
  <2>1. Init => BystanderTable /\ BystanderLog
    BY DEF Init, BystanderTable, BystanderLog
  <2>2. TypeOK /\ BystanderTable /\ BystanderLog /\ [Next]_vars
          => BystanderTable' /\ BystanderLog'
    BY <1>1, BystanderTableStep, BystanderLogStep
  <2>3. BystanderTable /\ BystanderLog => BystanderUntouched
    BY DEF BystanderTable, BystanderLog, BystanderUntouched
  <2> QED BY <2>1, <2>2, <2>3, TypeCorrect, PTL DEF Spec
<1>2. CASE Captured(WORLD)
  <2>1. BystanderUntouched
    BY <1>2 DEF BystanderUntouched
  <2> QED BY <2>1, PTL
<1> QED BY <1>1, <1>2

NoneCaptured == \A c \in Comms : ~Captured(c)

(* mpi_alltoallv_ brings every Fortran program down. *)
NoWildCounts == Api = "C" \/ "MPI_Alltoallv" \notin Calls

Undisturbed == phase # "fault" /\ inbound = <<>>

LEMMA UndisturbedStep ==
  ASSUME NoneCaptured, NoWildCounts, Undisturbed, [Next]_vars
  PROVE  Undisturbed'
<1>0. ~Captured(WORLD)
  BY ConstantsAssumption DEF NoneCaptured, ConstantsAssumption
<1>1. ASSUME NEW b, NEW c \in Comms, NEW logged, logged => Captured(c),
             Receive(b, c, logged)
      PROVE  Undisturbed'
  <2>1. ~Captured(c) /\ ~logged
    BY <1>1 DEF NoneCaptured
  <2> QED BY <1>0, <1>1, <2>1 DEF Receive, Received, logVars, Undisturbed
<1>2. CASE Collective
  <2>1. PICK b \in Bufs, c \in Comms :
          \/ MPI_Allreduce(b, c)
          \/ MPI_Alltoall(b, c)
          \/ MPI_Alltoallv(b, c)
          \/ \E root \in Ranks : MPI_Bcast(b, root, c) \/ MPI_Reduce(b, root, c)
    BY <1>2 DEF Collective
  <2>2. \/ \E logged : (logged => Captured(c)) /\ Receive(b, c, logged)
        \/ UNCHANGED vars
    BY <2>1 DEF MPI_Allreduce, MPI_Alltoall, MPI_Alltoallv, MPI_Bcast, MPI_Reduce,
                Calling, NoWildCounts
  <2> QED BY <1>1, <2>2 DEF vars, Undisturbed
<1>3. CASE \E b \in Bufs, c \in Comms : MPI_Recv(b, c)
  BY <1>1, <1>3 DEF MPI_Recv
<1>4. CASE \E a \in Reqs, b \in Bufs, c \in Comms : MPI_Irecv(a, b, c)
  BY <1>4 DEF MPI_Irecv, NoneCaptured, Undisturbed
<1>5. CASE WaitallStep \/ \E a \in Reqs : MPI_Isend(a) \/ Deliver(a) \/ MPI_Wait(a)
  BY <1>0, <1>5 DEF WaitallStep, MPI_Wait, Finish, Received, MPI_Isend, Deliver,
                    Undisturbed
<1>6. CASE \/ MPI_Init \/ MPI_Finalize \/ Crash \/ non_implemented_hook
           \/ \E s \in Arrays : MPI_Waitall(s)
           \/ \E d \in {"0", "1"} : SetDump(d)
           \/ UNCHANGED vars
  BY <1>6 DEF MPI_Init, init_MPIre, MPI_Finalize, Crash, non_implemented_hook,
              MPI_Waitall, SetDump, vars, Undisturbed
<1> QED BY <1>2, <1>3, <1>4, <1>5, <1>6 DEF Next

(* A process that no communicator gives the rank to capture never notices  *)
(* the library: it uses no number, writes no file, keeps no entry and does *)
(* not fault, the Fortran MPI_Alltoallv excepted.                          *)
THEOREM OutsidersUndisturbed ==
  ASSUME NoneCaptured, NoWildCounts
  PROVE  Spec => [](/\ phase # "fault"
                    /\ cpt_write = 0 /\ requestHtab = EmptyTable
                    /\ \A i \in DOMAIN files : files[i] = Junk)
<1>1. Init => Undisturbed
  BY DEF Init, Undisturbed
<1>2. Undisturbed /\ [Next]_vars => Undisturbed'
  BY UndisturbedStep
<1>3. ~Captured(WORLD)
  BY ConstantsAssumption DEF NoneCaptured, ConstantsAssumption
<1>4. TypeOK /\ BystanderUntouched /\ Undisturbed =>
        /\ phase # "fault"
        /\ cpt_write = 0 /\ requestHtab = EmptyTable
        /\ \A i \in DOMAIN files : files[i] = Junk
  BY <1>3 DEF BystanderUntouched, Undisturbed, TypeOK
<1> QED BY <1>1, <1>2, <1>4, TypeCorrect, BystandersUntouched, PTL DEF Spec
=============================================================================
