------------------------ MODULE CaptureReplayProofs -------------------------
(***************************************************************************)
(* Theorems about CaptureReplay, for every value of the constants: a       *)
(* replay reads the log in step with the captured run, leaves the          *)
(* application with the same memory, and implements RecordReplay.          *)
(***************************************************************************)
EXTENDS CaptureReplay, CaptureProofs

-----------------------------------------------------------------------------
(* What the captured run is for a replay.  A call gets payloads in some    *)
(* buffers, changes the set of pending receives, and, when the dump is     *)
(* active, adds what it got to the log.                                    *)

Gets(c, posted) ==
  IF c.op \in {"MPI_Wait", "MPI_Waitall"}
  THEN {posted[a] : a \in {c.req} \cap DOMAIN posted}
  ELSE IF \/ c.op \in {"MPI_Recv", "MPI_Allreduce", "MPI_Alltoall", "MPI_Alltoallv"}
          \/ c.op = "MPI_Bcast" /\ MPIre_rank # c.root
          \/ c.op = "MPI_Reduce" /\ MPIre_rank = c.root
       THEN {c.buf} ELSE {}

PostedAfter(c, posted) ==
  IF c.op = "MPI_Irecv" THEN Put(posted, c.req, c.buf)
  ELSE IF c.op \in {"MPI_Wait", "MPI_Waitall"} THEN del_request(posted, c.req)
  ELSE posted

OwnedIn(posted, b) == \E a \in DOMAIN posted : posted[a] = b

(* Entry t of hist is what its call makes of entry s, where log is what    *)
(* the process received.                                                   *)
Follows(s, t, log) ==
  LET got == Gets(t.call, s.posted) IN
  /\ t.call.op = "MPI_Irecv" => t.call.req \notin DOMAIN s.posted
  /\ t.posted = PostedAfter(t.call, s.posted)
  /\ \A b \in Bufs : b \notin got /\ ~OwnedIn(s.posted, b) => t.mem[b] = s.mem[b]
  /\ got = {} \/ t.dump # "1" => t.cpt = s.cpt
  /\ got # {} /\ t.dump = "1" => /\ t.cpt = s.cpt + 1
                                 /\ \A b \in got : t.mem[b] = log[t.cpt]

Tables == UNION {[S -> Bufs] : S \in SUBSET Reqs}

Ops == AllCalls \cup {"MPI_Init"}

CallRecord ==
  [op : Ops, buf : Bufs \cup {NULL}, req : Reqs \cup {NULL},
   root : Ranks \cup {NULL}]

Entry ==
  [call : CallRecord, mem : [Bufs -> Payload], cpt : Nat, posted : Tables,
   dump : {"unset", "0", "1"}]

(* The entry e shows the state the process is in. *)
Shows(e) ==
  /\ e.cpt = cpt_write /\ e.posted = PostedIn(active) /\ e.dump = dump
  /\ \A b \in Bufs : Free(b) => e.mem[b] = mem[b]

HistInv ==
  /\ hist \in Seq(Entry)
  /\ phase = "boot" => hist = <<>>
  /\ phase = "running" => hist # <<>> /\ Shows(hist[Len(hist)])
  /\ \A i \in 1..Len(hist) : hist[i].cpt <= Len(inbound)
  /\ \A i \in 1..(Len(hist) - 1) : Follows(hist[i], hist[i + 1], inbound)

-----------------------------------------------------------------------------
(* The tables of pending receives. *)

LEMMA PostedInType ==
  ASSUME NEW act \in [Reqs -> Bufs \cup {Idle, Sending}]
  PROVE  /\ PostedIn(act) \in Tables
         /\ \A b \in Bufs :
              (\A a \in Reqs : act[a] # b) <=> ~OwnedIn(PostedIn(act), b)
<1>1. PostedIn(act) \in [{x \in Reqs : act[x] \in Bufs} -> Bufs]
  BY DEF PostedIn
<1>2. {x \in Reqs : act[x] \in Bufs} \in SUBSET Reqs
  OBVIOUS
<1>3. PostedIn(act) \in Tables
  BY <1>1, <1>2 DEF Tables
<1>4. ASSUME NEW b \in Bufs
      PROVE  (\A a \in Reqs : act[a] # b) <=> ~OwnedIn(PostedIn(act), b)
  BY DEF OwnedIn, PostedIn
<1> QED BY <1>3, <1>4

LEMMA CallType ==
  ASSUME NEW op \in Ops, NEW b \in Bufs \cup {NULL},
         NEW a \in Reqs \cup {NULL}, NEW root \in Ranks \cup {NULL}
  PROVE  /\ Call(op, b, a, root) \in CallRecord
         /\ Call(op, b, a, root).op = op /\ Call(op, b, a, root).buf = b
         /\ Call(op, b, a, root).req = a /\ Call(op, b, a, root).root = root
BY DEF Call, CallRecord

(* What a call that returns does to the process. *)
Effect(c) ==
  LET posted == PostedIn(active)
      got == Gets(c, posted)
  IN
  /\ c \in CallRecord
  /\ c.op = "MPI_Irecv" => c.req \notin DOMAIN posted
  /\ PostedIn(active') = PostedAfter(c, posted)
  /\ \A b \in Bufs : b \notin got /\ Free(b) => mem'[b] = mem[b]
  /\ got = {} \/ dump' # "1" => inbound' = inbound
  /\ got # {} /\ dump' = "1" =>
       \E v \in Payload : /\ inbound' = Append(inbound, v)
                          /\ \A b \in got : mem'[b] = v

LEMMA IdleEffect ==
  ASSUME TypeOK, NEW c \in CallRecord, Gets(c, PostedIn(active)) = {},
         PostedIn(active') = PostedIn(active), c.op # "MPI_Irecv",
         c.op \notin {"MPI_Wait", "MPI_Waitall"},
         UNCHANGED <<mem, inbound>>
  PROVE  Effect(c)
BY DEF Effect, PostedAfter

LEMMA IsendEffect ==
  ASSUME TypeOK, NEW a \in Reqs, MPI_Isend(a)
  PROVE  Effect(Call("MPI_Isend", NULL, a, NULL))
<1> DEFINE c == Call("MPI_Isend", NULL, a, NULL)
<1>1. c \in CallRecord /\ c.op = "MPI_Isend"
  BY CallType DEF Ops, AllCalls
<1>2. Gets(c, PostedIn(active)) = {}
  BY <1>1 DEF Gets
<1>3. active \in [Reqs -> Bufs \cup {Idle, Sending}] /\ active[a] = Idle
      /\ active' = [active EXCEPT ![a] = Sending]
  BY DEF TypeOK, MPI_Isend
<1>4. \A x \in Reqs : /\ active'[x] \in Bufs <=> active[x] \in Bufs
                      /\ active[x] \in Bufs => active'[x] = active[x]
  BY <1>3, NoBuffer
<1>5. PostedIn(active') = PostedIn(active)
  <2>1. {x \in Reqs : active'[x] \in Bufs} = {x \in Reqs : active[x] \in Bufs}
    BY <1>4
  <2> QED BY <1>4, <2>1 DEF PostedIn
<1>6. UNCHANGED <<mem, inbound>>
  BY DEF MPI_Isend
<1> QED BY <1>1, <1>2, <1>5, <1>6, IdleEffect

LEMMA IrecvEffect ==
  ASSUME TypeOK, NEW a \in Reqs, NEW b \in Bufs, NEW m \in Comms,
         MPI_Irecv(a, b, m), phase' = "running"
  PROVE  Effect(Call("MPI_Irecv", b, a, NULL))
<1> DEFINE c == Call("MPI_Irecv", b, a, NULL)
<1>1. c \in CallRecord /\ c.op = "MPI_Irecv" /\ c.req = a /\ c.buf = b
  BY CallType DEF Ops, AllCalls
<1>2. Gets(c, PostedIn(active)) = {}
  BY <1>1 DEF Gets
<1>3. active \in [Reqs -> Bufs \cup {Idle, Sending}] /\ active[a] = Idle
      /\ active' = [active EXCEPT ![a] = b]
  BY DEF TypeOK, MPI_Irecv
<1>4. a \notin DOMAIN PostedIn(active)
  BY <1>3, NoBuffer DEF PostedIn
<1>5. PostedIn(active') = Put(PostedIn(active), a, b)
  <2>1. {x \in Reqs : active'[x] \in Bufs} = {x \in Reqs : active[x] \in Bufs} \cup {a}
    BY <1>3
  <2> QED BY <1>3, <2>1 DEF PostedIn, Put
<1>6. UNCHANGED <<mem, inbound>>
  BY DEF MPI_Irecv
<1> QED BY <1>1, <1>2, <1>4, <1>5, <1>6 DEF Effect, PostedAfter

(* A call that returns a payload at once. *)
LEMMA ReceiveEffect ==
  ASSUME TypeOK, Captured(WORLD), NEW b \in Bufs, NEW m, NEW logged,
         Receive(b, m, logged),
         NEW c \in CallRecord, Gets(c, PostedIn(active)) = {b},
         c.op # "MPI_Irecv", c.op \notin {"MPI_Wait", "MPI_Waitall"}
  PROVE  Effect(c)
<1>1. PICK v \in Vals : mem' = [mem EXCEPT ![b] = v] /\ Received(v, m)
  BY DEF Receive
<1>2. UNCHANGED <<dump, active>>
  BY DEF Receive
<1>3. mem' \in [Bufs -> Payload] /\ mem'[b] = v /\ v \in Payload
      /\ \A x \in Bufs \ {b} : mem'[x] = mem[x]
  BY <1>1 DEF TypeOK, Payload
<1>4. PostedIn(active') = PostedAfter(c, PostedIn(active))
  BY <1>2 DEF PostedAfter
<1>5. inbound' = IF dump' = "1" THEN Append(inbound, v) ELSE inbound
  BY <1>1, <1>2 DEF Received
<1> QED BY <1>3, <1>4, <1>5 DEF Effect

(* A request that is waited for. *)
LEMMA FinishEffect ==
  ASSUME TypeOK, Captured(WORLD), NEW a \in Reqs, NEW key, Finish(a, key),
         NEW op \in {"MPI_Wait", "MPI_Waitall"}
  PROVE  Effect(Call(op, NULL, a, NULL))
<1> DEFINE c == Call(op, NULL, a, NULL)
           posted == PostedIn(active)
<1>1. c \in CallRecord /\ c.op = op /\ c.req = a
  <2>1. op \in Ops
    BY DEF Ops, AllCalls
  <2> QED BY <2>1, CallType
<1>2. active \in [Reqs -> Bufs \cup {Idle, Sending}]
      /\ active' = [active EXCEPT ![a] = Idle]
  BY DEF TypeOK, Finish
<1>3. PostedIn(active') = del_request(posted, a)
  <2>1. {x \in Reqs : active'[x] \in Bufs} = {x \in Reqs : active[x] \in Bufs} \ {a}
    BY <1>2, NoBuffer
  <2> QED BY <1>2, <2>1 DEF PostedIn, del_request
<1>4. Gets(c, posted) = IF Pending(a) THEN {active[a]} ELSE {}
  BY <1>1, <1>2 DEF Gets, PostedIn, Pending
<1>5. UNCHANGED <<dump, mem>>
  BY DEF Finish
<1>6. CASE Pending(a)
  <2>1. Received(mem[active[a]], WORLD) /\ mem[active[a]] \in Payload
    BY <1>6 DEF Finish, Pending, TypeOK
  <2>2. inbound' = IF dump' = "1" THEN Append(inbound, mem[active[a]]) ELSE inbound
    BY <1>5, <2>1 DEF Received
  <2> QED BY <1>1, <1>3, <1>4, <1>5, <1>6, <2>1, <2>2 DEF Effect, PostedAfter
<1>7. CASE ~Pending(a)
  <2>1. inbound' = inbound
    BY <1>7 DEF Finish
  <2> QED BY <1>1, <1>3, <1>4, <1>5, <1>7, <2>1 DEF Effect, PostedAfter
<1> QED BY <1>6, <1>7

-----------------------------------------------------------------------------
(* hist during the captured run. *)

LEMMA FollowsGrows ==
  ASSUME NEW s \in Entry, NEW t \in Entry, NEW log \in Seq(Payload),
         NEW v \in Payload, t.cpt <= Len(log), Follows(s, t, log)
  PROVE  Follows(s, t, Append(log, v))
<1>1. ASSUME Gets(t.call, s.posted) # {}, t.dump = "1"
      PROVE  Append(log, v)[t.cpt] = log[t.cpt]
  <2>1. s.cpt \in Nat /\ t.cpt = s.cpt + 1
    BY <1>1 DEF Follows, Entry
  <2>2. t.cpt \in 1..Len(log)
    BY <2>1
  <2> QED BY <2>2
<1> QED BY <1>1 DEF Follows

Grows == inbound' = inbound \/ \E v \in Payload : inbound' = Append(inbound, v)

LEMMA HistPast ==
  ASSUME TypeOK, HistInv, Grows
  PROVE  /\ \A i \in 1..Len(hist) : hist[i].cpt <= Len(inbound')
         /\ \A i \in 1..(Len(hist) - 1) : Follows(hist[i], hist[i + 1], inbound')
<1>1. hist \in Seq(Entry) /\ inbound \in Seq(Payload) /\ Len(inbound) \in Nat
      /\ Len(hist) \in Nat
  BY DEF HistInv, TypeOK
<1>2. CASE inbound' = inbound
  BY <1>2 DEF HistInv
<1>3. ASSUME NEW v \in Payload, inbound' = Append(inbound, v)
      PROVE  /\ \A i \in 1..Len(hist) : hist[i].cpt <= Len(inbound')
             /\ \A i \in 1..(Len(hist) - 1) : Follows(hist[i], hist[i + 1], inbound')
  <2>1. ASSUME NEW i \in 1..Len(hist) PROVE hist[i].cpt <= Len(inbound')
    <3>1. hist[i] \in Entry
      BY <1>1
    <3>2. hist[i].cpt \in Nat /\ hist[i].cpt <= Len(inbound)
      BY <3>1 DEF Entry, HistInv
    <3> QED BY <1>1, <1>3, <3>2
  <2>2. ASSUME NEW i \in 1..(Len(hist) - 1)
        PROVE  Follows(hist[i], hist[i + 1], inbound')
    <3>1. i \in 1..Len(hist) /\ i + 1 \in 1..Len(hist)
      BY <1>1
    <3>2. hist[i] \in Entry /\ hist[i + 1] \in Entry
      BY <1>1, <3>1
    <3> QED BY <1>1, <1>3, <3>1, <3>2, FollowsGrows DEF HistInv
  <2> QED BY <2>1, <2>2
<1> QED BY <1>2, <1>3 DEF Grows

LEMMA HistKept ==
  ASSUME TypeOK, HistInv, Grows, hist' = hist,
         phase' = "boot" => phase = "boot",
         phase' = "running" =>
           /\ phase = "running"
           /\ UNCHANGED <<cpt_write, active, dump>>
           /\ \A b \in Bufs : Free(b) => mem'[b] = mem[b]
  PROVE  HistInv'
<1>1. ASSUME phase' = "running" PROVE hist' # <<>> /\ Shows(hist[Len(hist)])'
  BY <1>1 DEF HistInv, Shows, Free
<1> QED BY <1>1, HistPast DEF HistInv

LEMMA HistGrown ==
  ASSUME TypeOK, TypeOK', HistInv, Counted, Counted',
         phase = "running", phase' = "running", NEW c, Effect(c), Returns(c)
  PROVE  HistInv'
<1> DEFINE n == Len(hist)
           s == hist[n]
           e == [call |-> c, mem |-> mem', cpt |-> cpt_write',
                 posted |-> PostedIn(active'), dump |-> dump']
<1>1. hist' = Append(hist, e)
  BY DEF Returns
<1>2. /\ hist \in Seq(Entry) /\ n \in Nat /\ n # 0 /\ s \in Entry /\ Shows(s)
  BY DEF HistInv
<1>3. e \in Entry
  BY PostedInType DEF Effect, Entry, TypeOK
<1>4. /\ s.cpt = Len(inbound) /\ s.posted = PostedIn(active)
      /\ e.cpt = Len(inbound') /\ Len(inbound) \in Nat
      /\ \A b \in Bufs : ~OwnedIn(s.posted, b) => Free(b) /\ s.mem[b] = mem[b]
  <2>1. \A b \in Bufs : ~OwnedIn(s.posted, b) => Free(b)
    <3>1. s.posted = PostedIn(active)
      BY <1>2 DEF Shows
    <3>2. active \in [Reqs -> Bufs \cup {Idle, Sending}]
      BY DEF TypeOK
    <3>3. \A b \in Bufs : Free(b) <=> ~OwnedIn(PostedIn(active), b)
      BY <3>2, PostedInType DEF Free
    <3> QED BY <3>1, <3>3, Zenon
  <2> QED BY <1>2, <2>1 DEF Shows, Counted, TypeOK
<1>5. Follows(s, e, inbound')
  <2> DEFINE got == Gets(c, s.posted)
  <2>1. /\ c.op = "MPI_Irecv" => c.req \notin DOMAIN s.posted
        /\ e.posted = PostedAfter(c, s.posted)
        /\ \A b \in Bufs : b \notin got /\ ~OwnedIn(s.posted, b) => e.mem[b] = s.mem[b]
    BY <1>4 DEF Effect
  <2>2. CASE got = {} \/ e.dump # "1"
    BY <1>4, <2>1, <2>2 DEF Effect, Follows
  <2>3. CASE got # {} /\ e.dump = "1"
    <3>1. PICK v \in Payload : /\ inbound' = Append(inbound, v)
                               /\ \A b \in got : mem'[b] = v
      BY <1>4, <2>3 DEF Effect
    <3>2. Len(inbound') = Len(inbound) + 1 /\ inbound'[Len(inbound')] = v
      BY <3>1 DEF TypeOK
    <3> QED BY <1>4, <2>1, <2>3, <3>1, <3>2 DEF Follows
  <2> QED BY <2>2, <2>3
<1>6. Grows
  BY DEF Effect, Grows
<1>7. /\ e.cpt = cpt_write' /\ e.posted = PostedIn(active') /\ e.dump = dump'
      /\ e.mem = mem'
  OBVIOUS
<1> HIDE DEF e
<1>8. hist' \in Seq(Entry) /\ Len(hist') = n + 1 /\ hist'[n + 1] = e
      /\ \A i \in 1..n : hist'[i] = hist[i]
  BY <1>1, <1>2, <1>3
<1>9. \A i \in 1..Len(hist') : hist'[i].cpt <= Len(inbound')
  BY <1>2, <1>4, <1>6, <1>8, HistPast
<1>10. ASSUME NEW i \in 1..(Len(hist') - 1)
       PROVE  Follows(hist'[i], hist'[i + 1], inbound')
  <2>1. CASE i = n
    BY <1>2, <1>5, <1>8, <2>1
  <2>2. CASE i # n
    <3>1. i \in 1..(n - 1) /\ i \in 1..n /\ i + 1 \in 1..n
      BY <1>2, <1>8, <2>2
    <3> QED BY <1>6, <1>8, <3>1, HistPast
  <2> QED BY <2>1, <2>2
<1>11. hist' # <<>> /\ hist'[Len(hist')] = e
  BY <1>2, <1>8
<1>12. Shows(hist[Len(hist)])'
  BY <1>7, <1>11 DEF Shows
<1> QED BY <1>8, <1>9, <1>10, <1>11, <1>12 DEF HistInv

LEMMA HistReturns ==
  ASSUME TypeOK, TypeOK', HistInv, Counted, Counted',
         phase = "running", phase' # "boot", Grows, NEW c, Returns(c),
         phase' = "running" => Effect(c)
  PROVE  HistInv'
<1>1. CASE phase' = "running"
  BY <1>1, HistGrown
<1>2. CASE phase' # "running"
  <2>1. hist' = hist
    BY <1>2 DEF Returns
  <2> QED BY <1>2, <2>1, HistKept
<1> QED BY <1>1, <1>2

LEMMA InitHist ==
  ASSUME TypeOK, TypeOK', HistInv, Counted', MPI_Init,
         Returns(Call("MPI_Init", NULL, NULL, NULL))
  PROVE  HistInv'
<1> DEFINE c == Call("MPI_Init", NULL, NULL, NULL)
           e == [call |-> c, mem |-> mem', cpt |-> cpt_write',
                 posted |-> PostedIn(active'), dump |-> dump']
<1>1. hist = <<>> /\ phase' \in {"running", "exited"} /\ inbound' = inbound
  BY DEF HistInv, MPI_Init, init_MPIre
<1>2. CASE phase' = "exited"
  <2>1. hist' = hist
    BY <1>2 DEF Returns
  <2> QED BY <1>1, <1>2, <2>1 DEF HistInv
<1>3. CASE phase' = "running"
  <2>1. hist' = Append(hist, e)
    BY <1>3 DEF Returns
  <2>2. c \in CallRecord
    BY CallType DEF Ops
  <2>3. e \in Entry
    BY <2>2, PostedInType DEF Entry, TypeOK
  <2>4. /\ e.cpt = cpt_write' /\ e.posted = PostedIn(active') /\ e.dump = dump'
        /\ e.mem = mem'
    OBVIOUS
  <2> HIDE DEF e
  <2>5. hist' \in Seq(Entry) /\ Len(hist') = 1 /\ hist'[1] = e /\ hist' # <<>>
    BY <1>1, <2>1, <2>3
  <2>6. Shows(hist[Len(hist)])'
    BY <2>4, <2>5 DEF Shows
  <2>7. e.cpt = Len(inbound') /\ Len(inbound') \in Nat
    BY <2>4 DEF Counted, TypeOK
  <2> QED BY <1>3, <2>5, <2>6, <2>7 DEF HistInv
<1> QED BY <1>1, <1>2, <1>3

LEMMA ReceiveGrows ==
  ASSUME TypeOK, NEW b, NEW m, NEW logged, Receive(b, m, logged), phase = "running"
  PROVE  Grows /\ phase' # "boot"
<1>1. PICK v \in Vals : /\ Received(v, m)
                        /\ IF logged THEN write_in_file(v) ELSE UNCHANGED logVars
  BY DEF Receive
<1>2. Grows
  BY <1>1 DEF Received, Grows, Payload
<1>3. phase' # "boot"
  BY <1>1 DEF write_in_file, logVars
<1> QED BY <1>2, <1>3

LEMMA FinishGrows ==
  ASSUME TypeOK, NEW a \in Reqs, NEW key, Finish(a, key), phase = "running"
  PROVE  Grows /\ phase' # "boot"
<1>1. Pending(a) => mem[active[a]] \in Payload
  BY DEF Pending, TypeOK
<1>2. Grows
  BY <1>1 DEF Finish, Received, Grows
<1>3. phase' # "boot"
  BY DEF Finish, write_in_file, logVars
<1> QED BY <1>2, <1>3

(* Calls that get a payload in b at once. *)
LEMMA ReceiveHist ==
  ASSUME TypeOK, TypeOK', HistInv, Counted, Counted',
         Captured(WORLD), phase = "running",
         NEW b \in Bufs, NEW m, NEW logged, Receive(b, m, logged),
         NEW op \in {"MPI_Recv", "MPI_Allreduce", "MPI_Alltoall", "MPI_Alltoallv",
                     "MPI_Bcast", "MPI_Reduce"},
         NEW root \in Ranks \cup {NULL},
         op = "MPI_Bcast" => MPIre_rank # root,
         op = "MPI_Reduce" => MPIre_rank = root,
         Returns(Call(op, b, NULL, root))
  PROVE  HistInv'
<1> DEFINE c == Call(op, b, NULL, root)
<1>1. /\ c \in CallRecord /\ c.op = op /\ c.buf = b /\ c.root = root
  <2>1. op \in Ops
    BY DEF Ops, AllCalls
  <2> QED BY <2>1, CallType
<1>2. Gets(c, PostedIn(active)) = {b}
  BY <1>1 DEF Gets
<1> HIDE DEF c
<1>3. c.op # "MPI_Irecv" /\ c.op \notin {"MPI_Wait", "MPI_Waitall"}
  BY <1>1
<1>4. Effect(c)
  BY <1>1, <1>2, <1>3, ReceiveEffect
<1>5. Grows /\ phase' # "boot"
  BY ReceiveGrows
<1>6. Returns(c)
  BY DEF c
<1> QED BY <1>4, <1>5, <1>6, HistReturns

(* Calls that leave the process as it is, except perhaps for the dump. *)
LEMMA IdleHist ==
  ASSUME TypeOK, TypeOK', HistInv, Counted, Counted',
         phase = "running", UNCHANGED <<phase, mem, active, inbound>>,
         NEW op \in {"MPI_Bcast", "MPI_Reduce", "setenv"},
         NEW b \in Bufs \cup {NULL}, NEW root \in Ranks \cup {NULL},
         op = "MPI_Bcast" => MPIre_rank = root,
         op = "MPI_Reduce" => MPIre_rank # root,
         Returns(Call(op, b, NULL, root))
  PROVE  HistInv'
<1> DEFINE c == Call(op, b, NULL, root)
<1>1. /\ c \in CallRecord /\ c.op = op /\ c.root = root
  <2>1. op \in Ops
    BY DEF Ops, AllCalls
  <2> QED BY <2>1, CallType
<1>2. Gets(c, PostedIn(active)) = {}
  BY <1>1 DEF Gets
<1> HIDE DEF c
<1>3. Effect(c)
  BY <1>1, <1>2, IdleEffect
<1>4. Returns(c)
  BY DEF c
<1> QED BY <1>3, <1>4, HistReturns DEF Grows

LEMMA FinishHist ==
  ASSUME TypeOK, TypeOK', HistInv, Counted, Counted',
         Captured(WORLD), phase = "running",
         NEW a \in Reqs, NEW key, Finish(a, key),
         NEW op \in {"MPI_Wait", "MPI_Waitall"}, Returns(Call(op, NULL, a, NULL))
  PROVE  HistInv'
BY FinishEffect, FinishGrows, HistReturns

LEMMA CollectiveHist ==
  ASSUME TypeOK, TypeOK', HistInv, Counted, Counted',
         \A c \in Comms : Captured(c), RecordedCollective
  PROVE  HistInv'
<1>1. PICK b \in Bufs, c \in Comms :
        \/ MPI_Allreduce(b, c) /\ Returns(Call("MPI_Allreduce", b, NULL, NULL))
        \/ MPI_Alltoall(b, c) /\ Returns(Call("MPI_Alltoall", b, NULL, NULL))
        \/ MPI_Alltoallv(b, c) /\ Returns(Call("MPI_Alltoallv", b, NULL, NULL))
        \/ \E root \in Ranks :
             \/ MPI_Bcast(b, root, c) /\ Returns(Call("MPI_Bcast", b, NULL, root))
             \/ MPI_Reduce(b, root, c) /\ Returns(Call("MPI_Reduce", b, NULL, root))
  BY DEF RecordedCollective
<1>2. /\ Captured(WORLD) /\ CommRank[c] = MPIre_rank /\ phase = "running"
  BY <1>1, ConstantsAssumption
     DEF ConstantsAssumption, Captured, MPI_Allreduce, MPI_Alltoall, MPI_Alltoallv,
         MPI_Bcast, MPI_Reduce, Calling
<1>3. CASE MPI_Allreduce(b, c) /\ Returns(Call("MPI_Allreduce", b, NULL, NULL))
  BY <1>2, <1>3, ReceiveHist DEF MPI_Allreduce
<1>4. CASE MPI_Alltoall(b, c) /\ Returns(Call("MPI_Alltoall", b, NULL, NULL))
  BY <1>2, <1>4, ReceiveHist DEF MPI_Alltoall
<1>5. CASE MPI_Alltoallv(b, c) /\ Returns(Call("MPI_Alltoallv", b, NULL, NULL))
  <2>1. CASE Receive(b, c, Captured(c))
    BY <1>2, <1>5, <2>1, ReceiveHist
  <2>2. CASE phase' = "fault" /\ UNCHANGED inbound
    <3>1. hist' = hist /\ Grows
      BY <1>5, <2>2 DEF Returns, Grows
    <3> QED BY <2>2, <3>1, HistKept
  <2> QED BY <1>5, <2>1, <2>2 DEF MPI_Alltoallv
<1>6. ASSUME NEW root \in Ranks, MPI_Bcast(b, root, c),
             Returns(Call("MPI_Bcast", b, NULL, root))
      PROVE  HistInv'
  <2>1. CASE MPIre_rank # root
    <3>1. Receive(b, c, Captured(c) /\ CommRank[c] # root)
      BY <1>2, <1>6, <2>1 DEF MPI_Bcast
    <3> QED BY <1>2, <1>6, <2>1, <3>1, ReceiveHist
  <2>2. CASE MPIre_rank = root
    <3>1. UNCHANGED <<phase, mem, active, inbound>>
      BY <1>2, <1>6, <2>2 DEF MPI_Bcast, vars
    <3> QED BY <1>2, <1>6, <2>2, <3>1, IdleHist
  <2> QED BY <2>1, <2>2
<1>7. ASSUME NEW root \in Ranks, MPI_Reduce(b, root, c),
             Returns(Call("MPI_Reduce", b, NULL, root))
      PROVE  HistInv'
  <2>1. CASE MPIre_rank = root
    <3>1. Receive(b, c, Captured(c) /\ CommRank[c] = root)
      BY <1>2, <1>7, <2>1 DEF MPI_Reduce
    <3> QED BY <1>2, <1>7, <2>1, <3>1, ReceiveHist
  <2>2. CASE MPIre_rank # root
    <3>1. UNCHANGED <<phase, mem, active, inbound>>
      BY <1>2, <1>7, <2>2 DEF MPI_Reduce, vars
    <3> QED BY <1>2, <1>7, <2>2, <3>1, IdleHist
  <2> QED BY <2>1, <2>2
<1> QED BY <1>1, <1>3, <1>4, <1>5, <1>6, <1>7

LEMMA HistStep ==
  ASSUME TypeOK, TypeOK', HistInv, Counted, Counted',
         \A c \in Comms : Captured(c), [CRNext]_allvars
  PROVE  HistInv'
<1>1. Captured(WORLD)
  BY ConstantsAssumption DEF ConstantsAssumption
<1>2. CASE MPI_Init /\ Returns(Call("MPI_Init", NULL, NULL, NULL))
  BY <1>2, InitHist
<1>3. ASSUME NEW a \in Reqs, NEW b \in Bufs, NEW c \in Comms,
             MPI_Irecv(a, b, c), Returns(Call("MPI_Irecv", b, a, NULL))
      PROVE  HistInv'
  <2>1. phase = "running" /\ phase' # "boot" /\ Grows
    BY <1>3 DEF MPI_Irecv, Calling, Grows
  <2> QED BY <1>3, <2>1, IrecvEffect, HistReturns
<1>4. ASSUME NEW a \in Reqs, MPI_Isend(a), Returns(Call("MPI_Isend", NULL, a, NULL))
      PROVE  HistInv'
  <2>1. phase = "running" /\ phase' # "boot" /\ Grows
    BY <1>4 DEF MPI_Isend, Calling, Grows
  <2> QED BY <1>4, <2>1, IsendEffect, HistReturns
<1>5. ASSUME NEW a \in Reqs, MPI_Wait(a), Returns(Call("MPI_Wait", NULL, a, NULL))
      PROVE  HistInv'
  <2>1. phase = "running" /\ Finish(a, a)
    BY <1>5 DEF MPI_Wait, Calling
  <2> QED BY <1>1, <1>5, <2>1, FinishHist
<1>6. ASSUME NEW b \in Bufs, NEW c \in Comms, MPI_Recv(b, c),
             Returns(Call("MPI_Recv", b, NULL, NULL))
      PROVE  HistInv'
  BY <1>1, <1>6, ReceiveHist DEF MPI_Recv, Calling
<1>7. CASE RecordedCollective
  BY <1>7, CollectiveHist
<1>8. CASE WaitallStep /\ Returns(Call("MPI_Waitall", NULL, Head(todo), NULL))
  <2>1. Head(todo) \in Reqs /\ phase = "running"
    BY <1>8 DEF WaitallStep, TypeOK
  <2> QED BY <1>1, <1>8, <2>1, FinishHist DEF WaitallStep
<1>9. ASSUME NEW d \in {"0", "1"}, SetDump(d),
             Returns(Call("setenv", NULL, NULL, NULL))
      PROVE  HistInv'
  <2>1. phase = "running" /\ UNCHANGED <<phase, mem, active, inbound>>
    BY <1>9 DEF SetDump, Calling
  <2> QED BY <1>9, <2>1, IdleHist
<1>10. CASE UnrecordedStep
  <2>1. hist' = hist /\ phase' # "boot" /\ Grows
    BY <1>10 DEF UnrecordedStep, Deliver, MPI_Waitall, non_implemented_hook, Calling,
                 MPI_Finalize, Crash, Grows
  <2>2. ASSUME phase' = "running"
        PROVE  /\ phase = "running" /\ UNCHANGED <<cpt_write, active, dump>>
               /\ \A b \in Bufs : Free(b) => mem'[b] = mem[b]
    <3>1. CASE \E a \in Reqs : Deliver(a)
      BY <3>1 DEF Deliver, Free, TypeOK
    <3>2. CASE \E s \in Arrays : MPI_Waitall(s)
      BY <3>2 DEF MPI_Waitall, Calling
    <3> QED BY <1>10, <2>2, <3>1, <3>2
            DEF UnrecordedStep, non_implemented_hook, MPI_Finalize, Crash
  <2> QED BY <2>1, <2>2, HistKept
<1>11. CASE ReplayStep \/ UNCHANGED allvars
  <2>1. UNCHANGED vars /\ hist' = hist
    BY <1>11 DEF ReplayStep, StartReplay, ReplayCall, RepeatRegion, FinishReplay,
                 allvars
  <2> QED BY <2>1, HistKept DEF vars, Grows
<1> QED BY <1>2, <1>3, <1>4, <1>5, <1>6, <1>7, <1>8, <1>9, <1>10, <1>11
        DEF CRNext, CaptureStep, RecordedCall

LEMMA StepsOfCapture == [CRNext]_allvars => [Next]_vars
<1>1. RecordedCollective => Collective
  BY DEF RecordedCollective, Collective
<1>2. RecordedCall => Next
  BY <1>1 DEF RecordedCall, Next
<1>3. UnrecordedStep => Next
  BY DEF UnrecordedStep, Next
<1>4. ReplayStep \/ UNCHANGED allvars => UNCHANGED vars
  BY DEF ReplayStep, StartReplay, ReplayCall, RepeatRegion, FinishReplay, allvars
<1> QED BY <1>2, <1>3, <1>4 DEF CRNext, CaptureStep

-----------------------------------------------------------------------------
(* A call of the replay: it gets what the captured call got from the       *)
(* receives on its books, file by file, and keeps the same books.          *)

LEMMA TableTypes ==
  ASSUME NEW f \in Tables
  PROVE  /\ DOMAIN f \subseteq Reqs /\ f \in [DOMAIN f -> Bufs]
         /\ EmptyTable \in Tables
         /\ \A a : a \notin DOMAIN f => del_request(f, a) = f
<1>1. DOMAIN f \subseteq Reqs /\ f \in [DOMAIN f -> Bufs]
  BY DEF Tables
<1>2. EmptyTable \in [{} -> Bufs]
  BY DEF EmptyTable
<1>3. EmptyTable \in Tables
  BY <1>2 DEF Tables
<1>4. ASSUME NEW a, a \notin DOMAIN f PROVE del_request(f, a) = f
  BY <1>1, <1>4 DEF del_request
<1> QED BY <1>1, <1>3, <1>4

LEMMA EntryParts ==
  ASSUME NEW e \in Entry
  PROVE  /\ e.call \in CallRecord /\ e.call.op \in Ops
         /\ e.call.buf \in Bufs \cup {NULL} /\ e.call.req \in Reqs \cup {NULL}
         /\ e.mem \in [Bufs -> Payload] /\ e.cpt \in Nat /\ e.posted \in Tables
BY DEF Entry, CallRecord

LEMMA EmptyIsEmptyTable ==
  ASSUME NEW f \in Tables, DOMAIN f = {}
  PROVE  f = EmptyTable
<1>1. f \in [DOMAIN f -> Bufs]
  BY TableTypes
<1>2. f \in [{} -> Bufs]
  BY <1>1
<1>3. EmptyTable \in [{} -> Bufs]
  BY DEF EmptyTable
<1> QED BY <1>2, <1>3

(* The Fortran MPI_Reduce that no wrapper sees. *)
ReducesAlone ==
  /\ ~R!ReduceIntercepted
  /\ rphase' \in {rphase, "exited"}
  /\ \E b : rmem' \in {rmem, [rmem EXCEPT ![b] = Junk]}
  /\ UNCHANGED <<cpt_read, loaded>>

Refuses(c) ==
  /\ c.op = "MPI_Irecv" /\ (c.req \in DOMAIN rtab \/ ReplayOutOfMemory)
  /\ rphase' = "exited"
  /\ UNCHANGED <<rmem, rtab, cpt_read, loaded>>

(* add_request had no memory for the entry. *)
Loses(c) ==
  /\ c.op = "MPI_Irecv" /\ ReplayOutOfMemory
  /\ UNCHANGED <<rphase, rmem, rtab, cpt_read, loaded>>

Moves(c) ==
  /\ rphase = "running" /\ pos < Len(hist) /\ pos' = pos + 1
  /\ UNCHANGED passes
  /\ \/ Refuses(c)
     \/ Loses(c)
     \/ /\ ~Refuses(c)
        /\ rtab' = PostedAfter(c, rtab)
        /\ \/ Gets(c, rtab) = {} /\ UNCHANGED <<rphase, rmem, cpt_read, loaded>>
           \/ \E b : Gets(c, rtab) = {b} /\ R!read_in_file(b)
           \/ ReducesAlone

LEMMA FinishMoves ==
  ASSUME NEW c, c.op \in {"MPI_Wait", "MPI_Waitall"}, rtab \in Tables,
         R!Finish(c.req), rphase = "running", pos < Len(hist), pos' = pos + 1,
         UNCHANGED passes
  PROVE  Moves(c)
<1>1. CASE c.req \in DOMAIN rtab
  <2>1. get_request(rtab, c.req) # NULL /\ get_request(rtab, c.req) = rtab[c.req]
    BY <1>1, TableTypes, GetRequest
  <2>2. R!read_in_file(rtab[c.req]) /\ rtab' = del_request(rtab, c.req)
    BY <2>1 DEF R!Finish, R!get_request, R!del_request, get_request, del_request
  <2>3. Gets(c, rtab) = {rtab[c.req]}
    BY <1>1 DEF Gets
  <2> QED BY <2>2, <2>3 DEF Moves, Refuses, PostedAfter
<1>2. CASE c.req \notin DOMAIN rtab
  <2>1. get_request(rtab, c.req) = NULL
    BY <1>2 DEF get_request
  <2>2. UNCHANGED <<rphase, rmem, rtab, cpt_read, loaded>>
    BY <2>1 DEF R!Finish, R!Skip, R!get_request, get_request
  <2>3. Gets(c, rtab) = {} /\ del_request(rtab, c.req) = rtab
    BY <1>2, TableTypes DEF Gets
  <2> QED BY <2>2, <2>3 DEF Moves, Refuses, PostedAfter
<1> QED BY <1>1, <1>2

LEMMA CallMoves ==
  ASSUME rtab \in Tables, pos \in Nat, hist \in Seq(Entry), R!Call,
         NEW c, c = hist[pos + 1].call
  PROVE  Moves(c)
<1>1. ASSUME NEW f, R!At(f)
      PROVE  /\ rphase = "running" /\ pos < Len(hist) /\ pos' = pos + 1
             /\ UNCHANGED passes /\ c.op = f /\ R!Current = c
  <2>1. Len(Program) = Len(hist) /\ Len(hist) \in Nat
    BY DEF Program
  <2>2. pos + 1 \in 1..Len(hist)
    BY <1>1, <2>1 DEF R!At
  <2>3. Program[pos + 1] = c
    BY <2>2 DEF Program
  <2> QED BY <1>1, <2>1, <2>3 DEF R!At, R!Current
<1>2. CASE R!MPI_Irecv
  <2>1. c.op = "MPI_Irecv" /\ R!Current = c /\ R!At("MPI_Irecv")
    BY <1>1, <1>2 DEF R!MPI_Irecv
  <2>2. R!IsDuplicate(rtab, c.req) <=> c.req \in DOMAIN rtab
    BY TableTypes, GetRequest DEF R!IsDuplicate, R!get_request, get_request
  <2>3. CASE /\ c.req \in DOMAIN rtab \/ ReplayOutOfMemory
             /\ rphase' = "exited" /\ UNCHANGED <<rmem, rtab, cpt_read, loaded>>
    BY <1>1, <2>1, <2>3 DEF Moves, Refuses
  <2>4. CASE /\ c.req \notin DOMAIN rtab
             /\ rtab' \in R!add_request(rtab, c.req, c.buf)
             /\ UNCHANGED <<rphase, rmem, cpt_read, loaded>>
    <3>1. \/ rtab' = Put(rtab, c.req, c.buf)
          \/ rtab' = rtab /\ ReplayOutOfMemory
      BY <2>4 DEF R!add_request, R!Put, Put
    <3>2. Gets(c, rtab) = {} /\ PostedAfter(c, rtab) = Put(rtab, c.req, c.buf)
      BY <2>1 DEF Gets, PostedAfter
    <3>3. ~Refuses(c)
      BY <1>1, <2>1, <2>4 DEF Refuses
    <3> QED BY <1>1, <2>1, <2>4, <3>1, <3>2, <3>3 DEF Moves, Loses
  <2> QED BY <1>2, <2>1, <2>2, <2>3, <2>4 DEF R!MPI_Irecv, R!NoEntry
<1>3. CASE R!MPI_Isend \/ R!SetDump
  <2>1. c.op \in {"MPI_Isend", "setenv"} /\ rphase = "running" /\ pos < Len(hist)
        /\ pos' = pos + 1 /\ UNCHANGED passes
        /\ UNCHANGED <<rphase, rmem, rtab, cpt_read, loaded>>
    BY <1>1, <1>3 DEF R!MPI_Isend, R!SetDump, R!Skip
  <2> QED BY <2>1 DEF Moves, Refuses, Gets, PostedAfter
<1>4. CASE R!MPI_Wait \/ R!WaitallStep
  <2>1. c.op \in {"MPI_Wait", "MPI_Waitall"} /\ rphase = "running" /\ pos < Len(hist)
        /\ pos' = pos + 1 /\ UNCHANGED passes /\ R!Finish(c.req)
    BY <1>1, <1>4 DEF R!MPI_Wait, R!WaitallStep
  <2> QED BY <2>1, FinishMoves
<1>5. CASE R!MPI_Recv \/ R!MPI_Allreduce \/ R!MPI_Alltoall \/ R!MPI_Alltoallv
  <2>1. c.op \in {"MPI_Recv", "MPI_Allreduce", "MPI_Alltoall", "MPI_Alltoallv"}
        /\ rphase = "running" /\ pos < Len(hist)
        /\ pos' = pos + 1 /\ UNCHANGED passes /\ R!read_in_file(c.buf) /\ rtab' = rtab
    BY <1>1, <1>5 DEF R!MPI_Recv, R!MPI_Allreduce, R!MPI_Alltoall, R!MPI_Alltoallv,
                      R!Load
  <2>2. Gets(c, rtab) = {c.buf} /\ PostedAfter(c, rtab) = rtab
    BY <2>1 DEF Gets, PostedAfter
  <2> QED BY <2>1, <2>2 DEF Moves, Refuses
<1>6. CASE R!MPI_Bcast
  <2>1. c.op = "MPI_Bcast" /\ rphase = "running" /\ pos < Len(hist)
        /\ pos' = pos + 1 /\ UNCHANGED passes /\ PostedAfter(c, rtab) = rtab
    BY <1>1, <1>6 DEF R!MPI_Bcast, PostedAfter
  <2>2. CASE MPIre_rank # c.root
    <3>1. R!read_in_file(c.buf) /\ rtab' = rtab
      BY <1>1, <1>6, <2>2 DEF R!MPI_Bcast, R!Load
    <3> QED BY <2>1, <2>2, <3>1 DEF Moves, Refuses, Gets
  <2>3. CASE MPIre_rank = c.root
    <3>1. UNCHANGED <<rphase, rmem, rtab, cpt_read, loaded>>
      BY <1>1, <1>6, <2>3 DEF R!MPI_Bcast, R!Skip
    <3> QED BY <2>1, <2>3, <3>1 DEF Moves, Refuses, Gets
  <2> QED BY <2>2, <2>3
<1>7. CASE R!MPI_Reduce
  <2>1. c.op = "MPI_Reduce" /\ rphase = "running" /\ pos < Len(hist)
        /\ pos' = pos + 1 /\ UNCHANGED passes /\ PostedAfter(c, rtab) = rtab
    BY <1>1, <1>7 DEF R!MPI_Reduce, PostedAfter
  <2>2. CASE R!ReduceIntercepted /\ MPIre_rank = c.root
    <3>1. R!read_in_file(c.buf) /\ rtab' = rtab
      BY <1>1, <1>7, <2>2 DEF R!MPI_Reduce, R!Load
    <3> QED BY <2>1, <2>2, <3>1 DEF Moves, Refuses, Gets
  <2>3. CASE R!ReduceIntercepted /\ MPIre_rank # c.root
    <3>1. UNCHANGED <<rphase, rmem, rtab, cpt_read, loaded>>
      BY <1>1, <1>7, <2>3 DEF R!MPI_Reduce, R!Skip
    <3> QED BY <2>1, <2>3, <3>1 DEF Moves, Refuses, Gets
  <2>4. CASE ~R!ReduceIntercepted
    <3>1. ReducesAlone /\ rtab' = rtab
      BY <1>7, <2>4 DEF R!MPI_Reduce, ReducesAlone
    <3> QED BY <2>1, <3>1 DEF Moves, Refuses
  <2> QED BY <2>2, <2>3, <2>4
<1> QED BY <1>2, <1>3, <1>4, <1>5, <1>6, <1>7 DEF R!Call
-----------------------------------------------------------------------------
(* A replay replays a region of a captured run that is over. *)
InReplay ==
  rphase # "off" =>
    /\ phase \notin {"boot", "running"}
    /\ base \in 1..Len(hist) /\ CanStart(base)
    /\ pos \in base..Len(hist)
    /\ \A j \in base..pos : hist[j].dump = "1"
    /\ rmem \in [Bufs -> Payload] /\ rtab \in Tables
    /\ cpt_read \in Nat /\ passes \in Nat \ {0}

LEMMA CaptureIsOver ==
  ASSUME TypeOK, CaptureStep
  PROVE  phase \in {"boot", "running"} /\ UNCHANGED <<base, rvars>>
<1>1. RecordedCollective => phase = "running"
  BY DEF RecordedCollective, MPI_Allreduce, MPI_Alltoall, MPI_Alltoallv, MPI_Bcast,
         MPI_Reduce, Calling
<1>2. RecordedCall => phase \in {"boot", "running"}
  BY <1>1 DEF RecordedCall, MPI_Init, MPI_Irecv, MPI_Isend, MPI_Wait, MPI_Recv,
              WaitallStep, SetDump, Calling
<1>3. UnrecordedStep => phase \in {"boot", "running"}
  BY DEF UnrecordedStep, Deliver, MPI_Waitall, non_implemented_hook, MPI_Finalize,
         Crash, Calling
<1> QED BY <1>2, <1>3 DEF CaptureStep

(* The call that a step of the replay repeats. *)
LEMMA ReplayCallMoves ==
  ASSUME HistInv, InReplay, ReplayCall
  PROVE  /\ pos \in 1..Len(hist) /\ pos + 1 \in 1..Len(hist)
         /\ hist[pos] \in Entry /\ hist[pos + 1] \in Entry
         /\ hist[pos + 1].dump = "1"
         /\ Follows(hist[pos], hist[pos + 1], inbound)
         /\ Moves(hist[pos + 1].call)
<1>1. hist \in Seq(Entry) /\ Len(hist) \in Nat
  BY DEF HistInv
<1>2. rphase = "running" /\ pos < Len(hist) /\ hist[pos + 1].dump = "1" /\ R!Call
  BY DEF ReplayCall, InRegion, R!Call, R!MPI_Irecv, R!MPI_Isend, R!MPI_Wait,
         R!WaitallStep, R!MPI_Recv, R!MPI_Allreduce, R!MPI_Alltoall, R!MPI_Alltoallv,
         R!MPI_Bcast, R!MPI_Reduce, R!SetDump, R!At
<1>3. pos \in 1..Len(hist) /\ pos + 1 \in 1..Len(hist) /\ pos \in 1..(Len(hist) - 1)
      /\ rtab \in Tables /\ pos \in Nat
  BY <1>1, <1>2 DEF InReplay
<1>4. Moves(hist[pos + 1].call)
  BY <1>1, <1>2, <1>3, CallMoves
<1> QED BY <1>1, <1>2, <1>3, <1>4 DEF HistInv

LEMMA PostedAfterType ==
  ASSUME NEW s \in Entry, NEW t \in Entry, NEW log, Follows(s, t, log),
         NEW f \in Tables
  PROVE  PostedAfter(t.call, f) \in Tables
<1> DEFINE c == t.call
<1>1. CASE c.op = "MPI_Irecv"
  <2>1. t.posted = Put(s.posted, c.req, c.buf)
    BY <1>1 DEF Follows, PostedAfter
  <2>2. t.posted \in Tables
    BY EntryParts
  <2>3. c.req \in DOMAIN t.posted /\ t.posted[c.req] = c.buf
    BY <2>1 DEF Put
  <2>4. c.req \in Reqs /\ c.buf \in Bufs
    BY <2>2, <2>3, TableTypes
  <2>5. DOMAIN f \cup {c.req} \in SUBSET Reqs
        /\ Put(f, c.req, c.buf) \in [DOMAIN f \cup {c.req} -> Bufs]
    BY <2>4, TableTypes DEF Put
  <2>6. Put(f, c.req, c.buf) \in Tables
    BY <2>5 DEF Tables
  <2> QED BY <1>1, <2>6 DEF PostedAfter
<1>2. CASE c.op \in {"MPI_Wait", "MPI_Waitall"}
  <2>1. DOMAIN f \ {c.req} \in SUBSET Reqs
        /\ del_request(f, c.req) \in [DOMAIN f \ {c.req} -> Bufs]
    BY TableTypes DEF del_request
  <2>2. del_request(f, c.req) \in Tables
    BY <2>1 DEF Tables
  <2> QED BY <1>2, <2>2 DEF PostedAfter
<1> QED BY <1>1, <1>2 DEF PostedAfter

LEMMA ReplayCallType ==
  ASSUME TypeOK, HistInv, InReplay, ReplayCall
  PROVE  /\ rmem' \in [Bufs -> Payload] /\ rtab' \in Tables /\ cpt_read' \in Nat
         /\ rphase' \in {"running", "exited"} /\ rphase = "running"
<1> DEFINE c == hist[pos + 1].call
<1>1. Moves(c) /\ rphase = "running"
  BY ReplayCallMoves DEF Moves
<1>2. rmem \in [Bufs -> Payload] /\ rtab \in Tables /\ cpt_read \in Nat
  BY <1>1 DEF InReplay
<1>3. PostedAfter(c, rtab) \in Tables
  BY <1>2, ReplayCallMoves, PostedAfterType
<1>4. ASSUME NEW b, R!read_in_file(b)
      PROVE  /\ rmem' \in [Bufs -> Payload] /\ cpt_read' \in Nat
             /\ rphase' \in {rphase, "exited"}
  <2>1. cpt_read \in DOMAIN files => files[cpt_read] \in Payload
    BY DEF TypeOK
  <2> QED BY <1>2, <1>4, <2>1 DEF R!read_in_file
<1>5. ReducesAlone => /\ rmem' \in [Bufs -> Payload] /\ cpt_read' \in Nat
                      /\ rphase' \in {rphase, "exited"}
  BY <1>2 DEF ReducesAlone, Payload
<1>6. Refuses(c) => /\ rmem' \in [Bufs -> Payload] /\ rtab' \in Tables
                    /\ cpt_read' \in Nat /\ rphase' = "exited"
  BY <1>2 DEF Refuses
<1>7. Loses(c) => /\ rmem' \in [Bufs -> Payload] /\ rtab' \in Tables
                  /\ cpt_read' \in Nat /\ rphase' = rphase
  BY <1>2 DEF Loses
<1> QED BY <1>1, <1>2, <1>3, <1>4, <1>5, <1>6, <1>7 DEF Moves

LEMMA InReplayStep ==
  ASSUME TypeOK, HistInv, InReplay, [CRNext]_allvars
  PROVE  InReplay'
<1>1. hist \in Seq(Entry) /\ Len(hist) \in Nat
  BY DEF HistInv
<1>2. CASE CaptureStep
  <2>1. rphase = "off" /\ rphase' = rphase
    BY <1>2, CaptureIsOver DEF InReplay, rvars
  <2> QED BY <2>1 DEF InReplay
<1>3. CASE StartReplay
  <2>1. PICK i \in 1..Len(hist) :
          CanStart(i) /\ base' = i /\ R!MPI_Init(i, hist[i].mem)
    BY <1>3 DEF StartReplay
  <2>2. phase' \notin {"boot", "running"} /\ hist' = hist
    BY <1>3 DEF StartReplay, vars
  <2>3. rmem' = hist[i].mem /\ rtab' = EmptyTable /\ cpt_read' = 0 /\ pos' = i
        /\ passes' = 1
    BY <2>1 DEF R!MPI_Init, R!EmptyTable, EmptyTable
  <2>4. hist[i].mem \in [Bufs -> Payload] /\ EmptyTable \in Tables
    BY <1>1, EntryParts, TableTypes
  <2>5. CanStart(i)' /\ hist[i].dump = "1"
    BY <2>1, <2>2 DEF CanStart
  <2> QED BY <2>1, <2>2, <2>3, <2>4, <2>5 DEF InReplay, CanStart
<1>4. CASE ReplayCall
  <2>1. UNCHANGED <<phase, hist, base>>
    BY <1>4 DEF ReplayCall, vars
  <2>2. pos' = pos + 1 /\ passes' = passes /\ pos + 1 \in 1..Len(hist)
        /\ hist[pos + 1].dump = "1" /\ rphase # "off"
    BY <1>4, ReplayCallMoves DEF Moves
  <2>3. pos' \in base'..Len(hist') /\ \A j \in base'..pos' : hist'[j].dump = "1"
    BY <1>1, <2>1, <2>2 DEF InReplay
  <2> QED BY <1>4, <2>1, <2>2, <2>3, ReplayCallType DEF InReplay, CanStart
<1>5. CASE RepeatRegion
  <2>1. UNCHANGED <<phase, hist, base, rtab>> /\ rphase # "off"
        /\ rmem' = hist[base].mem /\ cpt_read' = 0 /\ pos' = base
        /\ passes' = passes + 1
    BY <1>5 DEF RepeatRegion, R!MPI_Init_again, vars
  <2>2. base \in 1..Len(hist) /\ hist[base].dump = "1"
    BY <2>1 DEF InReplay, CanStart
  <2>3. hist[base].mem \in [Bufs -> Payload]
    BY <1>1, <2>2, EntryParts
  <2> QED BY <1>1, <2>1, <2>2, <2>3 DEF InReplay, CanStart
<1>6. CASE FinishReplay
  <2>1. UNCHANGED <<phase, hist, base, rmem, cpt_read, pos, passes>>
        /\ rtab' = EmptyTable /\ rphase # "off"
    BY <1>6 DEF FinishReplay, R!MPI_Finalize, R!EmptyTable, EmptyTable, vars
  <2>2. EmptyTable \in Tables
    BY <2>1, TableTypes DEF InReplay
  <2> QED BY <2>1, <2>2 DEF InReplay, CanStart
<1>7. CASE UNCHANGED allvars
  BY <1>7 DEF allvars, vars, rvars, InReplay, CanStart
<1> QED BY <1>2, <1>3, <1>4, <1>5, <1>6, <1>7 DEF CRNext, ReplayStep

-----------------------------------------------------------------------------
(* The replay keeps step with the captured run, if every MPI_Reduce of the *)
(* application reaches a wrapper (see Replay, ReduceIntercepted).          *)

ReduceWrapped == Api = "C" \/ FortranBindingsCallC

(* A file that the replay loads is what the captured call got. *)
LEMMA LoadsTheSame ==
  ASSUME TypeOK, HistInv, InReplay, AllInboundSaved, ReplayCall,
         NEW b, Gets(hist[pos + 1].call, hist[pos].posted) = {b},
         cpt_read = hist[pos].cpt, R!read_in_file(b)
  PROVE  /\ cpt_read' = hist[pos + 1].cpt /\ rphase' = rphase
         /\ b \in Bufs => rmem' = [rmem EXCEPT ![b] = hist[pos + 1].mem[b]]
         /\ b \notin Bufs => rmem' = rmem
<1> DEFINE s == hist[pos]
           t == hist[pos + 1]
<1>1. /\ s \in Entry /\ t \in Entry /\ t.dump = "1" /\ Follows(s, t, inbound)
      /\ pos + 1 \in 1..Len(hist)
  BY ReplayCallMoves
<1>2. /\ t.cpt = s.cpt + 1
      /\ \A x \in {b} : t.mem[x] = inbound[t.cpt]
  BY <1>1 DEF Follows
<1>3. t.cpt <= Len(inbound) /\ s.cpt \in Nat /\ Len(inbound) \in Nat
  BY <1>1, EntryParts DEF HistInv, TypeOK
<1>4. t.cpt \in 1..Len(inbound) /\ t.cpt - 1 = cpt_read
  BY <1>2, <1>3
<1>5. cpt_read \in DOMAIN files /\ files[cpt_read] = inbound[t.cpt]
  BY <1>4 DEF AllInboundSaved
<1>6. rmem' = [rmem EXCEPT ![b] = inbound[t.cpt]] /\ cpt_read' = cpt_read + 1
      /\ rphase' = rphase
  BY <1>5 DEF R!read_in_file
<1>7. rmem \in [Bufs -> Payload]
  BY ReplayCallMoves DEF InReplay, Moves
<1> QED BY <1>2, <1>6, <1>7

LEMMA ClearBefore ==
  ASSUME InReplay, rphase # "off", UNCHANGED <<hist, base>>,
         passes' \in {passes, passes + 1}, EdgesClear'
  PROVE  EdgesClear
<1>1. passes \in Nat \ {0}
  BY DEF InReplay
<1>2. passes > 1 => passes' > 1
  BY <1>1
<1> QED BY <1>2 DEF EdgesClear, IsEnd

(* A call of the replay in step leaves the replay in step. *)
LEMMA CallInStep ==
  ASSUME TypeOK, HistInv, InReplay, AllInboundSaved, ReduceWrapped,
         ~ReplayOutOfMemory, ReplayCall,
         cpt_read = hist[pos].cpt, rtab = hist[pos].posted,
         \A b \in Bufs : ~Owned(b, pos) => rmem[b] = hist[pos].mem[b]
  PROVE  /\ rphase' = "running" /\ pos' = pos + 1
         /\ cpt_read' = hist[pos + 1].cpt /\ rtab' = hist[pos + 1].posted
         /\ \A b \in Bufs : ~OwnedIn(hist[pos + 1].posted, b) =>
              rmem'[b] = hist[pos + 1].mem[b]
<1> DEFINE s == hist[pos]
           t == hist[pos + 1]
           c == t.call
           got == Gets(c, s.posted)
<1>1. /\ s \in Entry /\ t \in Entry /\ t.dump = "1" /\ Follows(s, t, inbound)
      /\ Moves(c) /\ rphase = "running" /\ rmem \in [Bufs -> Payload]
  BY ReplayCallMoves DEF Moves, InReplay
<1>2. ~Refuses(c) /\ ~Loses(c) /\ ~ReducesAlone
  <2>1. ~Refuses(c) /\ ~Loses(c)
    BY <1>1 DEF Follows, Refuses, Loses
  <2>2. ~ReducesAlone
    BY DEF ReduceWrapped, ReducesAlone, R!ReduceIntercepted
  <2> QED BY <2>1, <2>2
<1>3. /\ pos' = pos + 1 /\ rtab' = t.posted
      /\ \/ got = {} /\ UNCHANGED <<rphase, rmem, cpt_read, loaded>>
         \/ \E b : got = {b} /\ R!read_in_file(b)
  BY <1>1, <1>2 DEF Moves, Follows
(* A buffer that MPI does not own after the call was got by the call or was *)
(* not MPI's before.                                                        *)
<1>4. ASSUME NEW b \in Bufs, ~OwnedIn(t.posted, b), b \notin got
      PROVE  rmem[b] = t.mem[b]
  <2>1. ~OwnedIn(s.posted, b)
    <3>1. SUFFICES ASSUME NEW a \in DOMAIN s.posted, s.posted[a] = b
                   PROVE  FALSE
      BY DEF OwnedIn
    <3>2. t.posted = PostedAfter(c, s.posted)
      BY <1>1 DEF Follows
    <3>3. CASE c.op = "MPI_Irecv"
      <4>1. c.req # a
        BY <1>1, <3>3 DEF Follows
      <4>2. a \in DOMAIN t.posted /\ t.posted[a] = b
        BY <3>1, <3>2, <3>3, <4>1 DEF PostedAfter, Put
      <4> QED BY <1>4, <4>2 DEF OwnedIn
    <3>4. CASE c.op \in {"MPI_Wait", "MPI_Waitall"}
      <4>1. CASE c.req = a
        BY <1>4, <3>1, <3>4, <4>1 DEF Gets
      <4>2. CASE c.req # a
        <5>1. a \in DOMAIN t.posted /\ t.posted[a] = b
          BY <3>1, <3>2, <3>4, <4>2 DEF PostedAfter, del_request
        <5> QED BY <1>4, <5>1 DEF OwnedIn
      <4> QED BY <4>1, <4>2
    <3>5. CASE c.op \notin {"MPI_Irecv", "MPI_Wait", "MPI_Waitall"}
      BY <1>4, <3>1, <3>2, <3>5 DEF PostedAfter, OwnedIn
    <3> QED BY <3>3, <3>4, <3>5
  <2>2. rmem[b] = s.mem[b]
    BY <2>1 DEF Owned, OwnedIn
  <2> QED BY <1>1, <1>4, <2>1, <2>2 DEF Follows
<1>5. CASE got = {} /\ UNCHANGED <<rphase, rmem, cpt_read, loaded>>
  <2>1. cpt_read' = t.cpt
    BY <1>1, <1>5 DEF Follows
  <2> QED BY <1>1, <1>3, <1>4, <1>5, <2>1
<1>6. ASSUME NEW b, got = {b}, R!read_in_file(b)
      PROVE  /\ rphase' = "running" /\ cpt_read' = t.cpt
             /\ \A x \in Bufs : ~OwnedIn(t.posted, x) => rmem'[x] = t.mem[x]
  <2>1. /\ cpt_read' = t.cpt /\ rphase' = rphase
        /\ b \in Bufs => rmem' = [rmem EXCEPT ![b] = t.mem[b]]
        /\ b \notin Bufs => rmem' = rmem
    BY <1>6, LoadsTheSame
  <2>2. ASSUME NEW x \in Bufs, ~OwnedIn(t.posted, x) PROVE rmem'[x] = t.mem[x]
    <3>1. CASE x = b
      BY <1>1, <2>1, <3>1
    <3>2. CASE x # b
      <4>1. rmem[x] = t.mem[x]
        BY <1>4, <1>6, <2>2, <3>2
      <4> QED BY <1>1, <2>1, <3>2, <4>1
    <3> QED BY <3>1, <3>2
  <2> QED BY <1>1, <2>1, <2>2
<1> QED BY <1>3, <1>5, <1>6

LEMMA FaithStep ==
  ASSUME TypeOK, HistInv, InReplay, AllInboundSaved, ReduceWrapped,
         ~ReplayOutOfMemory, InStep, ReplayFaithful, [CRNext]_allvars
  PROVE  InStep' /\ ReplayFaithful'
<1>1. hist \in Seq(Entry) /\ Len(hist) \in Nat
  BY DEF HistInv
<1>2. SUFFICES ASSUME rphase' # "off", EdgesClear'
               PROVE  /\ rphase' # "exited"
                      /\ rphase' = "running" =>
                           /\ cpt_read' = hist'[pos'].cpt
                           /\ rtab' = hist'[pos'].posted
                      /\ \A b \in Bufs : ~OwnedIn(hist'[pos'].posted, b) =>
                           rmem'[b] = hist'[pos'].mem[b]
  BY DEF InStep, ReplayFaithful, Owned, OwnedIn
<1>3. ASSUME rphase # "off", EdgesClear
      PROVE  /\ rphase # "exited"
             /\ rphase = "running" =>
                  cpt_read = hist[pos].cpt /\ rtab = hist[pos].posted
             /\ \A b \in Bufs : ~OwnedIn(hist[pos].posted, b) =>
                  rmem[b] = hist[pos].mem[b]
             /\ \A b \in Bufs : ~Owned(b, pos) => rmem[b] = hist[pos].mem[b]
  BY <1>3 DEF InStep, ReplayFaithful, Owned, OwnedIn
<1>4. CASE CaptureStep
  <2>1. rphase = "off" /\ rphase' = rphase
    BY <1>4, CaptureIsOver DEF InReplay, rvars
  <2> QED BY <1>2, <2>1
<1>5. CASE StartReplay
  <2>1. PICK i \in 1..Len(hist) :
          CanStart(i) /\ base' = i /\ R!MPI_Init(i, hist[i].mem)
    BY <1>5 DEF StartReplay
  <2>2. hist' = hist
    BY <1>5 DEF StartReplay
  <2>3. rmem' = hist[i].mem /\ rtab' = EmptyTable /\ cpt_read' = 0 /\ pos' = i
        /\ rphase' = "running"
    BY <2>1 DEF R!MPI_Init, R!EmptyTable, EmptyTable
  <2>4. hist[i].cpt = 0 /\ DOMAIN hist[i].posted = {}
    BY <1>2, <2>1, <2>2 DEF CanStart, EdgesClear
  <2>5. EmptyTable = hist[i].posted
    <3>1. hist[i] \in Entry
      BY <1>1
    <3>2. hist[i].posted \in Tables
      BY <3>1, EntryParts
    <3> QED BY <2>4, <3>2, EmptyIsEmptyTable
  <2> QED BY <2>2, <2>3, <2>4, <2>5
<1>6. CASE ReplayCall
  <2>1. UNCHANGED <<hist, base>>
    BY <1>6 DEF ReplayCall
  <2>2. passes' = passes /\ rphase = "running"
    BY <1>6, ReplayCallMoves DEF Moves
  <2>3. EdgesClear
    BY <1>2, <2>1, <2>2, ClearBefore
  <2>4. /\ cpt_read = hist[pos].cpt /\ rtab = hist[pos].posted
        /\ \A b \in Bufs : ~Owned(b, pos) => rmem[b] = hist[pos].mem[b]
    BY <1>3, <2>2, <2>3
  <2> QED BY <1>6, <2>1, <2>4, CallInStep
<1>7. CASE RepeatRegion
  <2>1. UNCHANGED <<hist, base, rtab, rphase>> /\ rphase = "running"
        /\ rmem' = hist[base].mem /\ cpt_read' = 0 /\ pos' = base
        /\ passes' = passes + 1 /\ ~InRegion
    BY <1>7 DEF RepeatRegion, R!MPI_Init_again
  <2>2. EdgesClear
    BY <1>2, <2>1, ClearBefore
  <2>3. base \in 1..Len(hist) /\ CanStart(base) /\ pos \in base..Len(hist)
        /\ passes \in Nat \ {0} /\ \A j \in base..pos : hist[j].dump = "1"
    BY <2>1 DEF InReplay
  <2>4. IsEnd(pos)
    BY <1>1, <2>1, <2>3 DEF IsEnd, InRegion
  <2>5. DOMAIN hist[base].posted = {} /\ DOMAIN hist[pos].posted = {}
    BY <1>2, <2>1, <2>3, <2>4 DEF EdgesClear, IsEnd
  <2>6. hist[base].posted = EmptyTable /\ rtab = EmptyTable
    <3>1. pos \in 1..Len(hist)
      BY <1>1, <2>3
    <3>2. hist[base] \in Entry /\ hist[pos] \in Entry
      BY <1>1, <2>3, <3>1
    <3>3. rtab = hist[pos].posted
      BY <1>3, <2>1, <2>2
    <3>4. hist[base].posted \in Tables /\ hist[pos].posted \in Tables
      BY <3>2, EntryParts
    <3> QED BY <2>5, <3>3, <3>4, EmptyIsEmptyTable
  <2>7. hist[base].cpt = 0 /\ hist[base].posted = rtab
    BY <2>3, <2>6 DEF CanStart
  <2> QED BY <2>1, <2>7
<1>8. CASE FinishReplay
  <2>1. UNCHANGED <<hist, base, rmem, pos, passes>> /\ rphase = "running"
        /\ rphase' = "done"
    BY <1>8 DEF FinishReplay, R!MPI_Finalize
  <2>2. EdgesClear
    BY <1>2, <2>1, ClearBefore
  <2> QED BY <1>3, <2>1, <2>2
<1>9. CASE UNCHANGED allvars
  <2>1. UNCHANGED <<hist, base, rmem, pos, passes, rphase, rtab, cpt_read>>
    BY <1>9 DEF allvars, rvars
  <2>2. EdgesClear
    BY <1>2, <2>1, ClearBefore
  <2> QED BY <1>2, <1>3, <2>1, <2>2
<1> QED BY <1>4, <1>5, <1>6, <1>7, <1>8, <1>9 DEF CRNext, ReplayStep

-----------------------------------------------------------------------------
LEMMA RunsCapture == CRSpec => Spec
<1>1. CRInit => Init
  BY DEF CRInit
<1> QED BY <1>1, StepsOfCapture, PTL DEF CRSpec, Spec

LEMMA BothRuns ==
  ASSUME AddressedWaits, ~OutOfMemory
  PROVE  CRSpec => [](TypeOK /\ Counted /\ HistInv /\ InReplay)
<1>1. CRInit => HistInv /\ InReplay
  BY DEF CRInit, Init, HistInv, InReplay, R!Off
<1>2. \A c \in Comms : Captured(c)
  BY DEF AddressedWaits
<1>3. CRSpec => [](TypeOK /\ Counted)
  BY RunsCapture, TypeCorrect, InboundCounted, PTL
<1>4. /\ TypeOK /\ Counted /\ HistInv /\ InReplay
      /\ (TypeOK /\ Counted)' /\ [CRNext]_allvars
      => HistInv' /\ InReplay'
  BY <1>2, HistStep, InReplayStep
<1> QED BY <1>1, <1>3, <1>4, PTL DEF CRSpec

LEMMA InStepAndFaithful ==
  ASSUME AddressedWaits, ~OutOfMemory, ~ReplayOutOfMemory, EveryOpenSucceeds,
         ReduceWrapped
  PROVE  CRSpec => [](InStep /\ ReplayFaithful)
<1>1. CRInit => InStep /\ ReplayFaithful
  BY DEF CRInit, InStep, ReplayFaithful, R!Off
<1>2. CRSpec => []AllInboundSaved
  BY RunsCapture, InboundSaved, PTL
<1>3. TypeOK /\ HistInv /\ InReplay /\ AllInboundSaved /\ InStep /\ ReplayFaithful
        /\ [CRNext]_allvars => InStep' /\ ReplayFaithful'
  BY FaithStep
<1> QED BY <1>1, <1>2, <1>3, BothRuns, PTL DEF CRSpec

(* Where no receive is pending at the edges of the region, the replay is   *)
(* after each call at the file the captured run was at, with the same      *)
(* receives on its books.                                                  *)
THEOREM StaysInStep ==
  ASSUME AddressedWaits, ~OutOfMemory, ~ReplayOutOfMemory, EveryOpenSucceeds,
         ReduceWrapped
  PROVE  CRSpec => []InStep
BY InStepAndFaithful, PTL

(* ... and no wrapper gives up, and each buffer that is the application's  *)
(* has the content it had after the same call of the captured run.         *)
THEOREM Faithful ==
  ASSUME AddressedWaits, ~OutOfMemory, ~ReplayOutOfMemory, EveryOpenSucceeds,
         ReduceWrapped
  PROVE  CRSpec => []ReplayFaithful
BY InStepAndFaithful, PTL

-----------------------------------------------------------------------------
(* The capture and its replays implement RecordReplay.  What the process   *)
(* receives is a message: MPI_Wait and MPI_Waitall return when it is in    *)
(* the buffer.                                                             *)

MessagesArrived ==
  /\ \A a \in arrived : Pending(a) /\ mem[active[a]] \in Vals
  /\ \A i \in DOMAIN todo : Complete(todo[i])

LEMMA ReceiveArrived ==
  ASSUME TypeOK, MessagesArrived, NEW b \in Bufs, NEW m, NEW logged,
         Receive(b, m, logged)
  PROVE  MessagesArrived'
<1>1. PICK v \in Vals : mem' = [mem EXCEPT ![b] = v]
  BY DEF Receive
<1>2. UNCHANGED <<active, arrived, todo>>
  BY DEF Receive
<1> QED BY <1>1, <1>2 DEF MessagesArrived, Pending, Complete, TypeOK

LEMMA FinishArrived ==
  ASSUME TypeOK, MessagesArrived, NEW a \in Reqs, NEW key, Finish(a, key)
  PROVE  /\ \A x \in arrived' : Pending(x)' /\ mem'[active'[x]] \in Vals
         /\ \A x \in Reqs : Complete(x) => Complete(x)'
<1>1. /\ active' = [active EXCEPT ![a] = Idle] /\ arrived' = arrived \ {a}
      /\ mem' = mem /\ arrived \subseteq Reqs
      /\ active \in [Reqs -> Bufs \cup {Idle, Sending}]
  BY DEF Finish, TypeOK
<1> QED BY <1>1, NoBuffer DEF MessagesArrived, Pending, Complete

LEMMA CollectiveArrived ==
  ASSUME TypeOK, MessagesArrived, Collective
  PROVE  MessagesArrived'
<1>1. ASSUME NEW b \in Bufs, NEW c \in Comms,
             MPI_Allreduce(b, c) \/ MPI_Alltoall(b, c) \/ MPI_Alltoallv(b, c)
      PROVE  MessagesArrived'
  <2>1. \/ Receive(b, c, Captured(c))
        \/ UNCHANGED <<mem, active, arrived, todo>>
    BY <1>1 DEF MPI_Allreduce, MPI_Alltoall, MPI_Alltoallv
  <2> QED BY <2>1, ReceiveArrived DEF MessagesArrived, Pending, Complete
<1>2. ASSUME NEW b \in Bufs, NEW c \in Comms, NEW root \in Ranks,
             MPI_Bcast(b, root, c) \/ MPI_Reduce(b, root, c)
      PROVE  MessagesArrived'
  <2>1. \/ \E logged : Receive(b, c, logged)
        \/ UNCHANGED <<mem, active, arrived, todo>>
    BY <1>2 DEF MPI_Bcast, MPI_Reduce, vars
  <2> QED BY <2>1, ReceiveArrived DEF MessagesArrived, Pending, Complete
<1> QED BY <1>1, <1>2 DEF Collective

LEMMA ArrivedStep ==
  ASSUME TypeOK, MessagesArrived, [Next]_vars
  PROVE  MessagesArrived'
<1>1. CASE UNCHANGED <<mem, active, arrived, todo>>
  BY <1>1 DEF MessagesArrived, Pending, Complete
<1>2. ASSUME NEW a \in Reqs, NEW b \in Bufs, NEW c \in Comms, MPI_Irecv(a, b, c)
      PROVE  MessagesArrived'
  <2>1. /\ active[a] = Idle /\ UNCHANGED <<mem, arrived, todo>> /\ todo = <<>>
        /\ active' \in {active, [active EXCEPT ![a] = b]}
    BY <1>2 DEF MPI_Irecv, Calling
  <2> QED BY <2>1, NoBuffer DEF MessagesArrived, Pending, TypeOK
<1>3. ASSUME NEW a \in Reqs, MPI_Isend(a) PROVE MessagesArrived'
  <2>1. /\ active[a] = Idle /\ UNCHANGED <<mem, arrived, todo>> /\ todo = <<>>
        /\ active' = [active EXCEPT ![a] = Sending]
    BY <1>3 DEF MPI_Isend, Calling
  <2> QED BY <2>1, NoBuffer DEF MessagesArrived, Pending, TypeOK
<1>4. ASSUME NEW a \in Reqs, Deliver(a) PROVE MessagesArrived'
  <2>1. PICK v \in Vals : mem' = [mem EXCEPT ![active[a]] = v]
    BY <1>4 DEF Deliver
  <2>2. /\ Pending(a) /\ arrived' = arrived \cup {a} /\ UNCHANGED <<active, todo>>
    BY <1>4 DEF Deliver
  <2> QED BY <2>1, <2>2 DEF MessagesArrived, Pending, Complete, TypeOK
<1>5. ASSUME NEW a \in Reqs, MPI_Wait(a) PROVE MessagesArrived'
  <2>1. Finish(a, a) /\ todo' = <<>>
    BY <1>5 DEF MPI_Wait, Calling
  <2> QED BY <2>1, FinishArrived DEF MessagesArrived
<1>6. ASSUME NEW b \in Bufs, NEW c \in Comms, MPI_Recv(b, c) PROVE MessagesArrived'
  BY <1>6, ReceiveArrived DEF MPI_Recv
<1>7. CASE Collective
  BY <1>7, CollectiveArrived
<1>8. ASSUME NEW s \in Arrays, MPI_Waitall(s) PROVE MessagesArrived'
  <2>1. /\ \A i \in DOMAIN s : Complete(s[i])
        /\ todo' = s /\ UNCHANGED <<mem, active, arrived>>
    BY <1>8 DEF MPI_Waitall
  <2> QED BY <2>1 DEF MessagesArrived, Pending, Complete
<1>9. CASE WaitallStep
  <2>1. /\ todo \in Seq(Reqs) /\ todo # <<>> /\ Head(todo) \in Reqs
        /\ Finish(Head(todo), WaitallKey(Head(todo))) /\ todo' = Tail(todo)
    BY <1>9 DEF WaitallStep, TypeOK
  <2>2. \A i \in DOMAIN todo' : /\ i + 1 \in DOMAIN todo /\ todo'[i] = todo[i + 1]
                                /\ todo'[i] \in Reqs
    BY <2>1
  <2> QED BY <2>1, <2>2, FinishArrived DEF MessagesArrived
<1>10. MPI_Init \/ (\E d \in {"0", "1"} : SetDump(d)) \/ non_implemented_hook
         \/ MPI_Finalize \/ Crash => UNCHANGED <<mem, active, arrived, todo>>
  BY DEF MPI_Init, SetDump, non_implemented_hook, MPI_Finalize, Crash
<1> QED BY <1>1, <1>2, <1>3, <1>4, <1>5, <1>6, <1>7, <1>8, <1>9, <1>10 DEF Next, vars

(* A step of the captured process receives at most one message. *)
Receives == \E v \in Vals : inbound' = Append(inbound, v)

LEMMA ReceivedStep ==
  ASSUME TypeOK, MessagesArrived, [Next]_vars
  PROVE  inbound' = inbound \/ Receives
<1>1. ASSUME NEW b, NEW m, NEW logged, Receive(b, m, logged)
      PROVE  inbound' = inbound \/ Receives
  BY <1>1 DEF Receive, Received, Receives
<1>2. ASSUME NEW a \in Reqs, NEW key, Complete(a), Finish(a, key)
      PROVE  inbound' = inbound \/ Receives
  <2>1. Pending(a) => mem[active[a]] \in Vals
    BY <1>2 DEF Complete, MessagesArrived
  <2> QED BY <1>2, <2>1 DEF Finish, Received, Receives
<1>3. Collective => inbound' = inbound \/ Receives
  BY <1>1 DEF Collective, MPI_Allreduce, MPI_Alltoall, MPI_Alltoallv, MPI_Bcast,
              MPI_Reduce, vars
<1>4. CASE WaitallStep
  <2>1. 1 \in DOMAIN todo /\ Head(todo) = todo[1] /\ Head(todo) \in Reqs
    BY <1>4 DEF WaitallStep, TypeOK
  <2>2. Complete(Head(todo))
    BY <2>1 DEF MessagesArrived
  <2> QED BY <1>2, <1>4, <2>1, <2>2 DEF WaitallStep
<1>5. \A a \in Reqs : MPI_Wait(a) => inbound' = inbound \/ Receives
  BY <1>2 DEF MPI_Wait
<1>6. \A b \in Bufs, c \in Comms : MPI_Recv(b, c) => inbound' = inbound \/ Receives
  BY <1>1 DEF MPI_Recv
<1> QED BY <1>3, <1>4, <1>5, <1>6
        DEF Next, vars, MPI_Init, MPI_Irecv, MPI_Isend, Deliver, MPI_Waitall, SetDump,
            non_implemented_hook, MPI_Finalize, Crash

(* With receives pending where the region starts, the replay may be behind *)
(* the captured run, never ahead of it; what it has loaded is where its    *)
(* file number says.                                                       *)
Behind ==
  /\ rphase = "off" => loaded = <<>>
  /\ rphase = "running" =>
       /\ Len(loaded) = cpt_read /\ cpt_read <= hist[pos].cpt
       /\ DOMAIN rtab \subseteq DOMAIN hist[pos].posted
       /\ loaded \in Seq(Payload)

LEMMA GetsLess ==
  ASSUME NEW f \in Tables, NEW g \in Tables, DOMAIN f \subseteq DOMAIN g, NEW c
  PROVE  /\ DOMAIN PostedAfter(c, f) \subseteq DOMAIN PostedAfter(c, g)
         /\ Gets(c, f) # {} => Gets(c, g) # {}
<1>1. DOMAIN PostedAfter(c, f) \subseteq DOMAIN PostedAfter(c, g)
  BY DEF PostedAfter, Put, del_request
<1>2. ASSUME c.op \in {"MPI_Wait", "MPI_Waitall"}, Gets(c, f) # {}
      PROVE  Gets(c, g) # {}
  <2>1. c.req \in DOMAIN f
    BY <1>2 DEF Gets
  <2>2. c.req \in {c.req} \cap DOMAIN g
    BY <2>1
  <2> QED BY <1>2, <2>2 DEF Gets
<1> QED BY <1>1, <1>2 DEF Gets

LEMMA CallPlays ==
  ASSUME TypeOK, HistInv, InReplay, LogTrue, Behind, ReplayCall
  PROVE  Behind' /\ (Abstract!Play \/ UNCHANGED <<inbound, loaded>>)
<1> DEFINE s == hist[pos]
           t == hist[pos + 1]
           c == t.call
<1>1. /\ s \in Entry /\ t \in Entry /\ t.dump = "1" /\ Follows(s, t, inbound)
      /\ pos + 1 \in 1..Len(hist) /\ Moves(c)
  BY ReplayCallMoves
<1>2. /\ rphase = "running" /\ pos' = pos + 1 /\ UNCHANGED <<hist, inbound>>
  BY <1>1 DEF Moves, ReplayCall, vars
<1>3. /\ Len(loaded) = cpt_read /\ cpt_read <= s.cpt /\ loaded \in Seq(Payload)
      /\ DOMAIN rtab \subseteq DOMAIN s.posted /\ rtab \in Tables /\ s.posted \in Tables
      /\ s.cpt \in Nat /\ cpt_read \in Nat
  BY <1>1, <1>2, EntryParts DEF Behind, InReplay
<1>4. /\ DOMAIN PostedAfter(c, rtab) \subseteq DOMAIN t.posted
      /\ Gets(c, rtab) # {} => Gets(c, s.posted) # {}
  BY <1>1, <1>3, GetsLess DEF Follows
<1>5. /\ t.cpt \in {s.cpt, s.cpt + 1}
      /\ Gets(c, s.posted) # {} => t.cpt = s.cpt + 1
  BY <1>1 DEF Follows
<1>6. CASE UNCHANGED <<loaded, cpt_read>> /\ rtab' = PostedAfter(c, rtab)
  <2>1. rphase' # "off" /\ cpt_read' <= t.cpt
    BY <1>3, <1>5, <1>6, ReplayCallType
  <2>2. Behind'
    BY <1>2, <1>3, <1>4, <1>6, <2>1 DEF Behind
  <2> QED BY <1>2, <1>6, <2>2
<1>7. CASE Refuses(c)
  BY <1>2, <1>7 DEF Refuses, Behind
<1>8. ASSUME NEW b, Gets(c, rtab) = {b}, R!read_in_file(b),
             rtab' = PostedAfter(c, rtab)
      PROVE  Behind' /\ (Abstract!Play \/ UNCHANGED <<inbound, loaded>>)
  <2>1. t.cpt = s.cpt + 1 /\ t.cpt <= Len(inbound) /\ Len(inbound) \in Nat
    BY <1>1, <1>4, <1>5, <1>8 DEF HistInv, TypeOK
  <2>2. cpt_read + 1 \in 1..Len(inbound) /\ cpt_read < Len(inbound)
    BY <1>3, <2>1
  <2>3. CASE cpt_read \in DOMAIN files
    <3>1. files[cpt_read] = inbound[cpt_read + 1] /\ inbound[cpt_read + 1] \in Payload
      BY <2>2, <2>3 DEF LogTrue, TypeOK
    <3>2. loaded' = Append(loaded, inbound[cpt_read + 1]) /\ cpt_read' = cpt_read + 1
          /\ rphase' = "running"
      BY <1>2, <1>8, <2>3, <3>1 DEF R!read_in_file
    <3>3. Abstract!Play
      BY <1>2, <1>3, <2>2, <3>2 DEF Abstract!Play
    <3>4. loaded' \in Seq(Payload) /\ Len(loaded') = cpt_read'
      BY <1>3, <3>1, <3>2
    <3>5. cpt_read' <= t.cpt
      BY <1>3, <2>1, <3>2
    <3> QED BY <1>2, <1>4, <1>8, <3>2, <3>3, <3>4, <3>5 DEF Behind
  <2>4. CASE cpt_read \notin DOMAIN files
    <3>1. rphase' = "exited" /\ loaded' = loaded
      BY <1>8, <2>4 DEF R!read_in_file
    <3> QED BY <1>2, <3>1 DEF Behind
  <2> QED BY <2>3, <2>4
<1>9. CASE Loses(c)
  <2>1. DOMAIN rtab \subseteq DOMAIN t.posted
    BY <1>1, <1>3, <1>9 DEF Loses, Follows, PostedAfter, Put
  <2>2. cpt_read <= t.cpt
    BY <1>3, <1>5
  <2> QED BY <1>2, <1>3, <1>9, <2>1, <2>2 DEF Loses, Behind
<1> QED BY <1>1, <1>6, <1>7, <1>8, <1>9 DEF Moves, ReducesAlone

LEMMA StepRefines ==
  ASSUME TypeOK, HistInv, InReplay, LogTrue, MessagesArrived, Behind,
         [TidyNext]_allvars
  PROVE  Behind' /\ [Abstract!Next]_<<inbound, loaded>>
<1>1. CASE CaptureStep
  <2>1. rphase = "off" /\ UNCHANGED rvars /\ loaded = <<>>
    BY <1>1, CaptureIsOver DEF InReplay, Behind
  <2>2. [Next]_vars
    BY <1>1, StepsOfCapture DEF CRNext
  <2>3. inbound' = inbound \/ Abstract!Record
    BY <2>1, <2>2, ReceivedStep DEF Abstract!Record, Receives, rvars
  <2> QED BY <2>1, <2>3 DEF Behind, rvars, Abstract!Next
<1>2. CASE StartReplay
  <2>1. PICK i \in 1..Len(hist) :
          CanStart(i) /\ base' = i /\ R!MPI_Init(i, hist[i].mem)
    BY <1>2 DEF StartReplay
  <2>2. UNCHANGED <<hist, inbound>>
    BY <1>2 DEF StartReplay, vars
  <2>3. loaded' = <<>> /\ rtab' = EmptyTable /\ cpt_read' = 0 /\ pos' = i
        /\ rphase' = "running"
    BY <2>1 DEF R!MPI_Init, R!EmptyTable, EmptyTable
  <2>4. hist[i].cpt = 0 /\ DOMAIN EmptyTable = {}
    BY <2>1, EmptyTableType DEF CanStart
  <2> QED BY <2>2, <2>3, <2>4 DEF Behind, Abstract!Next, Abstract!Rewind
<1>3. CASE ReplayCall
  BY <1>3, CallPlays DEF Abstract!Next
<1>4. CASE FinishReplay
  <2>1. rphase' = "done" /\ UNCHANGED <<inbound, loaded>>
    BY <1>4 DEF FinishReplay, R!MPI_Finalize, vars
  <2> QED BY <2>1 DEF Behind
<1>5. CASE rtab = EmptyTable /\ RepeatRegion
  <2>1. UNCHANGED <<hist, inbound, base, rtab>> /\ rphase = "running"
        /\ rphase' = rphase /\ loaded' = <<>> /\ cpt_read' = 0 /\ pos' = base
    BY <1>5 DEF RepeatRegion, R!MPI_Init_again, vars
  <2>2. hist[base].cpt = 0 /\ DOMAIN rtab = {}
    BY <1>5, <2>1, EmptyTableType DEF InReplay, CanStart
  <2> QED BY <2>1, <2>2 DEF Behind, Abstract!Next, Abstract!Rewind
<1>6. CASE UNCHANGED allvars
  BY <1>6 DEF allvars, vars, rvars, Behind
<1> QED BY <1>1, <1>2, <1>3, <1>4, <1>5, <1>6 DEF TidyNext

(* Whatever the application does, the payloads a replay loads since it     *)
(* (re)started the region are those the captured process received, in that *)
(* order, none skipped and none made up, as long as a harness repeats no   *)
(* region that ends with receives pending: where the capture could not     *)
(* open a file the replay exits, if no older file was left under its name. *)
THEOREM Refines ==
  ASSUME AddressedWaits, ~OutOfMemory, GapsStay
  PROVE  TidySpec => ReplaysTheRecord
<1>1. CRInit => Abstract!Init /\ Behind /\ MessagesArrived
  BY DEF CRInit, Init, R!Off, Abstract!Init, Behind, MessagesArrived
<1>2. [TidyNext]_allvars => [CRNext]_allvars
  BY DEF TidyNext, CRNext, ReplayStep
<1>3. TypeOK /\ MessagesArrived /\ [CRNext]_allvars => MessagesArrived'
  BY StepsOfCapture, ArrivedStep
<1>4. CRSpec => []LogTrue
  BY RunsCapture, LogIsTrue, PTL
<1>5. TypeOK /\ HistInv /\ InReplay /\ LogTrue /\ MessagesArrived /\ Behind
        /\ [TidyNext]_allvars => Behind' /\ [Abstract!Next]_<<inbound, loaded>>
  BY StepRefines
<1> QED BY <1>1, <1>2, <1>3, <1>4, <1>5, BothRuns, PTL
        DEF TidySpec, CRSpec, ReplaysTheRecord, Abstract!Spec

-----------------------------------------------------------------------------
(* The types of both processes, with no assumption on the communicators,   *)
(* on MPI_Waitall or on what MPI_File_open returns: the wrappers of the    *)
(* replay stay within the tables and the program even when the log they    *)
(* read is not the one the application expects.                            *)

TypedEntry ==
  {e \in Entry : e.call.op = "MPI_Irecv" =>
                   e.call.req \in Reqs /\ e.call.buf \in Bufs}

HistTyped == hist \in Seq(TypedEntry)

ReplayTyped ==
  /\ base \in 0..Len(hist) /\ pos \in 0..Len(hist)
  /\ rphase \in {"off", "running", "exited", "done"}
  /\ rphase # "off" => base \in 1..Len(hist)
  /\ rmem \in [Bufs -> Payload] /\ rtab \in Tables
  /\ cpt_read \in Nat /\ passes \in 0..MaxPasses

LEMMA HistParts ==
  ASSUME HistTyped
  PROVE  /\ hist \in Seq(Entry) /\ Len(hist) \in Nat
         /\ \A i \in 1..Len(hist) : hist[i] \in TypedEntry /\ hist[i] \in Entry
<1>1. \A i \in 1..Len(hist) : hist[i] \in TypedEntry /\ hist[i] \in Entry
  BY DEF HistTyped, TypedEntry
<1> QED BY <1>1 DEF HistTyped

(* A call that may be recorded. *)
LEMMA ReturnsType ==
  ASSUME TypeOK', HistTyped,
         NEW op \in Ops, NEW b \in Bufs \cup {NULL}, NEW a \in Reqs \cup {NULL},
         NEW root \in Ranks \cup {NULL},
         op = "MPI_Irecv" => a \in Reqs /\ b \in Bufs,
         Returns(Call(op, b, a, root))
  PROVE  HistTyped' /\ Len(hist') \in {Len(hist), Len(hist) + 1}
<1> DEFINE c == Call(op, b, a, root)
           e == [call |-> c, mem |-> mem', cpt |-> cpt_write',
                 posted |-> PostedIn(active'), dump |-> dump']
<1>1. c \in CallRecord /\ c.op = op /\ c.buf = b /\ c.req = a
  BY CallType
<1>2. e \in Entry /\ e.call = c
  BY <1>1, PostedInType DEF Entry, TypeOK
<1>3. hist' = hist \/ hist' = Append(hist, e)
  BY DEF Returns
<1> HIDE DEF e, c
<1>4. e \in TypedEntry
  BY <1>1, <1>2 DEF TypedEntry
<1> QED BY <1>3, <1>4 DEF HistTyped

LEMMA HistTypeStep ==
  ASSUME TypeOK, TypeOK', HistTyped, CaptureStep
  PROVE  HistTyped' /\ Len(hist') >= Len(hist)
<1>1. Len(hist) \in Nat
  BY HistParts
<1>2. NULL \in Bufs \cup {NULL} /\ NULL \in Reqs \cup {NULL}
      /\ NULL \in Ranks \cup {NULL}
  OBVIOUS
<1>3. ASSUME NEW op \in Ops, NEW b \in Bufs \cup {NULL}, NEW a \in Reqs \cup {NULL},
             NEW root \in Ranks \cup {NULL}, Returns(Call(op, b, a, root)),
             op = "MPI_Irecv" => a \in Reqs /\ b \in Bufs
      PROVE  HistTyped' /\ Len(hist') >= Len(hist)
  <2>1. HistTyped' /\ Len(hist') \in {Len(hist), Len(hist) + 1}
    BY <1>3, ReturnsType
  <2> QED BY <1>1, <2>1
<1>4. \A f \in AllCalls \cup {"MPI_Init"} : f \in Ops
  BY DEF Ops
<1>5. CASE RecordedCollective
  <2>1. PICK b \in Bufs :
          \/ \E op \in {"MPI_Allreduce", "MPI_Alltoall", "MPI_Alltoallv"} :
               Returns(Call(op, b, NULL, NULL))
          \/ \E root \in Ranks, op \in {"MPI_Bcast", "MPI_Reduce"} :
               Returns(Call(op, b, NULL, root))
    BY <1>5 DEF RecordedCollective
  <2> QED BY <1>2, <1>3, <1>4, <2>1 DEF AllCalls
<1>6. CASE RecordedCall
  <2>1. \/ RecordedCollective
        \/ \E a \in Reqs, b \in Bufs : Returns(Call("MPI_Irecv", b, a, NULL))
        \/ \E b \in Bufs : Returns(Call("MPI_Recv", b, NULL, NULL))
        \/ \E a \in Reqs, op \in {"MPI_Isend", "MPI_Wait", "MPI_Waitall"} :
             Returns(Call(op, NULL, a, NULL))
        \/ \E op \in {"MPI_Init", "setenv"} : Returns(Call(op, NULL, NULL, NULL))
    <3>1. WaitallStep => Head(todo) \in Reqs
      BY DEF WaitallStep, TypeOK
    <3> QED BY <1>6, <3>1 DEF RecordedCall
  <2> QED BY <1>2, <1>3, <1>4, <1>5, <2>1 DEF AllCalls
<1>7. CASE UnrecordedStep
  BY <1>1, <1>7 DEF UnrecordedStep, HistTyped
<1> QED BY <1>6, <1>7 DEF CaptureStep

(* A call of the replay, whatever the log is. *)
LEMMA ReplayTypeCall ==
  ASSUME TypeOK, HistTyped, ReplayTyped, ReplayCall
  PROVE  ReplayTyped'
<1> DEFINE c == hist[pos + 1].call
<1>1. hist \in Seq(Entry) /\ Len(hist) \in Nat /\ pos \in Nat /\ rtab \in Tables
  BY HistParts DEF ReplayTyped
<1>2. R!Call /\ UNCHANGED <<hist, base>>
  BY DEF ReplayCall
<1>3. Moves(c)
  BY <1>1, <1>2, CallMoves
<1>4. /\ rphase = "running" /\ pos' = pos + 1 /\ pos + 1 \in 1..Len(hist)
      /\ passes' = passes
  BY <1>1, <1>3 DEF Moves
<1>5. c \in CallRecord /\ (c.op = "MPI_Irecv" => c.req \in Reqs /\ c.buf \in Bufs)
  BY <1>4, HistParts, EntryParts DEF TypedEntry
<1> HIDE DEF c
<1>6. PostedAfter(c, rtab) \in Tables
  <2>1. rtab \in [DOMAIN rtab -> Bufs] /\ DOMAIN rtab \subseteq Reqs
    BY <1>1, TableTypes
  <2>2. CASE c.op = "MPI_Irecv"
    <3>1. Put(rtab, c.req, c.buf) \in [DOMAIN rtab \cup {c.req} -> Bufs]
          /\ DOMAIN rtab \cup {c.req} \in SUBSET Reqs
      BY <1>5, <2>1, <2>2 DEF Put
    <3> QED BY <2>2, <3>1 DEF PostedAfter, Tables
  <2>3. CASE c.op \in {"MPI_Wait", "MPI_Waitall"}
    <3>1. del_request(rtab, c.req) \in [DOMAIN rtab \ {c.req} -> Bufs]
          /\ DOMAIN rtab \ {c.req} \in SUBSET Reqs
      BY <2>1 DEF del_request
    <3> QED BY <2>3, <3>1 DEF PostedAfter, Tables
  <2> QED BY <1>1, <2>2, <2>3 DEF PostedAfter
<1>7. rtab' \in Tables
  BY <1>1, <1>3, <1>6 DEF Moves, Refuses, Loses
<1>8. rmem \in [Bufs -> Payload] /\ cpt_read \in Nat
  BY DEF ReplayTyped
<1>9. /\ rmem' \in [Bufs -> Payload] /\ cpt_read' \in Nat
      /\ rphase' \in {"running", "exited"}
  <2>1. ASSUME NEW b, R!read_in_file(b)
        PROVE  /\ rmem' \in [Bufs -> Payload] /\ cpt_read' \in Nat
               /\ rphase' \in {rphase, "exited"}
    <3>1. cpt_read \in DOMAIN files => files[cpt_read] \in Payload
      BY DEF TypeOK
    <3> QED BY <1>8, <2>1, <3>1 DEF R!read_in_file
  <2>2. ReducesAlone => /\ rmem' \in [Bufs -> Payload] /\ cpt_read' \in Nat
                        /\ rphase' \in {rphase, "exited"}
    BY <1>8 DEF ReducesAlone, Payload
  <2>3. Refuses(c) => /\ rmem' \in [Bufs -> Payload] /\ cpt_read' \in Nat
                      /\ rphase' = "exited"
    BY <1>8 DEF Refuses
  <2>4. Loses(c) => /\ rmem' \in [Bufs -> Payload] /\ cpt_read' \in Nat
                    /\ rphase' = rphase
    BY <1>8 DEF Loses
  <2> QED BY <1>3, <1>4, <1>8, <2>1, <2>2, <2>3, <2>4 DEF Moves
<1> QED BY <1>1, <1>2, <1>4, <1>7, <1>9 DEF ReplayTyped

LEMMA ReplayTypeStep ==
  ASSUME TypeOK, TypeOK', HistTyped, ReplayTyped, [CRNext]_allvars
  PROVE  HistTyped' /\ ReplayTyped'
<1>1. Len(hist) \in Nat
  BY HistParts
<1>2. CASE CaptureStep
  <2>1. HistTyped' /\ Len(hist') >= Len(hist) /\ Len(hist') \in Nat
    <3>1. HistTyped' /\ Len(hist') >= Len(hist)
      BY <1>2, HistTypeStep
    <3> QED BY <3>1 DEF HistTyped
  <2>2. UNCHANGED <<base, rvars>>
    BY <1>2 DEF CaptureStep
  <2> QED BY <1>1, <2>1, <2>2 DEF ReplayTyped, rvars
<1>3. CASE StartReplay
  <2>1. PICK i \in 1..Len(hist) : base' = i /\ R!MPI_Init(i, hist[i].mem)
    BY <1>3 DEF StartReplay
  <2>2. hist' = hist
    BY <1>3 DEF StartReplay
  <2>3. /\ rphase' = "running" /\ rmem' = hist[i].mem /\ rtab' = EmptyTable
        /\ cpt_read' = 0 /\ pos' = i /\ passes' = 1
    BY <2>1 DEF R!MPI_Init, R!EmptyTable, EmptyTable
  <2>4. rmem' \in [Bufs -> Payload]
    BY <2>3, HistParts, EntryParts
  <2>5. rtab' \in Tables
    BY <2>3, TableTypes DEF ReplayTyped
  <2>6. passes' \in 0..MaxPasses
    BY <2>3, BoundsAssumption DEF BoundsAssumption
  <2> QED BY <1>1, <2>1, <2>2, <2>3, <2>4, <2>5, <2>6 DEF ReplayTyped, HistTyped
<1>4. CASE ReplayCall
  BY <1>4, ReplayTypeCall DEF ReplayCall, HistTyped
<1>5. CASE RepeatRegion
  <2>1. /\ UNCHANGED <<hist, base, rtab, rphase>> /\ rphase = "running"
        /\ rmem' = hist[base].mem /\ cpt_read' = 0 /\ pos' = base
        /\ passes' = passes + 1 /\ passes < MaxPasses
    BY <1>5 DEF RepeatRegion, R!MPI_Init_again
  <2>2. base \in 1..Len(hist)
    BY <2>1 DEF ReplayTyped
  <2>3. rmem' \in [Bufs -> Payload]
    BY <2>1, <2>2, HistParts, EntryParts
  <2>4. passes' \in 0..MaxPasses
    BY <2>1, BoundsAssumption DEF BoundsAssumption, ReplayTyped
  <2> QED BY <1>1, <2>1, <2>2, <2>3, <2>4 DEF ReplayTyped, HistTyped
<1>6. CASE FinishReplay
  <2>1. /\ UNCHANGED <<hist, base, rmem, cpt_read, pos, passes>>
        /\ rtab' = EmptyTable /\ rphase = "running" /\ rphase' = "done"
    BY <1>6 DEF FinishReplay, R!MPI_Finalize, R!EmptyTable, EmptyTable
  <2>2. rtab' \in Tables
    BY <2>1, TableTypes DEF ReplayTyped
  <2> QED BY <2>1, <2>2 DEF ReplayTyped, HistTyped
<1>7. CASE UNCHANGED allvars
  BY <1>7 DEF allvars, rvars, ReplayTyped, HistTyped
<1> QED BY <1>2, <1>3, <1>4, <1>5, <1>6, <1>7 DEF CRNext, ReplayStep

(* Whatever the application and MPI do, the captured calls and the replay  *)
(* of them keep their types: the replay never runs past the calls of the   *)
(* application, and only receives of the application are on its books.     *)
THEOREM CRTypes == CRSpec => []CRTypeOK
<1>1. CRInit => Init /\ HistTyped /\ ReplayTyped
  <2>1. ASSUME CRInit PROVE Init /\ HistTyped /\ ReplayTyped
    <3>1. /\ hist = <<>> /\ base = 0 /\ rphase = "off" /\ rtab = EmptyTable
          /\ rmem = [b \in Bufs |-> Junk] /\ cpt_read = 0 /\ pos = 0 /\ passes = 0
      BY <2>1 DEF CRInit, R!Off, R!EmptyTable, EmptyTable
    <3>2. rtab \in Tables
      <4>1. rtab \in [{} -> Bufs]
        BY <3>1 DEF EmptyTable
      <4> QED BY <4>1 DEF Tables
    <3>3. rmem \in [Bufs -> Payload]
      BY <3>1 DEF Payload
    <3>4. passes \in 0..MaxPasses
      BY <3>1, BoundsAssumption DEF BoundsAssumption
    <3> QED BY <2>1, <3>1, <3>2, <3>3, <3>4 DEF CRInit, HistTyped, ReplayTyped
  <2> QED BY <2>1
<1>2. CRSpec => []TypeOK
  BY <1>1, StepsOfCapture, TypeCorrect, PTL DEF CRSpec, Spec
<1>3. TypeOK /\ TypeOK' /\ HistTyped /\ ReplayTyped /\ [CRNext]_allvars
      => HistTyped' /\ ReplayTyped'
  BY ReplayTypeStep
<1>4. TypeOK /\ HistTyped /\ ReplayTyped => CRTypeOK
  <2> SUFFICES ASSUME TypeOK, HistTyped, ReplayTyped PROVE CRTypeOK
    OBVIOUS
  <2>1. ASSUME NEW i \in 1..Len(hist)
        PROVE  /\ hist[i].mem \in [Bufs -> Payload]
               /\ DOMAIN hist[i].posted \subseteq Reqs
               /\ \A a \in DOMAIN hist[i].posted : hist[i].posted[a] \in Bufs
               /\ hist[i].cpt \in Nat /\ hist[i].dump \in {"unset", "0", "1"}
    <3>1. hist[i] \in Entry
      BY HistParts
    <3> DEFINE e == hist[i]
               f == e.posted
    <3>2. f \in Tables /\ e.mem \in [Bufs -> Payload] /\ e.cpt \in Nat
          /\ e.dump \in {"unset", "0", "1"}
      BY <3>1 DEF Entry
    <3> HIDE DEF f
    <3>3. DOMAIN f \subseteq Reqs /\ f \in [DOMAIN f -> Bufs]
      BY <3>2, TableTypes
    <3>4. \A a \in DOMAIN f : f[a] \in Bufs
      BY <3>3
    <3> QED BY <3>2, <3>3, <3>4 DEF f
  <2>2. DOMAIN rtab \subseteq Reqs /\ rtab \in [DOMAIN rtab -> Bufs]
    BY TableTypes DEF ReplayTyped
  <2> QED BY <2>1, <2>2 DEF CRTypeOK, ReplayTyped
<1> QED BY <1>1, <1>2, <1>3, <1>4, PTL DEF CRSpec
=============================================================================
