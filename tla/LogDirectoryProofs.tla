------------------------- MODULE LogDirectoryProofs -------------------------
(***************************************************************************)
(* Theorems about the log directory (OutputPath, LogDirectory), for every  *)
(* set of paths, directories, sizes and calls and every length of the      *)
(* buffers.                                                                *)
(***************************************************************************)
EXTENDS LogDirectory, WellFoundedInduction, TLAPS

-----------------------------------------------------------------------------
(* Sequences and paths. *)

LEMMA MinOf ==
  ASSUME NEW S \in SUBSET Nat, S # {}
  PROVE  Min(S) \in S /\ \A x \in S : Min(S) <= x
<1>1. PICK x \in S : \A y \in S : <<y, x>> \notin OpToRel(<, Nat)
  BY NatLessThanWellFounded, WFMin
<1>2. ASSUME NEW y \in S PROVE x <= y
  <2>1. x \in Nat /\ y \in Nat
    OBVIOUS
  <2>2. ~(y < x)
    BY <1>1, <2>1 DEF OpToRel
  <2> QED BY <2>1, <2>2
<1> QED BY <1>2 DEF Min

Token == UNION {Range(q) : q \in Paths}

IsPath(q) ==
  /\ q \in Seq(Token)
  /\ \A i \in 1..(Len(q) - 1) : q[i] = Slash <=> q[i + 1] # Slash

LEMMA PathsArePaths == \A q \in Paths : IsPath(q)
BY PathAssumption DEF PathAssumption, IsPath, Token

LEMMA Prefix ==
  ASSUME NEW q, IsPath(q), NEW n \in 0..Len(q)
  PROVE  /\ IsPath(SubSeq(q, 1, n)) /\ Len(SubSeq(q, 1, n)) = n
         /\ \A i \in 1..n : SubSeq(q, 1, n)[i] = q[i]
BY DEF IsPath

LEMMA CutPath ==
  ASSUME NEW q, IsPath(q), NEW n \in Nat
  PROVE  /\ n >= Len(q) => Cut(q, n) = q
         /\ n < Len(q) => Cut(q, n) = SubSeq(q, 1, n) /\ Len(Cut(q, n)) = n
         /\ IsPath(Cut(q, n)) /\ Len(Cut(q, n)) <= n
<1>1. Len(q) \in Nat
  BY DEF IsPath
<1>2. {n, Len(q)} \in SUBSET Nat /\ {n, Len(q)} # {}
  BY <1>1
<1>3. Min({n, Len(q)}) = IF n < Len(q) THEN n ELSE Len(q)
  BY <1>1, <1>2, MinOf
<1>4. SubSeq(q, 1, Len(q)) = q
  BY DEF IsPath
<1>5. CASE n < Len(q)
  <2>1. Cut(q, n) = SubSeq(q, 1, n)
    BY <1>3, <1>5 DEF Cut
  <2>2. n \in 0..Len(q)
    BY <1>1, <1>5
  <2>3. IsPath(SubSeq(q, 1, n)) /\ Len(SubSeq(q, 1, n)) = n
    BY <2>2, Prefix
  <2> QED BY <1>1, <1>5, <2>1, <2>3
<1>6. CASE n >= Len(q)
  <2>1. Min({n, Len(q)}) = Len(q)
    BY <1>1, <1>3, <1>6
  <2>2. Cut(q, n) = q
    BY <1>4, <2>1 DEF Cut
  <2> QED BY <1>1, <1>6, <2>2
<1> QED BY <1>1, <1>5, <1>6

(* The directory of a path. *)
LEMMA DirPath ==
  ASSUME NEW q, IsPath(q)
  PROVE  /\ q = <<>> => Dir(q) = <<>>
         /\ q # <<>> /\ q[Len(q)] = Slash => Dir(q) = SubSeq(q, 1, Len(q) - 1)
         /\ q # <<>> /\ q[Len(q)] # Slash => Dir(q) = q
BY DEF Dir, Last, Front, IsPath

-----------------------------------------------------------------------------
(* What the log directory depends on: where mkpath is, and what nprocs and *)
(* saved say.                                                              *)

PathType ==
  /\ IsPath(path) /\ outpath = Cut(path, CapLen)
  /\ Root \in dirs
  /\ phase = "mkpath" => p \in 2..Len(outpath) /\ outpath[p] = Slash

LEMMA OutpathPath ==
  ASSUME PathType
  PROVE  IsPath(outpath) /\ Len(outpath) \in Nat
<1>1. IsPath(outpath)
  BY CutPath, PathAssumption DEF PathType, PathAssumption
<1> QED BY <1>1 DEF IsPath

(* mkpath has made the directory of every slash it has passed. *)
Made ==
  phase = "mkpath" =>
    \A j \in 2..(p - 1) : outpath[j] = Slash => SubSeq(outpath, 1, j - 1) \in dirs

(* Nothing is missing when it returns, unless something stopped it. *)
Opening ==
  phase = "open" /\ outpath # <<>> /\ outpath[Len(outpath)] = Slash =>
    Exists(outpath) \/ Blocked

PathInv == PathType /\ Made /\ Opening /\ SlashedPathsOpen

(* mkpath goes on behind a slash of outpath', or in front of them all. *)
LEMMA NextSlashStep ==
  ASSUME NEW q, IsPath(q), NEW i \in Nat, NextSlash(q, i)
  PROVE  \/ /\ phase' = "open"
            /\ \A j \in 2..Len(q) : q[j] = Slash => j <= i
         \/ /\ phase' = "mkpath"
            /\ p' \in 2..Len(q) /\ q[p'] = Slash
            /\ \A j \in 2..(p' - 1) : q[j] = Slash => j <= i
<1> DEFINE later == {j \in 2..Len(q) : q[j] = Slash /\ j > i}
<1>1. Len(q) \in Nat
  BY DEF IsPath
<1>2. CASE later = {}
  BY <1>1, <1>2 DEF NextSlash
<1>3. CASE later # {}
  <2>1. phase' = "mkpath" /\ p' = Min(later)
    BY <1>3 DEF NextSlash
  <2>2. later \in SUBSET Nat
    BY <1>1
  <2>3. Min(later) \in later /\ \A x \in later : Min(later) <= x
    BY <1>3, <2>2, MinOf
  <2>4. \A j \in 2..(p' - 1) : q[j] = Slash => j <= i
    BY <1>1, <2>1, <2>3
  <2> QED BY <2>1, <2>3, <2>4
<1> QED BY <1>2, <1>3

(* The directory of a path with a slash at its end. *)
LEMMA DirOfSlashed ==
  ASSUME NEW q, IsPath(q), q # <<>>, q[Len(q)] = Slash, NEW D, Root \in D,
         Len(q) = 1 \/ SubSeq(q, 1, Len(q) - 1) \in D
  PROVE  Dir(q) \in D
<1>1. Dir(q) = SubSeq(q, 1, Len(q) - 1)
  BY DirPath
<1>2. Len(q) = 1 => Dir(q) = Root
  BY <1>1 DEF Root, IsPath
<1> QED BY <1>1, <1>2

LEMMA StartPath ==
  ASSUME PathInv, NEW q \in Paths, StartCapture(q)
  PROVE  PathInv'
<1>1. /\ path' = q /\ outpath' = Cut(q, CapLen) /\ dirs' = dirs
      /\ CapLen \in Nat
  BY PathAssumption DEF StartCapture, PathAssumption
<1>2. IsPath(q) /\ IsPath(outpath') /\ Len(outpath') \in Nat
  <2>1. IsPath(q)
    BY PathsArePaths
  <2>2. IsPath(outpath')
    BY <1>1, <2>1, CutPath
  <2> QED BY <2>1, <2>2 DEF IsPath
<1>3. Root \in dirs'
  BY <1>1 DEF PathInv, PathType
<1>4. IsPath(path') /\ outpath' = Cut(path', CapLen)
  BY <1>1, <1>2
<1>5. CASE Exists(outpath') /\ phase' = "open"
  <2>1. Exists(outpath)'
    BY <1>1, <1>5 DEF Exists
  <2> QED BY <1>3, <1>4, <1>5, <2>1
          DEF PathInv, PathType, Made, Opening, SlashedPathsOpen
<1>6. CASE outpath' = <<>> /\ phase' = "exited"
  BY <1>3, <1>4, <1>6 DEF PathInv, PathType, Made, Opening, SlashedPathsOpen
<1>7. CASE outpath' # <<>> /\ NextSlash(outpath', 0)
  <2>1. CASE /\ phase' = "open"
             /\ \A j \in 2..Len(outpath') : outpath'[j] = Slash => j <= 0
    <3>1. outpath'[Len(outpath')] = Slash => Len(outpath') = 1
      <4>1. Len(outpath') # 0
        BY <1>2, <1>7 DEF IsPath
      <4> QED BY <1>2, <2>1, <4>1
    <3>2. outpath'[Len(outpath')] = Slash => Dir(outpath') \in dirs'
      BY <1>2, <1>3, <1>7, <3>1, DirOfSlashed
    <3> QED BY <1>3, <1>4, <2>1, <3>2
            DEF PathInv, PathType, Made, Opening, SlashedPathsOpen, Exists
  <2>2. CASE /\ phase' = "mkpath"
             /\ p' \in 2..Len(outpath') /\ outpath'[p'] = Slash
             /\ \A j \in 2..(p' - 1) : outpath'[j] = Slash => j <= 0
    <3>1. ASSUME NEW j \in 2..(p' - 1) PROVE outpath'[j] # Slash
      <4>1. p' \in Nat
        BY <1>2, <2>2
      <4>2. ~(j <= 0)
        BY <4>1
      <4> QED BY <2>2, <4>2
    <3> QED BY <1>3, <1>4, <2>2, <3>1
            DEF PathInv, PathType, Made, Opening, SlashedPathsOpen
  <2>3. 0 \in Nat
    OBVIOUS
  <2> QED BY <1>2, <1>7, <2>1, <2>2, <2>3, NextSlashStep
<1> QED BY <1>5, <1>6, <1>7 DEF StartCapture

(* Where mkdir fails, its parent is Root or was made by mkpath, so that it *)
(* is there and must be locked.                                            *)
LEMMA FailureBlocked ==
  ASSUME PathInv, phase = "mkpath",
         ~Creatable(SubSeq(outpath, 1, p - 1))
  PROVE  Blocked
<1> DEFINE d == SubSeq(outpath, 1, p - 1)
<1>1. /\ IsPath(outpath) /\ Len(outpath) \in Nat
      /\ p \in 2..Len(outpath) /\ outpath[p] = Slash
  BY OutpathPath DEF PathInv, PathType
<1>2. p - 1 \in 0..Len(outpath) /\ IsPath(d) /\ Len(d) = p - 1
  BY <1>1, Prefix
<1>3. CASE Len(d) <= 2
  <2>1. Root \in Locked
    BY <1>2, <1>3 DEF Creatable, Parent, PathInv, PathType
  <2>2. SubSeq(outpath, 1, 0) = <<>>
    BY <1>1 DEF IsPath
  <2>3. Dir(<<>>) = Root
    BY DEF Dir, Root
  <2>4. Dir(SubSeq(outpath, 1, 0)) \in Locked
    BY <2>1, <2>2, <2>3
  <2>5. 0 \in 0..Len(outpath)
    BY <1>1
  <2> QED BY <2>4, <2>5, Zenon DEF Blocked
<1>4. CASE Len(d) > 2
  <2>1. p - 3 \in 1..Len(outpath) /\ p - 2 \in 2..(p - 1) /\ p - 1 \in 1..Len(outpath)
    BY <1>1, <1>2, <1>4
  <2>2. Parent(d) = SubSeq(outpath, 1, p - 3)
    <3>1. Parent(d) = SubSeq(d, 1, p - 3)
      BY <1>1, <1>2, <1>4 DEF Parent
    <3>2. d \in Seq(Token) /\ outpath \in Seq(Token)
      BY <1>1, <1>2 DEF IsPath
    <3> QED BY <1>1, <1>2, <2>1, <3>1, <3>2
  <2>3. outpath[p - 1] # Slash /\ outpath[p - 2] = Slash /\ outpath[p - 3] # Slash
    BY <1>1, <2>1 DEF IsPath
  <2>4. SubSeq(outpath, 1, p - 3) \in dirs
    BY <1>1, <2>1, <2>3 DEF PathInv, Made
  <2>5. SubSeq(outpath, 1, p - 3) \in Locked
    BY <2>2, <2>4 DEF Creatable
  <2>6. Dir(SubSeq(outpath, 1, p - 3)) = SubSeq(outpath, 1, p - 3)
    <3> DEFINE e == SubSeq(outpath, 1, p - 3)
    <3>1. IsPath(e) /\ Len(e) = p - 3 /\ e[p - 3] # Slash
      BY <1>1, <2>1, <2>3, Prefix
    <3>2. e # <<>>
      BY <2>1, <3>1 DEF IsPath
    <3>3. e[Len(e)] # Slash
      BY <3>1
    <3> HIDE DEF e
    <3>4. Dir(e) = e
      BY <3>1, <3>2, <3>3, DirPath
    <3> QED BY <3>4 DEF e
  <2>7. Dir(SubSeq(outpath, 1, p - 3)) \in Locked
    BY <2>5, <2>6
  <2>8. p - 3 \in 0..Len(outpath)
    BY <1>1, <2>1
  <2> QED BY <2>7, <2>8, Zenon DEF Blocked
<1> QED BY <1>2, <1>3, <1>4

LEMMA MkdirPath ==
  ASSUME PathInv, Mkdir
  PROVE  PathInv'
<1> DEFINE d == SubSeq(outpath, 1, p - 1)
<1>1. /\ IsPath(outpath) /\ Len(outpath) \in Nat
      /\ p \in 2..Len(outpath) /\ outpath[p] = Slash /\ phase = "mkpath"
  BY OutpathPath DEF PathInv, PathType, Mkdir
<1>2. UNCHANGED <<path, outpath>> /\ dirs \subseteq dirs'
  BY DEF Mkdir
<1>3. IsPath(path') /\ outpath' = Cut(path', CapLen) /\ Root \in dirs'
  BY <1>2 DEF PathInv, PathType
<1>4. CASE NextSlash(outpath, p) /\ d \in dirs'
  <2>1. \A j \in 2..p : outpath[j] = Slash => SubSeq(outpath, 1, j - 1) \in dirs'
    BY <1>1, <1>2, <1>4 DEF PathInv, Made
  <2>2. CASE /\ phase' = "open"
             /\ \A j \in 2..Len(outpath) : outpath[j] = Slash => j <= p
    <3>1. outpath[Len(outpath)] = Slash => Len(outpath) = p
      BY <1>1, <2>2
    <3>2. outpath[Len(outpath)] = Slash => Dir(outpath) \in dirs'
      <4>1. ASSUME outpath[Len(outpath)] = Slash
            PROVE  Dir(outpath) = d
        <5>1. Len(outpath) = p /\ outpath # <<>>
          BY <1>1, <3>1, <4>1
        <5>2. Dir(outpath) = SubSeq(outpath, 1, Len(outpath) - 1)
          BY <1>1, <4>1, <5>1, DirPath
        <5> QED BY <5>1, <5>2
      <4> QED BY <1>4, <4>1
    <3> QED BY <1>2, <1>3, <2>2, <3>2
            DEF PathInv, PathType, Made, Opening, SlashedPathsOpen, Exists
  <2>3. CASE /\ phase' = "mkpath"
             /\ p' \in 2..Len(outpath) /\ outpath[p'] = Slash
             /\ \A j \in 2..(p' - 1) : outpath[j] = Slash => j <= p
    <3>1. ASSUME NEW j \in 2..(p' - 1), outpath[j] = Slash
          PROVE  SubSeq(outpath, 1, j - 1) \in dirs'
      <4>1. p \in Nat /\ p' \in Nat
        BY <1>1, <2>3
      <4>2. j \in Nat /\ 2 <= j
        BY <4>1
      <4>3. j <= p
        BY <2>3, <3>1
      <4> QED BY <2>1, <3>1, <4>1, <4>2, <4>3
    <3> QED BY <1>2, <1>3, <2>3, <3>1
            DEF PathInv, PathType, Made, Opening, SlashedPathsOpen
  <2>4. p \in Nat
    BY <1>1
  <2> QED BY <1>1, <1>4, <2>2, <2>3, <2>4, NextSlashStep
<1>5. CASE ~Creatable(d) /\ phase' = "open"
  <2>1. Blocked
    BY <1>1, <1>5, FailureBlocked
  <2>2. Blocked'
    BY <1>2, <2>1 DEF Blocked
  <2> QED BY <1>3, <1>5, <2>2
          DEF PathInv, PathType, Made, Opening, SlashedPathsOpen
<1> QED BY <1>4, <1>5 DEF Mkdir

LEMMA OtherMkdirPath ==
  ASSUME PathInv, NEW d, OtherMkdir(d)
  PROVE  PathInv'
BY DEF PathInv, PathType, Made, Opening, SlashedPathsOpen, OtherMkdir

LEMMA OpenPath ==
  ASSUME PathInv, OpenNprocs
  PROVE  PathInv'
<1>1. IsPath(outpath) /\ Len(outpath) \in Nat
  BY OutpathPath DEF PathInv
<1>2. UNCHANGED <<dirs, path, outpath>> /\ phase = "open"
  BY DEF OpenNprocs
<1>3. PathType'
  BY <1>2 DEF PathInv, PathType, OpenNprocs
<1>4. CASE phase' = "write"
  BY <1>3, <1>4 DEF PathInv, Made, Opening, SlashedPathsOpen
<1>5. CASE phase' = "exited" /\ (~Exists(outpath) \/ Dir(outpath) \in Locked)
  <2>1. ASSUME Dir(outpath) \in Locked PROVE Blocked
    <3>1. SubSeq(outpath, 1, Len(outpath)) = outpath
      BY <1>1 DEF IsPath
    <3>2. Dir(SubSeq(outpath, 1, Len(outpath))) \in Locked
      BY <2>1, <3>1
    <3>3. Len(outpath) \in 0..Len(outpath)
      BY <1>1
    <3> QED BY <3>2, <3>3, Zenon DEF Blocked
  <2>2. outpath # <<>> /\ Last(outpath) = Slash => Blocked
    BY <1>2, <1>5, <2>1 DEF PathInv, Opening, Last
  <2>3. SlashedPathsOpen'
    BY <1>2, <2>2 DEF SlashedPathsOpen, Blocked
  <2> QED BY <1>3, <1>5, <2>3 DEF PathInv, Made, Opening
<1> QED BY <1>4, <1>5 DEF OpenNprocs

LEMMA PathStep ==
  ASSUME PathInv, [Next]_vars
  PROVE  PathInv'
<1>1. ASSUME NEW q \in Paths, NEW n \in Sizes, Start(q, n) PROVE PathInv'
  BY <1>1, StartPath DEF Start
<1>2. CASE Mkdir \/ OpenNprocs \/ \E d \in Others : OtherMkdir(d)
  BY <1>2, MkdirPath, OpenPath, OtherMkdirPath
<1>3. CASE /\ UNCHANGED <<dirs, path, outpath>>
           /\ phase' \notin {"mkpath", "open", "exited"} \/ UNCHANGED <<phase, p>>
  BY <1>3 DEF PathInv, PathType, Made, Opening, SlashedPathsOpen, Exists, Blocked
<1>4. CASE \/ WriteNprocs \/ Stop \/ StartReplay \/ ReplayCall
           \/ \E c \in Calls : Call(c) \/ TornCall(c)
           \/ UNCHANGED vars
  BY <1>3, <1>4 DEF WriteNprocs, Stop, StartReplay, ReplayCall, Call, TornCall,
                    vars, pathVars
<1> QED BY <1>1, <1>2, <1>4 DEF Next

-----------------------------------------------------------------------------
(* What nprocs says.  Its directory is the one of outpath, which no other  *)
(* name fits into.                                                         *)

SizeInv ==
  /\ \A d \in DOMAIN nprocs : Len(d) <= CapLen
  /\ saved # "no" => outpath # <<>> /\ Dir(outpath) \in DOMAIN nprocs
  /\ saved = "size" => nprocs[Dir(outpath)] = size
  /\ phase \in {"mkpath", "open"} => saved = "no"
  /\ phase = "write" => saved = "empty"

ReplayInv ==
  /\ phase = "replay" =>
       path # <<>> /\ Dir(path) \in DOMAIN nprocs /\ MPIre_size = nprocs[Dir(path)]
  /\ ReplayOpens

(* A path that was cut and still has the same directory: only its slash at *)
(* the end was cut off.                                                    *)
LEMMA SameDirectory ==
  ASSUME NEW q, IsPath(q), NEW n \in Nat, Cut(q, n) # <<>>, Len(Dir(q)) <= n
  PROVE  Dir(q) = Dir(Cut(q, n))
<1>1. q \in Seq(Token) /\ Len(q) \in Nat
  BY DEF IsPath
<1>2. CASE n >= Len(q)
  BY <1>2, CutPath
<1>3. CASE n < Len(q)
  <2>1. Cut(q, n) = SubSeq(q, 1, n)
    BY <1>3, CutPath
  <2>2. q # <<>> /\ n \in 0..Len(q)
    BY <1>1, <1>3
  <2>3. q[Len(q)] = Slash /\ Dir(q) = SubSeq(q, 1, Len(q) - 1)
    BY <1>1, <1>3, <2>2, DirPath
  <2>4. Len(q) - 1 \in 0..Len(q) /\ Len(Dir(q)) = Len(q) - 1
    <3>1. Len(q) - 1 \in 0..Len(q)
      BY <1>1, <1>3
    <3> QED BY <2>3, <3>1, Prefix
  <2>5. n = Len(q) - 1
    BY <1>1, <1>3, <2>4
  <2>6. IsPath(SubSeq(q, 1, n)) /\ Len(SubSeq(q, 1, n)) = n
    BY <2>2, Prefix
  <2>7. n # 0
    BY <1>1, <2>1, <2>6 DEF IsPath
  <2>8. q[n] # Slash
    BY <1>1, <1>3, <2>3, <2>5, <2>7 DEF IsPath
  <2>9. SubSeq(q, 1, n)[n] # Slash
    BY <2>2, <2>7, <2>8, Prefix
  <2> QED BY <2>1, <2>3, <2>5, <2>6, <2>9, DirPath
<1> QED BY <1>1, <1>2, <1>3

LEMMA SizeStep ==
  ASSUME PathInv, SizeInv, [Next]_vars
  PROVE  SizeInv'
<1>1. ASSUME NEW q \in Paths, NEW n \in Sizes, Start(q, n) PROVE SizeInv'
  <2>1. phase' \in {"mkpath", "open", "exited"}
    BY <1>1 DEF Start, StartCapture, NextSlash
  <2> QED BY <1>1, <2>1 DEF Start, SizeInv
<1>2. CASE Mkdir /\ UNCHANGED <<captureVars, replayVars>>
  <2>1. phase = "mkpath" /\ phase' \in {"mkpath", "open"} /\ outpath' = outpath
    BY <1>2 DEF Mkdir, NextSlash
  <2> QED BY <1>2, <2>1 DEF SizeInv, captureVars
<1>3. CASE OpenNprocs
  <2>1. CASE phase' = "write"
    <3>1. Exists(outpath) /\ nprocs' = Put(nprocs, Dir(outpath), 0) /\ saved' = "empty"
      BY <1>3, <2>1 DEF OpenNprocs
    <3>2. DOMAIN nprocs' = DOMAIN nprocs \cup {Dir(outpath)}
      BY <3>1 DEF Put
    <3>3. Len(Dir(outpath)) <= CapLen
      <4>1. IsPath(outpath) /\ Len(outpath) <= CapLen /\ CapLen \in Nat
            /\ Len(outpath) \in Nat
        BY OutpathPath, CutPath, PathAssumption
           DEF PathInv, PathType, PathAssumption
      <4>2. CASE outpath[Len(outpath)] = Slash
        <5>1. outpath # <<>> /\ Len(outpath) - 1 \in 0..Len(outpath)
          BY <3>1, <4>1 DEF Exists, IsPath
        <5>2. Len(Dir(outpath)) = Len(outpath) - 1
          BY <4>1, <4>2, <5>1, DirPath, Prefix
        <5> QED BY <4>1, <5>2
      <4>3. CASE outpath[Len(outpath)] # Slash
        BY <3>1, <4>1, <4>3, DirPath DEF Exists
      <4> QED BY <4>2, <4>3
    <3> QED BY <1>3, <2>1, <3>1, <3>2, <3>3 DEF SizeInv, OpenNprocs, Exists
  <2>2. CASE phase' = "exited"
    BY <1>3, <2>2 DEF SizeInv, OpenNprocs
  <2> QED BY <1>3, <2>1, <2>2 DEF OpenNprocs
<1>4. CASE WriteNprocs
  BY <1>4 DEF SizeInv, WriteNprocs
<1>5. CASE /\ UNCHANGED <<outpath, nprocs, saved, size>>
           /\ phase' \notin {"mkpath", "open", "write"} \/ UNCHANGED phase
  BY <1>5 DEF SizeInv
<1>6. CASE \/ Stop \/ StartReplay \/ ReplayCall
           \/ \E c \in Calls : Call(c) \/ TornCall(c)
           \/ \E d \in Others : OtherMkdir(d) /\ UNCHANGED <<captureVars, replayVars>>
           \/ UNCHANGED vars
  BY <1>5, <1>6 DEF Stop, StartReplay, ReplayCall, Call, TornCall, OtherMkdir,
                    vars, pathVars, captureVars
<1> QED BY <1>1, <1>2, <1>3, <1>4, <1>6 DEF Next

LEMMA ReplayStep ==
  ASSUME PathInv, SizeInv, ReplayInv, [Next]_vars
  PROVE  ReplayInv'
<1>1. CASE StartReplay
  <2>1. CASE phase' = "replay"
    BY <1>1, <2>1 DEF StartReplay, ReplayInv, ReplayOpens, captureVars
  <2>2. CASE /\ phase' = "replay_exited"
             /\ path = <<>> \/ Dir(path) \notin DOMAIN nprocs
    <3>1. IsPath(path) /\ outpath = Cut(path, CapLen) /\ CapLen \in Nat
          /\ Len(path) \in Nat
      BY PathAssumption DEF PathInv, PathType, IsPath, PathAssumption
    <3>2. CASE Len(path) <= CapLen
      <4>1. outpath = path
        BY <3>1, <3>2, CutPath
      <4> QED BY <1>1, <2>2, <4>1
              DEF StartReplay, SizeInv, ReplayInv, ReplayOpens, captureVars
    <3>3. CASE Len(path) > CapLen
      BY <1>1, <2>2, <3>3 DEF StartReplay, ReplayInv, ReplayOpens
    <3> QED BY <3>1, <3>2, <3>3
  <2> QED BY <1>1, <2>1, <2>2 DEF StartReplay
<1>2. CASE ReplayCall \/ UNCHANGED vars
  BY <1>2 DEF ReplayCall, vars, pathVars, captureVars, replayVars, ReplayInv,
              ReplayOpens
<1>3. CASE phase' \notin {"replay", "replay_exited"}
  BY <1>3 DEF ReplayInv, ReplayOpens
<1>4. ASSUME NEW q \in Paths, NEW n \in Sizes, Start(q, n)
      PROVE  phase' \notin {"replay", "replay_exited"}
  BY <1>4 DEF Start, StartCapture, NextSlash
<1>5. CASE Mkdir
  BY <1>3, <1>5 DEF Mkdir, NextSlash
<1>6. CASE \/ OpenNprocs \/ WriteNprocs \/ Stop
           \/ \E c \in Calls : Call(c) \/ TornCall(c)
           \/ \E d \in Others : OtherMkdir(d)
  BY <1>3, <1>6 DEF OpenNprocs, WriteNprocs, Stop, Call, TornCall, Calling,
                    OtherMkdir, pathVars
<1> QED BY <1>1, <1>2, <1>3, <1>4, <1>5, <1>6 DEF Next

DirectoryInv == PathInv /\ SizeInv /\ ReplayInv

LEMMA DirectoryInvariant == Spec => []DirectoryInv
<1>1. Init => DirectoryInv
  <2> SUFFICES ASSUME Init PROVE DirectoryInv
    OBVIOUS
  <2>1. IsPath(<<>>) /\ CapLen \in Nat
    BY PathAssumption DEF IsPath, PathAssumption
  <2>2. Cut(<<>>, CapLen) = <<>>
    BY <2>1, CutPath
  <2>3. PathInv
    BY <2>1, <2>2
       DEF Init, PathInit, PathInv, PathType, Made, Opening, SlashedPathsOpen
  <2>4. SizeInv /\ ReplayInv
    BY DEF Init, PathInit, SizeInv, ReplayInv, ReplayOpens
  <2> QED BY <2>3, <2>4 DEF DirectoryInv
<1>2. DirectoryInv /\ [Next]_vars => DirectoryInv'
  BY PathStep, SizeStep, ReplayStep DEF DirectoryInv
<1> QED BY <1>1, <1>2, PTL DEF Spec

(* A path that ends with a slash leads to an open log directory, whatever  *)
(* other processes create while mkpath is at work: only a directory in     *)
(* which nothing may be created can stop the capture.                      *)
THEOREM SlashedOpen == Spec => []SlashedPathsOpen
<1>1. DirectoryInv => SlashedPathsOpen
  BY DEF DirectoryInv, PathInv
<1> QED BY <1>1, DirectoryInvariant, PTL

(* The size of MPI_COMM_WORLD that the replay answers is the one of the    *)
(* capture, whatever was captured in the same directory before and however *)
(* the path was cut, once the capture has written it.                      *)
THEOREM SizeIsRestored == Spec => []SizeRestored
<1>1. DirectoryInv => SizeRestored
  <2> SUFFICES ASSUME DirectoryInv, phase = "replay", saved = "size"
               PROVE  MPIre_size = size
    BY DEF SizeRestored
  <2>1. /\ IsPath(path) /\ outpath = Cut(path, CapLen) /\ CapLen \in Nat
        /\ outpath # <<>> /\ Len(Dir(path)) <= CapLen
    BY PathAssumption
       DEF DirectoryInv, PathInv, PathType, SizeInv, ReplayInv, PathAssumption
  <2>2. Dir(path) = Dir(outpath)
    BY <2>1, SameDirectory
  <2> QED BY <2>2 DEF DirectoryInv, SizeInv, ReplayInv
<1> QED BY <1>1, DirectoryInvariant, PTL

(* The replay finds the directory in which the capture opened its log, if  *)
(* the path was not cut.                                                   *)
THEOREM ReplayFindsLog == Spec => []ReplayOpens
<1>1. DirectoryInv => ReplayOpens
  BY DEF DirectoryInv, ReplayInv
<1> QED BY <1>1, DirectoryInvariant, PTL
=============================================================================
