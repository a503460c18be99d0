-------------------------- MODULE ModelFetch_proofs --------------------------
(***************************************************************************)
(* What is proved of ModelFetch, for every folder, every number of         *)
(* fetches and readers, and every length of model.                         *)
(***************************************************************************)
EXTENDS ModelFetch, TLAPS

-------------------------------------------------------------------------------
(* Lengths, prefixes and writes.                                             *)

LEMMA PrefixSeq ==
    ASSUME NEW f \in Files, NEW v \in Versions, NEW n \in 0..Size
    PROVE  /\ Prefix(f, v, n) \in Seq(Byte)
           /\ Len(Prefix(f, v, n)) = n
           /\ n > 0 => Prefix(f, v, n) # <<>>
  BY FetchAssumption DEF Prefix, Byte

LEMMA WriteAtType ==
    ASSUME NEW bytes \in Seq(Byte \cup {Unwritten}), NEW pos \in Nat,
           NEW b \in Byte
    PROVE  WriteAt(bytes, pos, b) \in Seq(Byte \cup {Unwritten})
  <1> DEFINE n == IF pos >= Len(bytes) THEN pos + 1 ELSE Len(bytes)
  <1>1. n \in Nat
    OBVIOUS
  <1>2. WriteAt(bytes, pos, b) \in [1..n -> Byte \cup {Unwritten}]
    BY DEF WriteAt
  <1> QED
    BY <1>1, <1>2

LEMMA WriteAtExtends ==
    ASSUME NEW f \in Files, NEW v \in Versions, NEW n \in 0..Size-1
    PROVE  WriteAt(Prefix(f, v, n), n, <<f, v, n + 1>>) = Prefix(f, v, n + 1)
  <1>1. Len(Prefix(f, v, n)) = n
    BY PrefixSeq, FetchAssumption
  <1> QED
    BY <1>1, FetchAssumption DEF WriteAt, Prefix

LEMMA PercentRange ==
    ASSUME NEW d \in 0..Size, NEW t \in {-1, Size}
    PROVE  Percent(d, t) \in 0..100
  <1>1. Size \in Nat /\ Size > 0
    BY FetchAssumption
  <1>2. CASE t = -1
    BY <1>2 DEF Percent
  <1>3. CASE t = Size
    <2>1. (d * 100) \div Size >= 0 /\ (d * 100) \div Size <= 100
      BY <1>1
    <2> QED
      BY <1>1, <1>3, <2>1 DEF Percent
  <1> QED
    BY <1>2, <1>3

-------------------------------------------------------------------------------
(* Type correctness, whatever the environment does: nothing is assumed about *)
(* the server, or about who fetches what.                                    *)

LEMMA InitType == Init => TypeOK
  BY FetchAssumption DEF Init, TypeOK, InodeOrNone

\* What is left of TypeOK to look at once a fetch has been left.
LEMMA LeaveType ==
    ASSUME TypeOK, NEW t \in Fetchers, Leave(t),
           part' \in [Files -> InodeOrNone],
           target' \in [Files -> InodeOrNone],
           UNCHANGED data
    PROVE  TypeOK'
  <1>1. /\ pc' \in [Fetchers -> {"idle", "started", "answered", "copying",
                                 "complete", "replacing", "again"}]
        /\ out' \in [Fetchers -> InodeOrNone]
        /\ resuming' \in [Fetchers -> BOOLEAN]
    BY DEF TypeOK, Leave, InodeOrNone
  <1>2. /\ have' \in [Fetchers -> 0..Size]
        /\ done' \in [Fetchers -> 0..Size]
        /\ total' \in [Fetchers -> {-1, Size}]
    BY FetchAssumption DEF TypeOK, Leave
  <1>3. sent' \in [Fetchers -> Versions]
    BY FetchAssumption DEF TypeOK, Leave
  <1>4. downloading' \in [Flows -> -1..100]
    BY FetchAssumption, -1 \in -1..100 DEF TypeOK, Leave, Hide
  <1> QED
    BY <1>1, <1>2, <1>3, <1>4 DEF TypeOK, Leave, reading

LEMMA AcceptedType ==
    ASSUME TypeOK, NEW t \in Fetchers, Accepted(t)
    PROVE  TypeOK'
  <1> DEFINE onDisk == Length(part[FileOf[t]])
  <1>1. onDisk \in Nat
    BY FetchAssumption DEF TypeOK, Length, InodeOrNone
  <1>2. PICK partial \in BOOLEAN, known \in BOOLEAN :
          /\ partial => onDisk > 0 /\ onDisk < Size
          /\ resuming' = [resuming EXCEPT ![t] = partial]
          /\ have' = [have EXCEPT ![t] = Kept(partial, onDisk)]
          /\ done' = [done EXCEPT ![t] = Kept(partial, onDisk)]
          /\ total' = [total EXCEPT ![t] =
                Announced(IF ~known THEN -1
                          ELSE IF partial THEN Size - onDisk ELSE Size,
                          Kept(partial, onDisk))]
    BY DEF Accepted
  <1>3. Kept(partial, onDisk) \in 0..Size
    BY <1>1, <1>2, FetchAssumption DEF Kept
  <1>4. Announced(IF ~known THEN -1
                  ELSE IF partial THEN Size - onDisk ELSE Size,
                  Kept(partial, onDisk)) \in {-1, Size}
    BY <1>1, <1>2, FetchAssumption DEF Kept, Announced
  <1> HIDE DEF onDisk
  <1>5. /\ resuming' \in [Fetchers -> BOOLEAN]
        /\ have' \in [Fetchers -> 0..Size]
        /\ done' \in [Fetchers -> 0..Size]
        /\ total' \in [Fetchers -> {-1, Size}]
    BY <1>2, <1>3, <1>4 DEF TypeOK
  <1>6. /\ pc' = [pc EXCEPT ![t] = "answered"]
        /\ sent' = [sent EXCEPT ![t] = published[FileOf[t]]]
        /\ UNCHANGED <<part, target, data, published, out, downloading, path, handle>>
    BY DEF Accepted, names, reading
  <1> QED
    BY <1>5, <1>6, FetchAssumption DEF TypeOK, InodeOrNone

LEMMA OpenPartType ==
    ASSUME TypeOK, NEW t \in Fetchers, OpenPart(t)
    PROVE  TypeOK'
  <1>1. /\ part' \in [Files -> InodeOrNone]
        /\ out' \in [Fetchers -> InodeOrNone]
    BY FetchAssumption, ZenonT(40) DEF TypeOK, OpenPart, InodeOrNone
  <1>2. data' \in [Inodes -> Seq(Byte \cup {Unwritten})]
    <2>1. /\ <<>> \in Seq(Byte \cup {Unwritten})
          /\ part[FileOf[t]] \in InodeOrNone
          /\ data \in [Inodes -> Seq(Byte \cup {Unwritten})]
      BY FetchAssumption DEF TypeOK
    <2>2. CASE part[FileOf[t]] = NoInode
      BY <2>1, <2>2 DEF OpenPart
    <2>3. CASE part[FileOf[t]] # NoInode
      <3>1. data' = [data EXCEPT ![part[FileOf[t]]] = Opened(@, resuming[t])]
        BY <2>3 DEF OpenPart
      <3>2. Opened(data[part[FileOf[t]]], resuming[t]) \in Seq(Byte \cup {Unwritten})
        BY <2>1, <2>3 DEF Opened, InodeOrNone
      <3> QED
        BY <2>1, <3>1, <3>2
    <2> QED
      BY <2>2, <2>3
  <1>3. pc' \in [Fetchers -> {"idle", "started", "answered", "copying",
                              "complete", "replacing", "again"}]
    BY DEF TypeOK, OpenPart
  <1>4. UNCHANGED <<target, published, have, total, done, resuming, sent,
                    downloading, path, handle>>
    BY DEF OpenPart, request, reading
  <1> QED
    BY <1>1, <1>2, <1>3, <1>4 DEF TypeOK

LEMMA CopyType ==
    ASSUME TypeOK, NEW t \in Fetchers, Copy(t)
    PROVE  TypeOK'
  <1> DEFINE f   == FileOf[t]
             pos == IF resuming[t] THEN Len(data[out[t]]) ELSE done[t]
             b   == <<f, sent[t], done[t] + 1>>
             pct == Percent(done[t] + 1, total[t])
  <1>1. /\ done[t] \in 0..Size /\ done[t] < Size
        /\ data' = [data EXCEPT ![out[t]] = WriteAt(@, pos, b)]
        /\ done' = [done EXCEPT ![t] = @ + 1]
        /\ \/ UNCHANGED downloading
           \/ downloading' = [downloading EXCEPT ![FlowOf[f]] = pct]
    BY DEF Copy, TypeOK
  <1>2. done' \in [Fetchers -> 0..Size]
    <2>1. done \in [Fetchers -> 0..Size] /\ done[t] + 1 \in 0..Size
      BY <1>1, FetchAssumption DEF TypeOK
    <2> QED
      BY <1>1, <2>1
  <1>3. downloading' \in [Flows -> -1..100]
    <2>1. done[t] + 1 \in 0..Size /\ total[t] \in {-1, Size}
      BY <1>1, FetchAssumption DEF TypeOK
    <2>2. pct \in 0..100
      BY <2>1, PercentRange
    <2>3. downloading \in [Flows -> -1..100] /\ 0..100 \subseteq -1..100
      BY DEF TypeOK
    <2> QED
      BY <1>1, <2>2, <2>3
  <1>4. data' \in [Inodes -> Seq(Byte \cup {Unwritten})]
    <2> SUFFICES ASSUME NEW i \in Inodes
                 PROVE  data'[i] \in Seq(Byte \cup {Unwritten})
      BY <1>1 DEF TypeOK
    <2>1. CASE i # out[t]
      BY <1>1, <2>1 DEF TypeOK
    <2>2. CASE i = out[t]
      <3>1. data[i] \in Seq(Byte \cup {Unwritten})
        BY DEF TypeOK
      <3>2. pos \in Nat
        BY <3>1, <2>2, <1>1, FetchAssumption
      <3>3. b \in Byte
        <4>1. f \in Files /\ sent[t] \in Versions
          BY FetchAssumption DEF TypeOK
        <4>2. done[t] + 1 \in 1..Size
          BY <1>1, FetchAssumption
        <4> QED
          BY <4>1, <4>2 DEF Byte
      <3>4. WriteAt(data[i], pos, b) \in Seq(Byte \cup {Unwritten})
        BY <3>1, <3>2, <3>3, WriteAtType
      <3>5. data'[i] = data[i] \/ data'[i] = WriteAt(data[i], pos, b)
        BY <1>1, <2>2
      <3> QED
        BY <3>1, <3>4, <3>5
    <2> QED
      BY <2>1, <2>2
  <1> HIDE DEF pos, b, pct, f
  <1>5. UNCHANGED <<part, target, published, pc, have, total, resuming, out,
                    sent, path, handle>>
    BY DEF Copy, names, reading
  <1> QED
    BY <1>2, <1>3, <1>4, <1>5 DEF TypeOK

LEMMA FetchStepType ==
    ASSUME TypeOK, NEW t \in Fetchers, FetchStep(t)
    PROVE  TypeOK'
  <1>1. CASE Refused(t) \/ Cancelled(t) \/ Broken(t)
    BY <1>1, LeaveType DEF Refused, Cancelled, Broken, names, TypeOK
  <1>2. CASE StreamEnds(t)
    <2>1. CASE CutShort(t)
      BY <1>2, <2>1, LeaveType DEF StreamEnds, names, TypeOK
    <2>2. CASE ~CutShort(t)
      BY <1>2, <2>2 DEF StreamEnds, names, request, reading, TypeOK, InodeOrNone
    <2> QED
      BY <2>1, <2>2
  <1>3. CASE Rename(t)
    <2>1. CASE MovePart(FileOf[t]) /\ Leave(t)
      BY <1>3, <2>1, LeaveType, FetchAssumption DEF Rename, MovePart, TypeOK, InodeOrNone
    <2>2. CASE UNCHANGED <<names, published, request, out, downloading, reading>>
      <3>1. pc' = [pc EXCEPT ![t] = "replacing"] \/ Leave(t)
        BY <1>3 DEF Rename
      <3> QED
        BY <1>3, <2>2, <3>1 DEF Rename, Leave, names, request, reading, TypeOK
    <2> QED
      BY <1>3, <2>1, <2>2 DEF Rename
  <1>4. CASE DeleteTarget(t)
    BY <1>4, FetchAssumption DEF DeleteTarget, request, reading, TypeOK, InodeOrNone
  <1>5. CASE RenameAgain(t)
    <2>1. /\ part' \in [Files -> InodeOrNone]
          /\ target' \in [Files -> InodeOrNone]
      BY <1>5, FetchAssumption DEF RenameAgain, MovePart, names, TypeOK, InodeOrNone
    <2> QED
      BY <1>5, <2>1, LeaveType DEF RenameAgain
  <1> QED
    BY <1>1, <1>2, <1>3, <1>4, <1>5, AcceptedType, OpenPartType, CopyType DEF FetchStep

LEMMA NextType == TypeOK /\ [Next]_vars => TypeOK'
  <1> SUFFICES ASSUME TypeOK, [Next]_vars PROVE TypeOK'
    OBVIOUS
  <1>1. ASSUME NEW t \in Fetchers, Begin(t) PROVE TypeOK'
    <2>1. pc' \in [Fetchers -> {"idle", "started", "answered", "copying",
                                "complete", "replacing", "again"}]
      BY <1>1 DEF Begin, TypeOK
    <2>2. downloading' \in [Flows -> -1..100]
      BY <1>1, FetchAssumption, 0 \in -1..100 DEF Begin, TypeOK
    <2> QED
      BY <1>1, <2>1, <2>2 DEF Begin, names, request, reading, TypeOK
  <1>2. ASSUME NEW t \in Fetchers, FetchStep(t) PROVE TypeOK'
    BY <1>2, FetchStepType
  <1>3. ASSUME NEW r \in Readers, NEW f \in Files, OpenOwn(r, f) \/ OpenShared(r, f)
        PROVE  TypeOK'
    BY <1>3 DEF OpenOwn, OpenShared, names, request, TypeOK, InodeOrNone
  <1>4. ASSUME NEW r \in Readers, Load(r) \/ Close(r) PROVE TypeOK'
    <2>1. /\ path' \in [Readers -> Files \cup {NoFile}]
          /\ handle' \in [Readers -> InodeOrNone]
      BY <1>4, FetchAssumption, ZenonT(40) DEF Load, Close, TypeOK, InodeOrNone
    <2> QED
      BY <1>4, <2>1 DEF Load, Close, names, request, TypeOK
  <1>5. ASSUME NEW f \in Files, Remove(f) \/ Republish(f) PROVE TypeOK'
    BY <1>5, ZenonT(40) DEF Remove, Republish, names, request, reading, TypeOK, InodeOrNone
  <1>6. CASE Crash
    BY <1>6, FetchAssumption DEF Crash, names, TypeOK, InodeOrNone
  <1>7. CASE UNCHANGED vars
    BY <1>7 DEF vars, TypeOK
  <1> QED
    BY <1>1, <1>2, <1>3, <1>4, <1>5, <1>6, <1>7 DEF Next

\* Every variable of the folder and of the fetches stays in its range: among
\* them the figure in -1..100, and a fetch never counts more bytes than there
\* are (Download.fetch).
THEOREM TypeCorrect == Spec => []TypeOK
  BY InitType, NextType, PTL DEF Spec

-------------------------------------------------------------------------------
(* The invariant of a folder used as WellUsed says: what stands in .part is  *)
(* the beginning of the model, each fetch knows how much of it there is, and *)
(* nothing else - a model, a reader - sits on the bytes being written.       *)

LEMMA InitInv == Init => FetchInv
  BY DEF Init, FetchInv, PartApart, PartFilled, FetchAgrees, TargetIsWhole

\* A fetch that took no step, with its .part as it was, agrees as it did.
LEMMA AgreesStill ==
    ASSUME NEW t \in Fetchers, FetchAgrees(t),
           part'[FileOf[t]] = part[FileOf[t]],
           part[FileOf[t]] # NoInode => data'[part[FileOf[t]]] = data[part[FileOf[t]]],
           pc'[t] = pc[t], have'[t] = have[t], total'[t] = total[t],
           done'[t] = done[t], resuming'[t] = resuming[t], out'[t] = out[t]
    PROVE  FetchAgrees(t)'
  BY DEF FetchAgrees, Filled

\* Steps that move no name and write no byte.
LEMMA FolderStill ==
    ASSUME FetchInv, UNCHANGED <<part, target, data>>,
           \A r \in Readers : \/ handle'[r] = handle[r]
                              \/ handle'[r] = NoInode
                              \/ \E f \in Files : handle'[r] = target[f]
    PROVE  PartApart' /\ PartFilled' /\ TargetIsWhole'
  <1>1. PartFilled' /\ TargetIsWhole'
    BY DEF FetchInv, PartFilled, Filled, TargetIsWhole
  <1>2. PartApart'
    <2> SUFFICES ASSUME NEW f \in Files, part[f] # NoInode
                 PROVE  /\ \A g \in Files : part[f] # target[g] /\ (g # f => part[f] # part[g])
                        /\ \A r \in Readers : part[f] # handle'[r]
      BY DEF PartApart
    <2> QED
      BY DEF FetchInv, PartApart
  <1> QED
    BY <1>1, <1>2

LEMMA LeaveInv ==
    ASSUME TypeOK, FetchInv, NEW t \in Fetchers, Leave(t), UNCHANGED <<names, data>>
    PROVE  FetchInv'
  <1>1. PartApart' /\ PartFilled' /\ TargetIsWhole'
    BY FolderStill DEF names, Leave, reading
  <1>2. ASSUME NEW u \in Fetchers PROVE FetchAgrees(u)'
    <2>1. CASE u = t
      BY <2>1 DEF TypeOK, Leave, FetchAgrees
    <2>2. CASE u # t
      BY <2>2, AgreesStill DEF FetchInv, TypeOK, Leave, names
    <2> QED
      BY <2>1, <2>2
  <1> QED
    BY <1>1, <1>2 DEF FetchInv, Leave, reading

LEMMA BeginInv ==
    ASSUME TypeOK, FetchInv, NEW t \in Fetchers, Begin(t)
    PROVE  FetchInv'
  <1>1. PartApart' /\ PartFilled' /\ TargetIsWhole'
    BY FolderStill DEF Begin, names, reading
  <1>2. ASSUME NEW u \in Fetchers PROVE FetchAgrees(u)'
    <2>1. CASE u = t
      BY <2>1 DEF TypeOK, Begin, FetchAgrees, FetchInv, request
    <2>2. CASE u # t
      BY <2>2, AgreesStill DEF FetchInv, TypeOK, Begin, names, request
    <2> QED
      BY <2>1, <2>2
  <1> QED
    BY <1>1, <1>2 DEF FetchInv, Begin, reading

LEMMA FilledLength ==
    ASSUME TypeOK, NEW f \in Files, part[f] # NoInode,
           NEW n \in 0..Size, Filled(f, n)
    PROVE  Length(part[f]) = n
  BY PrefixSeq DEF Filled, Length

LEMMA AcceptedInv ==
    ASSUME TypeOK, FetchInv, ~MayOmitLength, NEW t \in Fetchers, Accepted(t)
    PROVE  FetchInv'
  <1> DEFINE f      == FileOf[t]
             onDisk == Length(part[f])
  <1>1. PartApart' /\ PartFilled' /\ TargetIsWhole'
    BY FolderStill DEF Accepted, names, reading
  <1>2. ASSUME NEW u \in Fetchers PROVE FetchAgrees(u)'
    <2>1. CASE u = t
      <3>1. PICK partial \in BOOLEAN, known \in BOOLEAN :
              /\ partial => onDisk > 0 /\ onDisk < Size
              /\ ~partial => onDisk = 0 \/ MayIgnoreRange
              /\ ~known => MayOmitLength
              /\ resuming' = [resuming EXCEPT ![t] = partial]
              /\ have' = [have EXCEPT ![t] = Kept(partial, onDisk)]
              /\ done' = [done EXCEPT ![t] = Kept(partial, onDisk)]
              /\ total' = [total EXCEPT ![t] =
                    Announced(IF ~known THEN -1
                              ELSE IF partial THEN Size - onDisk ELSE Size,
                              Kept(partial, onDisk))]
        BY DEF Accepted
      <3>a. /\ resuming'[t] = partial
            /\ have'[t] = Kept(partial, onDisk)
            /\ done'[t] = Kept(partial, onDisk)
            /\ total'[t] = Announced(IF partial THEN Size - onDisk ELSE Size,
                                     Kept(partial, onDisk))
        BY <3>1 DEF TypeOK
      <3>2. /\ pc'[t] = "answered"
            /\ UNCHANGED <<part, data, out>>
            /\ pc[t] = "started"
        BY DEF Accepted, TypeOK, names
      <3>3. part[f] # NoInode => onDisk \in 0..Size /\ Filled(f, onDisk)
        <4> SUFFICES ASSUME part[f] # NoInode PROVE onDisk \in 0..Size /\ Filled(f, onDisk)
          OBVIOUS
        <4>1. PICK n \in 0..Size : Filled(f, n)
          BY FetchAssumption DEF FetchInv, PartFilled
        <4>2. onDisk = n
          BY <4>1, FilledLength, FetchAssumption
        <4> QED
          BY <4>1, <4>2
      <3>4. part[f] = NoInode => onDisk = 0
        BY DEF Length
      <3>5. total'[t] = Size
        BY <3>1, <3>a, <3>3, <3>4, FetchAssumption DEF Kept, Announced
      <3>6. \A n \in 0..Size : Filled(f, n)' <=> Filled(f, n)
        BY <3>2 DEF Filled
      <3> HIDE DEF onDisk
      <3>7. /\ done'[t] = have'[t]
            /\ resuming'[t] => part'[f] # NoInode /\ Filled(f, have[t])'
            /\ ~resuming'[t] => have'[t] = 0
            /\ ~resuming'[t] /\ ~MayIgnoreRange => part'[f] = NoInode \/ Filled(f, 0)'
        <4>1. Filled(f, have[t])' <=> \E v \in Versions : data[part[f]] = Prefix(f, v, have'[t])
          BY <3>2 DEF Filled
        <4>2. Filled(f, 0)' <=> Filled(f, 0)
          BY <3>2 DEF Filled
        <4>3. CASE partial
          <5>1. onDisk > 0 /\ have'[t] = onDisk
            BY <3>1, <3>a, <4>3 DEF Kept
          <5>2. part[f] # NoInode /\ Filled(f, onDisk)
            BY <5>1, <3>3, <3>4
          <5> QED
            BY <4>1, <4>3, <5>1, <5>2, <3>2, <3>a DEF Filled
        <4>4. CASE ~partial
          BY <4>2, <4>4, <3>1, <3>a, <3>2, <3>3, <3>4 DEF Kept
        <4> QED
          BY <4>3, <4>4
      <3>8. out'[t] = NoInode
        BY <3>2 DEF FetchInv, FetchAgrees
      <3> QED
        BY <2>1, <3>2, <3>5, <3>7, <3>8 DEF FetchAgrees
    <2>2. CASE u # t
      BY <2>2, AgreesStill DEF FetchInv, TypeOK, Accepted, names
    <2> QED
      BY <2>1, <2>2
  <1> QED
    BY <1>1, <1>2 DEF FetchInv, Accepted, reading

\* The inode written to from here on, what is in it, and that nobody else
\* has it.
LEMMA OpenPartWrites ==
    ASSUME TypeOK, FetchInv, NEW t \in Fetchers, OpenPart(t)
    PROVE  \E i \in Inodes :
             /\ part' = [part EXCEPT ![FileOf[t]] = i]
             /\ out' = [out EXCEPT ![t] = i]
             /\ \A j \in Inodes : j # i => data'[j] = data[j]
             /\ IF part[FileOf[t]] = NoInode THEN Free(i) ELSE i = part[FileOf[t]]
             /\ data'[i] = IF part[FileOf[t]] = NoInode THEN <<>> ELSE Opened(data[i], resuming[t])
             /\ \A g \in Files : i # target[g] /\ (g # FileOf[t] => i # part[g])
             /\ \A r \in Readers : i # handle[r]
  <1> DEFINE f == FileOf[t]
  <1>1. f \in Files
    BY FetchAssumption
  <1>2. CASE part[f] = NoInode
    BY <1>1, <1>2 DEF OpenPart, TypeOK, Free
  <1>3. CASE part[f] # NoInode
    <2>1. part[f] \in Inodes
      BY <1>1, <1>3 DEF TypeOK, InodeOrNone
    <2>2. /\ part' = [part EXCEPT ![f] = part[f]]
          /\ out' = [out EXCEPT ![t] = part[f]]
          /\ data' = [data EXCEPT ![part[f]] = Opened(@, resuming[t])]
      BY <1>3 DEF OpenPart, TypeOK
    <2>3. /\ \A g \in Files : part[f] # target[g] /\ (g # f => part[f] # part[g])
          /\ \A r \in Readers : part[f] # handle[r]
      BY <1>1, <1>3 DEF FetchInv, PartApart
    <2>4. /\ \A j \in Inodes : j # part[f] => data'[j] = data[j]
          /\ data'[part[f]] = Opened(data[part[f]], resuming[t])
      BY <2>1, <2>2 DEF TypeOK
    <2> QED
      BY <1>3, <2>1, <2>2, <2>3, <2>4
  <1> QED
    BY <1>2, <1>3

LEMMA OpenPartInv ==
    ASSUME TypeOK, FetchInv, OneFetcherEach, NEW t \in Fetchers, OpenPart(t)
    PROVE  FetchInv'
  <1> DEFINE f == FileOf[t]
  <1>0. /\ f \in Files
        /\ pc[t] = "answered"
        /\ pc' = [pc EXCEPT ![t] = "copying"]
        /\ UNCHANGED <<target, have, total, done, resuming, path, handle>>
    BY FetchAssumption DEF OpenPart, request, reading
  <1>a. PICK i \in Inodes :
          /\ part' = [part EXCEPT ![f] = i]
          /\ out' = [out EXCEPT ![t] = i]
          /\ \A j \in Inodes : j # i => data'[j] = data[j]
          /\ IF part[f] = NoInode THEN Free(i) ELSE i = part[f]
          /\ data'[i] = IF part[f] = NoInode THEN <<>> ELSE Opened(data[i], resuming[t])
          /\ \A g \in Files : i # target[g] /\ (g # f => i # part[g])
          /\ \A r \in Readers : i # handle[r]
    BY OpenPartWrites
  <1>1. /\ part' = [part EXCEPT ![f] = i]
        /\ out' = [out EXCEPT ![t] = i]
        /\ \A j \in Inodes : j # i => data'[j] = data[j]
        /\ IF part[f] = NoInode THEN Free(i) ELSE i = part[f]
        /\ data'[i] = IF part[f] = NoInode THEN <<>> ELSE Opened(data[i], resuming[t])
    BY <1>a
  <1>2. i # NoInode
    BY FetchAssumption
  <1>3. /\ \A g \in Files : i # target[g] /\ (g # f => i # part[g])
        /\ \A r \in Readers : i # handle[r]
    BY <1>a
  <1>4. PartApart'
    BY <1>0, <1>1, <1>2, <1>3 DEF FetchInv, PartApart, TypeOK
  <1>5. /\ done[t] \in 0..Size
        /\ done'[t] = done[t]
        /\ \E v \in Versions : data'[part'[f]] = Prefix(f, v, done[t])
    <2>0. done' = done
      BY <1>0
    <2>1. part'[f] = i
      BY <1>0, <1>1 DEF TypeOK
    <2>2. done[t] \in 0..Size /\ done[t] = have[t] /\ Versions # {}
      BY <1>0 DEF FetchInv, FetchAgrees, TypeOK
    <2>3. CASE resuming[t]
      <3>1. part[f] # NoInode /\ Filled(f, done[t])
        BY <1>0, <2>2, <2>3 DEF FetchInv, FetchAgrees
      <3>2. i = part[f]
        BY <1>1, <3>1
      <3>3. data'[i] = data[i]
        BY <1>1, <2>3, <3>1 DEF Opened
      <3> QED
        BY <2>0, <2>1, <2>2, <3>1, <3>2, <3>3 DEF Filled
    <2>4. CASE ~resuming[t]
      <3>1. done[t] = 0
        BY <1>0, <2>2, <2>4 DEF FetchInv, FetchAgrees
      <3>2. data'[i] = <<>>
        BY <1>1, <2>4 DEF Opened
      <3>3. \A v \in Versions : Prefix(f, v, 0) = <<>>
        BY DEF Prefix
      <3> QED
        BY <2>0, <2>1, <2>2, <3>1, <3>2, <3>3 DEF Filled
    <2> QED
      BY <2>3, <2>4 DEF TypeOK
  <1>6. PartFilled'
    <2> SUFFICES ASSUME NEW g \in Files, part'[g] # NoInode
                 PROVE  \E n \in 0..Size : Filled(g, n)'
      BY DEF PartFilled
    <2>1. CASE g = f
      BY <2>1, <1>5 DEF Filled
    <2>2. CASE g # f
      <3>1. part'[g] = part[g] /\ data'[part[g]] = data[part[g]]
        BY <2>2, <1>0, <1>1, <1>3 DEF TypeOK, InodeOrNone
      <3> QED
        BY <2>2, <3>1 DEF FetchInv, PartFilled, Filled
    <2> QED
      BY <2>1, <2>2
  <1>7. TargetIsWhole'
    BY <1>0, <1>1, <1>3 DEF FetchInv, TargetIsWhole, TypeOK, InodeOrNone
  <1>8. ASSUME NEW u \in Fetchers PROVE FetchAgrees(u)'
    <2>1. CASE u = t
      <3>1. pc'[t] = "copying" /\ out'[t] = part'[f] /\ part'[f] # NoInode
        BY <1>0, <1>1, <1>2 DEF TypeOK
      <3>2. total'[t] = Size
        BY <1>0 DEF FetchInv, FetchAgrees
      <3> QED
        BY <2>1, <3>1, <3>2, <1>5 DEF FetchAgrees, Filled
    <2>2. CASE u # t
      <3>1. FileOf[u] \in Files /\ FileOf[u] # f
        BY <2>2, FetchAssumption DEF OneFetcherEach
      <3>2. /\ part'[FileOf[u]] = part[FileOf[u]]
            /\ part[FileOf[u]] # NoInode => data'[part[FileOf[u]]] = data[part[FileOf[u]]]
        BY <3>1, <1>0, <1>1, <1>3 DEF TypeOK, InodeOrNone
      <3>3. pc'[u] = pc[u] /\ out'[u] = out[u]
        BY <2>2, <1>0, <1>1 DEF TypeOK
      <3> QED
        BY <1>0, <3>2, <3>3, AgreesStill DEF FetchInv
    <2> QED
      BY <2>1, <2>2
  <1> QED
    BY <1>0, <1>4, <1>6, <1>7, <1>8 DEF FetchInv

\* The byte written is the next one, at the end of .part.
LEMMA CopyWrites ==
    ASSUME TypeOK, FetchInv, OneVersion, NEW t \in Fetchers, Copy(t)
    PROVE  /\ part[FileOf[t]] \in Inodes
           /\ out[t] = part[FileOf[t]]
           /\ done[t] \in 0..Size-1
           /\ done' = [done EXCEPT ![t] = @ + 1]
           /\ \A i \in Inodes : i # part[FileOf[t]] => data'[i] = data[i]
           /\ \E v \in Versions :
                /\ data[part[FileOf[t]]] = Prefix(FileOf[t], v, done[t])
                /\ data'[part[FileOf[t]]] = Prefix(FileOf[t], v, done[t] + 1)
  <1> DEFINE f   == FileOf[t]
             i   == part[f]
             pos == IF resuming[t] THEN Len(data[out[t]]) ELSE done[t]
  <1>1. f \in Files /\ sent[t] \in Versions /\ done[t] \in 0..Size-1
    <2>1. done[t] < Size
      BY DEF Copy
    <2>2. f \in Files /\ sent[t] \in Versions /\ done[t] \in 0..Size
      BY FetchAssumption DEF TypeOK
    <2> QED
      BY <2>1, <2>2, FetchAssumption
  <1>2. i \in Inodes /\ out[t] = i /\ Filled(f, done[t])
    <2>1. pc[t] = "copying" /\ FetchAgrees(t)
      BY DEF Copy, FetchInv
    <2>2. i \in Inodes \cup {NoInode}
      BY <1>1 DEF TypeOK, InodeOrNone
    <2> QED
      BY <2>1, <2>2 DEF FetchAgrees
  <1>3. PICK v \in Versions : data[i] = Prefix(f, v, done[t])
    BY <1>2 DEF Filled
  <1>4. v = sent[t]
    BY <1>1 DEF OneVersion
  <1>5. pos = done[t]
    <2>1. done[t] \in 0..Size
      BY <1>1, FetchAssumption
    <2> QED
      BY <1>1, <1>2, <1>3, <2>1, PrefixSeq
  <1>6. /\ data' = [data EXCEPT ![i] = WriteAt(@, pos, <<f, sent[t], done[t] + 1>>)]
        /\ done' = [done EXCEPT ![t] = @ + 1]
    <2>1. /\ data' = [data EXCEPT ![out[t]] = WriteAt(@, pos, <<f, sent[t], done[t] + 1>>)]
          /\ done' = [done EXCEPT ![t] = @ + 1]
      BY DEF Copy
    <2> HIDE DEF pos
    <2> QED
      BY <2>1, <1>2
  <1>7. data'[i] = WriteAt(data[i], done[t], <<f, v, done[t] + 1>>)
    BY <1>2, <1>4, <1>5, <1>6 DEF TypeOK
  <1>8. data'[i] = Prefix(f, v, done[t] + 1)
    BY <1>1, <1>3, <1>7, WriteAtExtends
  <1>9. \A j \in Inodes : j # i => data'[j] = data[j]
    BY <1>6 DEF TypeOK
  <1> QED
    BY <1>1, <1>2, <1>3, <1>6, <1>8, <1>9

LEMMA CopyInv ==
    ASSUME TypeOK, FetchInv, OneFetcherEach, OneVersion, NEW t \in Fetchers, Copy(t)
    PROVE  FetchInv'
  <1> DEFINE f == FileOf[t]
             i == part[f]
  <1>0. /\ f \in Files
        /\ i \in Inodes /\ i # NoInode
        /\ pc[t] = "copying"
        /\ UNCHANGED <<part, target, pc, have, total, resuming, out, path, handle>>
    BY CopyWrites, FetchAssumption DEF Copy, names, reading
  <1>1. /\ done[t] \in 0..Size-1
        /\ done' = [done EXCEPT ![t] = @ + 1]
        /\ \A j \in Inodes : j # i => data'[j] = data[j]
    BY CopyWrites
  <1>2. PICK v \in Versions : data'[i] = Prefix(f, v, done[t] + 1)
    BY CopyWrites
  <1>3. /\ \A g \in Files : i # target[g] /\ (g # f => i # part[g])
        /\ \A r \in Readers : i # handle[r]
    BY <1>0 DEF FetchInv, PartApart
  <1>4. PartApart'
    BY <1>0 DEF FetchInv, PartApart
  <1>5. PartFilled'
    <2> SUFFICES ASSUME NEW g \in Files, part[g] # NoInode
                 PROVE  \E n \in 0..Size : \E w \in Versions : data'[part[g]] = Prefix(g, w, n)
      BY <1>0 DEF PartFilled, Filled
    <2>1. CASE g = f
      <3>1. done[t] + 1 \in 0..Size
        BY <1>1, FetchAssumption
      <3> QED
        BY <2>1, <1>2, <3>1
    <2>2. CASE g # f
      <3>1. data'[part[g]] = data[part[g]]
        BY <2>2, <1>1, <1>3 DEF TypeOK, InodeOrNone
      <3> QED
        BY <3>1 DEF FetchInv, PartFilled, Filled
    <2> QED
      BY <2>1, <2>2
  <1>6. TargetIsWhole'
    BY <1>0, <1>1, <1>3 DEF FetchInv, TargetIsWhole, TypeOK, InodeOrNone
  <1>7. ASSUME NEW u \in Fetchers PROVE FetchAgrees(u)'
    <2>1. CASE u = t
      <3>1. done'[t] = done[t] + 1
        BY <1>1 DEF TypeOK
      <3>2. /\ pc'[t] = "copying" /\ out'[t] = part'[f] /\ part'[f] # NoInode
            /\ total'[t] = Size
        BY <1>0 DEF FetchInv, FetchAgrees
      <3>3. Filled(f, done[t])'
        BY <1>0, <1>2, <3>1 DEF Filled
      <3> QED
        BY <2>1, <3>2, <3>3 DEF FetchAgrees
    <2>2. CASE u # t
      <3>1. FileOf[u] \in Files /\ FileOf[u] # f
        BY <2>2, FetchAssumption DEF OneFetcherEach
      <3>2. part[FileOf[u]] # NoInode => data'[part[FileOf[u]]] = data[part[FileOf[u]]]
        BY <3>1, <1>1, <1>3 DEF TypeOK, InodeOrNone
      <3>3. done'[u] = done[u]
        BY <2>2, <1>1 DEF TypeOK
      <3> QED
        BY <1>0, <3>2, <3>3, AgreesStill DEF FetchInv
    <2> QED
      BY <2>1, <2>2
  <1> QED
    BY <1>0, <1>4, <1>5, <1>6, <1>7 DEF FetchInv

LEMMA StreamEndsInv ==
    ASSUME TypeOK, FetchInv, NEW t \in Fetchers, StreamEnds(t)
    PROVE  FetchInv'
  <1>1. CASE CutShort(t)
    BY <1>1, LeaveInv DEF StreamEnds
  <1>2. CASE ~CutShort(t)
    <2>1. /\ pc[t] = "copying"
          /\ pc' = [pc EXCEPT ![t] = "complete"]
          /\ out' = [out EXCEPT ![t] = NoInode]
          /\ UNCHANGED <<part, target, data, have, total, done, resuming, path, handle>>
      BY <1>2 DEF StreamEnds, names, request, reading
    <2>2. total[t] = Size /\ done[t] = Size /\ part[FileOf[t]] # NoInode /\ Filled(FileOf[t], Size)
      BY <1>2, <2>1, FetchAssumption DEF FetchInv, FetchAgrees, CutShort
    <2>3. PartApart' /\ PartFilled' /\ TargetIsWhole'
      BY <2>1, FolderStill
    <2>4. ASSUME NEW u \in Fetchers PROVE FetchAgrees(u)'
      <3>1. CASE u = t
        BY <3>1, <2>1, <2>2 DEF FetchAgrees, Filled, TypeOK
      <3>2. CASE u # t
        BY <3>2, <2>1, AgreesStill DEF FetchInv, TypeOK
      <3> QED
        BY <3>1, <3>2
    <2> QED
      BY <2>1, <2>3, <2>4 DEF FetchInv
  <1> QED
    BY <1>1, <1>2

\* What both renames do when they succeed.
LEMMA MoveInv ==
    ASSUME TypeOK, FetchInv, OneFetcherEach, NEW t \in Fetchers,
           pc[t] \in {"complete", "again"}, MovePart(FileOf[t]), Leave(t), UNCHANGED data
    PROVE  FetchInv'
  <1> DEFINE f == FileOf[t]
  <1>0. f \in Files /\ part[f] # NoInode /\ Filled(f, Size)
    BY FetchAssumption DEF FetchInv, FetchAgrees
  <1>1. /\ target' = [target EXCEPT ![f] = part[f]]
        /\ part' = [part EXCEPT ![f] = NoInode]
        /\ Leave(t)
        /\ UNCHANGED data
    BY DEF MovePart
  <1>2. UNCHANGED <<path, handle>>
    BY <1>1 DEF Leave, reading
  <1>3. PartApart'
    BY <1>0, <1>1, <1>2 DEF FetchInv, PartApart, TypeOK
  <1>4. PartFilled'
    BY <1>0, <1>1 DEF FetchInv, PartFilled, Filled, TypeOK
  <1>5. TargetIsWhole'
    <2> SUFFICES ASSUME NEW g \in Files, target'[g] # NoInode
                 PROVE  data[target'[g]] \in Wholes(g)
      BY <1>1 DEF TargetIsWhole
    <2>1. CASE g = f
      BY <2>1, <1>0, <1>1 DEF TypeOK, Filled, Wholes, Whole
    <2>2. CASE g # f
      BY <2>2, <1>1 DEF TypeOK, FetchInv, TargetIsWhole
    <2> QED
      BY <2>1, <2>2
  <1>6. ASSUME NEW u \in Fetchers PROVE FetchAgrees(u)'
    <2>1. CASE u = t
      BY <2>1, <1>1 DEF TypeOK, Leave, FetchAgrees
    <2>2. CASE u # t
      <3>1. FileOf[u] \in Files /\ FileOf[u] # f
        BY <2>2, FetchAssumption DEF OneFetcherEach
      <3>2. part'[FileOf[u]] = part[FileOf[u]]
        BY <3>1, <1>1 DEF TypeOK
      <3>3. /\ pc'[u] = pc[u] /\ have'[u] = have[u] /\ total'[u] = total[u]
            /\ done'[u] = done[u] /\ resuming'[u] = resuming[u] /\ out'[u] = out[u]
        BY <2>2, <1>1 DEF Leave, TypeOK
      <3> QED
        BY <3>2, <3>3, <1>1, AgreesStill DEF FetchInv
    <2> QED
      BY <2>1, <2>2
  <1> QED
    BY <1>2, <1>3, <1>4, <1>5, <1>6 DEF FetchInv

\* A first rename that fails leaves .part, and the whole model in it.
LEMMA RenameInv ==
    ASSUME TypeOK, FetchInv, OneFetcherEach, NEW t \in Fetchers, Rename(t)
    PROVE  FetchInv'
  <1>1. CASE MovePart(FileOf[t]) /\ Leave(t)
    BY <1>1, MoveInv DEF Rename
  <1>2. CASE ~(MovePart(FileOf[t]) /\ Leave(t))
    <2>1. /\ pc[t] = "complete" /\ pc' = [pc EXCEPT ![t] = "replacing"]
          /\ UNCHANGED <<part, target, data, have, total, done, resuming, out, path, handle>>
      BY <1>2 DEF Rename, names, request, reading
    <2>2. PartApart' /\ PartFilled' /\ TargetIsWhole'
      BY <2>1, FolderStill
    <2>3. ASSUME NEW u \in Fetchers PROVE FetchAgrees(u)'
      <3>1. CASE u = t
        BY <3>1, <2>1 DEF FetchInv, FetchAgrees, Filled, TypeOK
      <3>2. CASE u # t
        BY <3>2, <2>1, AgreesStill DEF FetchInv, TypeOK
      <3> QED
        BY <3>1, <3>2
    <2> QED
      BY <2>1, <2>2, <2>3 DEF FetchInv
  <1> QED
    BY <1>1, <1>2

LEMMA DeleteTargetInv ==
    ASSUME TypeOK, FetchInv, NEW t \in Fetchers, DeleteTarget(t)
    PROVE  FetchInv'
  <1>1. /\ pc[t] = "replacing" /\ pc' = [pc EXCEPT ![t] = "again"]
        /\ target' = [target EXCEPT ![FileOf[t]] = NoInode] \/ target' = target
        /\ UNCHANGED <<part, data, have, total, done, resuming, out, path, handle>>
    BY DEF DeleteTarget, request, reading
  <1>2. PartApart' /\ PartFilled' /\ TargetIsWhole'
    <2>1. \A g \in Files : target'[g] \in {target[g], NoInode}
      BY <1>1 DEF TypeOK
    <2>2. PartApart' /\ PartFilled'
      BY <1>1, <2>1 DEF FetchInv, PartApart, PartFilled, Filled
    <2>3. TargetIsWhole'
      BY <1>1, <2>1 DEF FetchInv, TargetIsWhole
    <2> QED
      BY <2>2, <2>3
  <1>3. ASSUME NEW u \in Fetchers PROVE FetchAgrees(u)'
    <2>1. CASE u = t
      BY <2>1, <1>1 DEF FetchInv, FetchAgrees, Filled, TypeOK
    <2>2. CASE u # t
      BY <2>2, <1>1, AgreesStill DEF FetchInv, TypeOK
    <2> QED
      BY <2>1, <2>2
  <1> QED
    BY <1>1, <1>2, <1>3 DEF FetchInv

LEMMA RenameAgainInv ==
    ASSUME TypeOK, FetchInv, OneFetcherEach, NEW t \in Fetchers, RenameAgain(t)
    PROVE  FetchInv'
  <1>1. CASE MovePart(FileOf[t])
    BY <1>1, MoveInv DEF RenameAgain
  <1>2. CASE UNCHANGED names
    BY <1>2, LeaveInv DEF RenameAgain
  <1> QED
    BY <1>1, <1>2 DEF RenameAgain

LEMMA ReadersInv ==
    ASSUME TypeOK, FetchInv, NEW r \in Readers,
           \/ \E f \in Files : OpenOwn(r, f) \/ OpenShared(r, f)
           \/ Load(r) \/ Close(r)
    PROVE  FetchInv'
  <1>1. /\ UNCHANGED <<part, target, data, pc, have, total, done, resuming, out>>
        /\ \A q \in Readers : \/ handle'[q] = handle[q]
                              \/ handle'[q] = NoInode
                              \/ \E f \in Files : handle'[q] = target[f]
        /\ \A q \in Readers : path'[q] = NoFile => handle'[q] = NoInode
    <2>1. ASSUME NEW f \in Files, OpenOwn(r, f) PROVE <1>1!:
      BY <2>1, FetchAssumption DEF OpenOwn, names, request, FetchInv, TypeOK
    <2>2. ASSUME NEW f \in Files, OpenShared(r, f) PROVE <1>1!:
      BY <2>2, FetchAssumption DEF OpenShared, names, request, FetchInv, TypeOK
    <2>3. CASE Load(r)
      BY <2>3, FetchAssumption DEF Load, names, request, FetchInv, TypeOK
    <2>4. CASE Close(r)
      BY <2>4, FetchAssumption DEF Close, names, request, FetchInv, TypeOK
    <2> QED
      BY <2>1, <2>2, <2>3, <2>4
  <1>2. PartApart' /\ PartFilled' /\ TargetIsWhole'
    BY <1>1, FolderStill
  <1>3. ASSUME NEW t \in Fetchers PROVE FetchAgrees(t)'
    BY <1>1, AgreesStill DEF FetchInv
  <1> QED
    BY <1>1, <1>2, <1>3 DEF FetchInv

LEMMA RemoveInv ==
    ASSUME TypeOK, FetchInv, NEW f \in Files, Remove(f)
    PROVE  FetchInv'
  <1>1. /\ target' = [target EXCEPT ![f] = NoInode]
        /\ UNCHANGED <<part, data, pc, have, total, done, resuming, out, path, handle>>
    BY DEF Remove, request, reading
  <1>2. PartApart' /\ PartFilled' /\ TargetIsWhole'
    BY <1>1 DEF FetchInv, PartApart, PartFilled, Filled, TargetIsWhole, TypeOK
  <1>3. ASSUME NEW t \in Fetchers PROVE FetchAgrees(t)'
    BY <1>1, AgreesStill DEF FetchInv
  <1> QED
    BY <1>1, <1>2, <1>3 DEF FetchInv

LEMMA CrashInv ==
    ASSUME TypeOK, FetchInv, Crash
    PROVE  FetchInv'
  <1>1. PartApart' /\ PartFilled' /\ TargetIsWhole'
    BY FolderStill DEF Crash, names
  <1>2. ASSUME NEW t \in Fetchers PROVE FetchAgrees(t)'
    BY DEF Crash, FetchAgrees
  <1> QED
    BY <1>1, <1>2 DEF FetchInv, Crash

LEMMA NextInv ==
    ASSUME TypeOK, FetchInv, WellUsed, [Next]_vars
    PROVE  FetchInv'
  <1>1. ASSUME NEW t \in Fetchers, Begin(t) \/ FetchStep(t) PROVE FetchInv'
    <2>1. CASE Refused(t) \/ Cancelled(t) \/ Broken(t)
      BY <2>1, LeaveInv DEF Refused, Cancelled, Broken
    <2> QED
      BY <1>1, <2>1, BeginInv, AcceptedInv, OpenPartInv, CopyInv, StreamEndsInv,
         RenameInv, DeleteTargetInv, RenameAgainInv DEF FetchStep, WellUsed
  <1>2. ASSUME NEW f \in Files, Republish(f) PROVE FetchInv'
    <2>1. UNCHANGED <<part, target, data, pc, have, total, done, resuming, out, path, handle>>
      BY <1>2 DEF Republish, names, request, reading
    <2>2. PartApart' /\ PartFilled' /\ TargetIsWhole'
      BY <2>1, FolderStill
    <2> QED
      BY <2>1, <2>2, AgreesStill DEF FetchInv
  <1>3. CASE UNCHANGED vars
    <2>1. UNCHANGED <<part, target, data, pc, have, total, done, resuming, out, path, handle>>
      BY <1>3 DEF vars
    <2>2. PartApart' /\ PartFilled' /\ TargetIsWhole'
      BY <2>1, FolderStill
    <2> QED
      BY <2>1, <2>2, AgreesStill DEF FetchInv
  <1> QED
    BY <1>1, <1>2, <1>3, ReadersInv, RemoveInv, CrashInv DEF Next

\* The invariant holds of every folder that is used well: one fetch per file
\* at a time, one version on the server, a length announced (Download.fetch,
\* with every cut, cancel, kill and resume).
THEOREM InvCorrect == WellUsed /\ Spec => []FetchInv
  <1> SUFFICES ASSUME WellUsed PROVE Spec => []FetchInv
    OBVIOUS
  <1>1. Init => TypeOK /\ FetchInv
    BY InitType, InitInv
  <1>2. TypeOK /\ FetchInv /\ [Next]_vars => (TypeOK /\ FetchInv)'
    BY NextType, NextInv
  <1> QED
    BY <1>1, <1>2, PTL DEF Spec

\* Only a complete file is ever found under the name of a model
\* (Download.fetch, "Only a complete file is renamed into place").
THEOREM TargetCorrect == WellUsed /\ Spec => []TargetIsWhole
  <1>1. FetchInv => TargetIsWhole
    BY DEF FetchInv
  <1> QED
    BY <1>1, InvCorrect, PTL

\* What a resumed download starts from is the beginning of the model, for
\* every way the attempts before it ended (Download.fetch, the Range header).
THEOREM PartCorrect == WellUsed /\ Spec => []PartIsPrefix
  <1>1. TypeOK /\ FetchInv => PartIsPrefix
    <2> SUFFICES ASSUME TypeOK, FetchInv, NEW f \in Files, part[f] # NoInode
                 PROVE  \E v \in Versions : data[part[f]] = Prefix(f, v, Length(part[f]))
      BY DEF PartIsPrefix
    <2>1. PICK n \in 0..Size : Filled(f, n)
      BY DEF FetchInv, PartFilled
    <2>2. Length(part[f]) = n
      BY <2>1, FilledLength
    <2> QED
      BY <2>1, <2>2 DEF Filled
  <1> QED
    BY <1>1, TypeCorrect, InvCorrect, PTL

-------------------------------------------------------------------------------
(* The folder implements the store.                                          *)

\* Nothing the readers can see changes.
LEMMA SlotStill ==
    ASSUME UNCHANGED <<target, handle>>,
           \A f \in Files : target[f] # NoInode => data'[target[f]] = data[target[f]],
           \A r \in Readers : handle[r] # NoInode => data'[handle[r]] = data[handle[r]]
    PROVE  UNCHANGED Slot!slotVars
  BY DEF Slot!slotVars, Content

LEMMA SlotInit == Init => Slot!Init
  BY DEF Init, Slot!Init, Content

LEMMA SlotFetchStep ==
    ASSUME TypeOK, FetchInv, TargetIsWhole', OneVersion, NEW t \in Fetchers,
           Begin(t) \/ FetchStep(t)
    PROVE  [Slot!Next]_(Slot!slotVars)
  <1> DEFINE f == FileOf[t]
  <1>0. f \in Files
    BY FetchAssumption
  <1>1. CASE OpenPart(t)
    <2>1. PICK i \in Inodes :
            /\ \A j \in Inodes : j # i => data'[j] = data[j]
            /\ \A g \in Files : i # target[g]
            /\ \A r \in Readers : i # handle[r]
      BY <1>1, OpenPartWrites
    <2>2. UNCHANGED <<target, handle>>
      BY <1>1 DEF OpenPart, reading
    <2> QED
      BY <2>1, <2>2, SlotStill DEF TypeOK, InodeOrNone
  <1>2. CASE Copy(t)
    <2>1. \A i \in Inodes : i # part[f] => data'[i] = data[i]
      BY <1>2, CopyWrites
    <2>2. /\ \A g \in Files : part[f] # target[g]
          /\ \A r \in Readers : part[f] # handle[r]
      BY <1>0, <1>2, CopyWrites, FetchAssumption DEF FetchInv, PartApart
    <2>3. UNCHANGED <<target, handle>>
      BY <1>2 DEF Copy, names, reading
    <2> QED
      BY <2>1, <2>2, <2>3, SlotStill DEF TypeOK, InodeOrNone
  <1>3. CASE (Rename(t) \/ RenameAgain(t)) /\ MovePart(f) /\ Leave(t)
    <2>1. part[f] # NoInode
      BY <1>3 DEF MovePart
    <2>2. /\ target' = [target EXCEPT ![f] = part[f]]
          /\ UNCHANGED <<data, handle>>
      BY <1>3 DEF Rename, RenameAgain, MovePart, Leave, reading
    <2>3. data[part[f]] \in Wholes(f)
      BY <1>0, <2>1, <2>2 DEF TargetIsWhole, TypeOK
    <2>4. [g \in Files |-> Content(target[g])]'
             = [[g \in Files |-> Content(target[g])] EXCEPT ![f] = data[part[f]]]
      BY <1>0, <2>1, <2>2 DEF Content, TypeOK
    <2>5. [r \in Readers |-> Content(handle[r])]' = [r \in Readers |-> Content(handle[r])]
      BY <2>2 DEF Content
    <2>6. Slot!Install(f)
      BY <1>0, <2>3, <2>4, <2>5 DEF Slot!Install
    <2> QED
      BY <1>0, <2>6 DEF Slot!Next
  <1>4. ASSUME \/ Begin(t) \/ Accepted(t) \/ Refused(t) \/ Cancelled(t)
               \/ Broken(t) \/ StreamEnds(t)
        PROVE  UNCHANGED Slot!slotVars
    <2>1. UNCHANGED <<target, data, handle>>
      BY <1>4 DEF Begin, Accepted, Refused, Cancelled, Broken, StreamEnds, Leave,
                  names, reading
    <2> QED
      BY <2>1, SlotStill
  <1>5. CASE (Rename(t) \/ RenameAgain(t)) /\ ~(MovePart(f) /\ Leave(t))
    <2>1. UNCHANGED <<target, data, handle>>
      BY <1>5 DEF Rename, RenameAgain, Leave, names, reading
    <2> QED
      BY <2>1, SlotStill
  <1>6. CASE DeleteTarget(t) /\ target' = target
    <2>1. UNCHANGED <<target, data, handle>>
      BY <1>6 DEF DeleteTarget, reading
    <2> QED
      BY <2>1, SlotStill
  \* A target that makes room is removed, whatever it was.
  <1>7. CASE DeleteTarget(t) /\ target' # target
    <2>1. target' = [target EXCEPT ![f] = NoInode] /\ UNCHANGED <<data, handle>>
      BY <1>7 DEF DeleteTarget, reading
    <2>2. [g \in Files |-> Content(target[g])]'
             = [[g \in Files |-> Content(target[g])] EXCEPT ![f] = <<>>]
      BY <1>0, <2>1 DEF Content, TypeOK
    <2>3. [r \in Readers |-> Content(handle[r])]' = [r \in Readers |-> Content(handle[r])]
      BY <2>1 DEF Content
    <2>4. Slot!Remove(f)
      BY <1>0, <2>2, <2>3 DEF Slot!Remove
    <2> QED
      BY <1>0, <2>4 DEF Slot!Next
  <1> QED
    BY <1>1, <1>2, <1>3, <1>4, <1>5, <1>6, <1>7 DEF FetchStep

LEMMA SlotReaders ==
    ASSUME TypeOK, FetchInv, NEW r \in Readers,
           \/ \E f \in Files : OpenOwn(r, f) \/ OpenShared(r, f)
           \/ Load(r) \/ Close(r)
    PROVE  [Slot!Next]_(Slot!slotVars)
  <1> DEFINE Model   == [g \in Files |-> Content(target[g])]
             Reading == [q \in Readers |-> Content(handle[q])]
  \* No reader, no inode: and so no content either.
  <1>1. ASSUME NEW f \in Files, handle[r] = NoInode, target[f] # NoInode,
               handle' = [handle EXCEPT ![r] = target[f]],
               UNCHANGED <<target, data>>
        PROVE  Slot!Open(r, f)
    <2>1. Reading[r] = <<>>
      BY <1>1 DEF Content
    <2>2. Model[f] # <<>>
      <3>1. PICK v \in Versions : data[target[f]] = Prefix(f, v, Size)
        BY <1>1 DEF FetchInv, TargetIsWhole, Wholes, Whole
      <3>2. Size \in 0..Size /\ Size > 0
        BY FetchAssumption
      <3> QED
        BY <1>1, <3>1, <3>2, PrefixSeq DEF Content
    <2>3. Model' = Model
      BY <1>1 DEF Content
    <2>4. Reading' = [Reading EXCEPT ![r] = Model[f]]
      BY <1>1 DEF Content, TypeOK
    <2> QED
      BY <2>1, <2>2, <2>3, <2>4 DEF Slot!Open
  <1>2. ASSUME NEW f \in Files, OpenOwn(r, f) PROVE UNCHANGED Slot!slotVars
    BY <1>2, SlotStill DEF OpenOwn, names
  <1>3. ASSUME NEW f \in Files, OpenShared(r, f) PROVE Slot!Open(r, f)
    BY <1>1, <1>3 DEF OpenShared, Readable, names, FetchInv
  <1>4. CASE Load(r)
    <2>1. CASE target[path[r]] = NoInode
      <3>1. UNCHANGED <<target, data, handle>>
        BY <1>4, <2>1 DEF Load, names, TypeOK
      <3> QED
        BY <3>1, SlotStill
    <2>2. CASE target[path[r]] # NoInode
      BY <1>1, <1>4, <2>2 DEF Load, names, TypeOK, Slot!Next
    <2> QED
      BY <2>1, <2>2
  <1>5. CASE Close(r)
    <2>1. Model' = Model
      BY <1>5 DEF Close, names, Content
    <2>2. Reading' = [q \in Readers |-> IF q \in {r} THEN <<>> ELSE Reading[q]]
      BY <1>5 DEF Close, names, Content, TypeOK
    <2>3. Slot!Release({r})
      BY <2>1, <2>2 DEF Slot!Release
    <2> QED
      BY <2>3 DEF Slot!Next
  <1> QED
    BY <1>2, <1>3, <1>4, <1>5 DEF Slot!Next

LEMMA SlotStep ==
    ASSUME TypeOK, FetchInv, TargetIsWhole', OneVersion, [Next]_vars
    PROVE  [Slot!Next]_(Slot!slotVars)
  <1> DEFINE Model   == [g \in Files |-> Content(target[g])]
             Reading == [q \in Readers |-> Content(handle[q])]
  <1>1. ASSUME NEW f \in Files, Remove(f) PROVE Slot!Remove(f)
    <2>1. Reading' = Reading
      BY <1>1 DEF Remove, reading, Content
    <2>2. Model' = [Model EXCEPT ![f] = <<>>]
      BY <1>1 DEF Remove, Content, TypeOK
    <2> QED
      BY <2>1, <2>2 DEF Slot!Remove
  <1>2. CASE Crash
    <2>1. Model' = Model
      BY <1>2 DEF Crash, names, Content
    <2>2. Reading' = [q \in Readers |-> IF q \in Readers \ Siblings THEN <<>> ELSE Reading[q]]
      BY <1>2 DEF Crash, Content, TypeOK
    <2>3. Slot!Release(Readers \ Siblings)
      BY <2>1, <2>2 DEF Slot!Release
    <2> QED
      BY <2>3 DEF Slot!Next
  <1>3. ASSUME (\E f \in Files : Republish(f)) \/ UNCHANGED vars
        PROVE  UNCHANGED Slot!slotVars
    <2>1. UNCHANGED <<target, data, handle>>
      BY <1>3 DEF Republish, names, reading, vars
    <2> QED
      BY <2>1, SlotStill
  <1> QED
    BY <1>1, <1>2, <1>3, SlotFetchStep, SlotReaders DEF Next, Slot!Next

\* A folder that is used well is a store of whole models that appear at once
\* and do not change under who reads them (Download.fetch, ModelFiles.open,
\* ModelProvider.openFile, remove).
THEOREM ImplementsSlot == WellUsed /\ Spec => SlotSpec
  <1> SUFFICES ASSUME WellUsed PROVE Spec => SlotSpec
    OBVIOUS
  <1>1. FetchInv => TargetIsWhole
    BY DEF FetchInv
  <1>2. TypeOK /\ FetchInv /\ TargetIsWhole' /\ [Next]_vars => [Slot!Next]_(Slot!slotVars)
    BY SlotStep DEF WellUsed
  <1> QED
    BY <1>1, <1>2, SlotInit, TypeCorrect, InvCorrect, PTL
       DEF Spec, SlotSpec, Slot!Spec

-------------------------------------------------------------------------------
(* What was brought down is kept.                                            *)

LEMMA KeptStep ==
    ASSUME TypeOK, FetchInv, OneVersion, ~MayIgnoreRange, [Next]_vars,
           NEW f \in Files
    PROVE  \/ Length(part[f])' >= Length(part[f])
           \/ target'[f] = part[f]
  <1>0. Length(part[f]) \in Nat
    BY FetchAssumption DEF TypeOK, Length, InodeOrNone
  <1>1. ASSUME NEW t \in Fetchers, OpenPart(t) PROVE Length(part[f])' >= Length(part[f])
    <2> DEFINE g == FileOf[t]
    <2>1. PICK i \in Inodes :
            /\ part' = [part EXCEPT ![g] = i]
            /\ \A j \in Inodes : j # i => data'[j] = data[j]
            /\ IF part[g] = NoInode THEN Free(i) ELSE i = part[g]
            /\ data'[i] = IF part[g] = NoInode THEN <<>> ELSE Opened(data[i], resuming[t])
            /\ \A h \in Files : h # g => i # part[h]
      BY <1>1, OpenPartWrites
    <2>2. CASE f # g
      <3>1. /\ part'[f] = part[f]
            /\ part[f] # NoInode => data'[part[f]] = data[part[f]]
        BY <2>1, <2>2 DEF TypeOK, InodeOrNone
      <3>2. Length(part[f])' = Length(part[f])
        BY <3>1 DEF Length
      <3> QED
        BY <3>2, <1>0
    <2>3. CASE f = g /\ part[f] = NoInode
      <3>1. Length(part[f])' = 0 /\ Length(part[f]) = 0
        BY <2>1, <2>3, FetchAssumption DEF Length, TypeOK
      <3> QED
        BY <3>1
    <2>4. CASE f = g /\ part[f] # NoInode
      <3>1. part'[f] = part[f] /\ i = part[f]
        BY <2>1, <2>4 DEF TypeOK
      <3>2. CASE resuming[t]
        <4>1. Length(part[f])' = Length(part[f])
          BY <2>1, <2>4, <3>1, <3>2 DEF Length, Opened
        <4> QED
          BY <4>1, <1>0
      \* Not resuming, although there is a .part: it was found empty.
      <3>3. CASE ~resuming[t]
        <4>1. Filled(f, 0)
          BY <1>1, <2>4, <3>3 DEF OpenPart, FetchInv, FetchAgrees
        <4>2. Length(part[f]) = 0
          BY <4>1, <2>4, FilledLength, FetchAssumption
        <4>3. Length(part[f])' = 0
          BY <2>1, <2>4, <3>1, <3>3, FetchAssumption DEF Length, Opened
        <4> QED
          BY <4>2, <4>3
      <3> QED
        BY <3>2, <3>3
    <2> QED
      BY <2>2, <2>3, <2>4
  <1>2. ASSUME NEW t \in Fetchers, Copy(t) PROVE Length(part[f])' >= Length(part[f])
    <2> DEFINE g == FileOf[t]
    <2>1. /\ part[g] \in Inodes
          /\ part' = part
          /\ done[t] \in 0..Size-1
          /\ \A i \in Inodes : i # part[g] => data'[i] = data[i]
      BY <1>2, CopyWrites DEF Copy, names
    <2>2. PICK v \in Versions : /\ data[part[g]] = Prefix(g, v, done[t])
                                /\ data'[part[g]] = Prefix(g, v, done[t] + 1)
      BY <1>2, CopyWrites
    <2>3. CASE part[f] = part[g]
      <3>1. /\ done[t] \in 0..Size /\ done[t] + 1 \in 0..Size
            /\ g \in Files
        BY <2>1, FetchAssumption
      <3>2. /\ Len(data[part[g]]) = done[t]
            /\ Len(data'[part[g]]) = done[t] + 1
        BY <2>2, <3>1, PrefixSeq
      <3> QED
        BY <2>1, <2>3, <3>1, <3>2, FetchAssumption DEF Length
    <2>4. CASE part[f] # part[g]
      <3>1. Length(part[f])' = Length(part[f])
        BY <2>1, <2>4 DEF Length, TypeOK, InodeOrNone
      <3> QED
        BY <3>1, <1>0
    <2> QED
      BY <2>3, <2>4
  <1>3. ASSUME NEW t \in Fetchers, Rename(t) \/ RenameAgain(t), MovePart(FileOf[t])
        PROVE  Length(part[f])' >= Length(part[f]) \/ target'[f] = part[f]
    <2>2. /\ target' = [target EXCEPT ![FileOf[t]] = part[FileOf[t]]]
          /\ part' = [part EXCEPT ![FileOf[t]] = NoInode]
          /\ data' = data
      BY <1>3 DEF Rename, RenameAgain, MovePart
    <2>3. CASE f = FileOf[t]
      BY <2>2, <2>3 DEF TypeOK
    <2>4. CASE f # FileOf[t]
      <3>1. Length(part[f])' = Length(part[f])
        BY <2>2, <2>4 DEF Length, TypeOK
      <3> QED
        BY <3>1, <1>0
    <2> QED
      BY <2>3, <2>4
  <1>4. ASSUME UNCHANGED <<part, data>> PROVE Length(part[f])' >= Length(part[f])
    <2>1. Length(part[f])' = Length(part[f])
      BY <1>4 DEF Length
    <2> QED
      BY <2>1, <1>0
  <1>5. ASSUME NEW t \in Fetchers,
               \/ Begin(t) \/ Accepted(t) \/ Refused(t) \/ Cancelled(t)
               \/ Broken(t) \/ StreamEnds(t) \/ DeleteTarget(t)
        PROVE  UNCHANGED <<part, data>>
    BY <1>5 DEF Begin, Accepted, Refused, Cancelled, Broken, StreamEnds, DeleteTarget, names
  <1>6. ASSUME NEW t \in Fetchers, Rename(t) \/ RenameAgain(t), ~MovePart(FileOf[t])
        PROVE  UNCHANGED <<part, data>>
    BY <1>6 DEF Rename, RenameAgain, names
  <1>7. ASSUME \/ \E r \in Readers, g \in Files : OpenOwn(r, g) \/ OpenShared(r, g)
               \/ \E r \in Readers : Load(r) \/ Close(r)
               \/ \E g \in Files : Remove(g) \/ Republish(g)
               \/ Crash \/ UNCHANGED vars
        PROVE  UNCHANGED <<part, data>>
    BY <1>7 DEF OpenOwn, OpenShared, Load, Close, Remove, Republish, Crash, names, vars
  <1> QED
    BY <1>1, <1>2, <1>3, <1>4, <1>5, <1>6, <1>7 DEF Next, FetchStep

\* With a server that honours Range, no cut, cancel, kill or removal costs a
\* byte of what an interrupted attempt brought down (Download.fetch, "what an
\* interrupted attempt already brought down is kept").
THEOREM KeptCorrect == WellUsed /\ ~MayIgnoreRange /\ Spec => KeptBytes
  <1> SUFFICES ASSUME WellUsed, ~MayIgnoreRange PROVE Spec => KeptBytes
    OBVIOUS
  <1>1. TypeOK /\ FetchInv /\ [Next]_vars =>
            [\A f \in Files : \/ Length(part[f])' >= Length(part[f])
                              \/ target'[f] = part[f]]_vars
    BY KeptStep DEF WellUsed
  <1> QED
    BY <1>1, TypeCorrect, InvCorrect, PTL DEF Spec, KeptBytes

-------------------------------------------------------------------------------
(* The figure on the screens.                                                *)

LEMMA QuietStep ==
    ASSUME TypeOK, QuietWhenIdle, [Next]_vars
    PROVE  QuietWhenIdle'
  <1> SUFFICES ASSUME NEW w \in Flows,
                      \A t \in Fetchers : FlowOf[FileOf[t]] = w => pc'[t] = "idle"
               PROVE  downloading'[w] = -1
    BY DEF QuietWhenIdle
  \* Whoever goes on fetching does so on another figure; whoever stops puts
  \* this one back.
  <1>1. ASSUME NEW t \in Fetchers, Leave(t) PROVE downloading'[w] = -1
    <2>1. CASE FlowOf[FileOf[t]] = w
      BY <1>1, <2>1 DEF Leave, Hide, TypeOK
    <2>2. CASE FlowOf[FileOf[t]] # w
      <3>1. \A u \in Fetchers : FlowOf[FileOf[u]] = w => pc[u] = "idle"
        BY <1>1, <2>2 DEF Leave, TypeOK
      <3> QED
        BY <1>1, <2>2, <3>1 DEF Leave, Hide, TypeOK, QuietWhenIdle
    <2> QED
      BY <2>1, <2>2
  <1>2. ASSUME NEW t \in Fetchers, pc'[t] # "idle",
               \A u \in Fetchers : u # t => pc'[u] = pc[u],
               \/ downloading' = downloading
               \/ \E d \in Int : downloading' = [downloading EXCEPT ![FlowOf[FileOf[t]]] = d]
        PROVE  downloading'[w] = -1
    <2>1. FlowOf[FileOf[t]] # w
      BY <1>2
    <2>2. downloading'[w] = downloading[w]
      BY <1>2, <2>1 DEF TypeOK
    <2> QED
      BY <1>2, <2>1, <2>2 DEF QuietWhenIdle
  <1>3. ASSUME NEW t \in Fetchers, Copy(t) PROVE downloading'[w] = -1
    <2>1. Percent(done[t] + 1, total[t]) \in Int
      <3>1. done[t] + 1 \in 0..Size /\ total[t] \in {-1, Size}
        BY <1>3, FetchAssumption DEF Copy, TypeOK
      <3> QED
        BY <3>1, PercentRange
    <2>2. pc'[t] # "idle" /\ pc' = pc
      BY <1>3 DEF Copy
    <2>3. \/ downloading' = downloading
          \/ downloading' = [downloading EXCEPT ![FlowOf[FileOf[t]]] = Percent(done[t] + 1, total[t])]
      BY <1>3 DEF Copy
    <2> QED
      BY <1>2, <2>1, <2>2, <2>3
  <1>4. ASSUME NEW t \in Fetchers,
               \/ Begin(t) \/ Accepted(t) \/ OpenPart(t) \/ DeleteTarget(t)
        PROVE  downloading'[w] = -1
    <2>1. /\ pc'[t] # "idle" /\ \A u \in Fetchers : u # t => pc'[u] = pc[u]
          /\ \/ downloading' = downloading
             \/ downloading' = [downloading EXCEPT ![FlowOf[FileOf[t]]] = 0]
      BY <1>4 DEF Begin, Accepted, OpenPart, DeleteTarget, TypeOK
    <2> QED
      BY <1>2, <2>1
  <1>5. ASSUME NEW t \in Fetchers, StreamEnds(t) \/ Rename(t), ~Leave(t)
        PROVE  downloading'[w] = -1
    BY <1>5, <1>2 DEF StreamEnds, Rename, TypeOK
  <1>6. ASSUME NEW t \in Fetchers,
               Refused(t) \/ Cancelled(t) \/ Broken(t) \/ RenameAgain(t)
        PROVE  Leave(t)
    BY <1>6 DEF Refused, Cancelled, Broken, RenameAgain
  <1>7. ASSUME \/ \E r \in Readers, g \in Files : OpenOwn(r, g) \/ OpenShared(r, g)
               \/ \E r \in Readers : Load(r) \/ Close(r)
               \/ \E g \in Files : Remove(g) \/ Republish(g)
               \/ UNCHANGED vars
        PROVE  downloading'[w] = -1
    <2>1. UNCHANGED <<pc, downloading>>
      BY <1>7 DEF OpenOwn, OpenShared, Load, Close, Remove, Republish, vars
    <2> QED
      BY <2>1 DEF QuietWhenIdle
  <1>8. CASE Crash
    BY <1>8 DEF Crash
  <1> QED
    BY <1>1, <1>3, <1>4, <1>5, <1>6, <1>7, <1>8 DEF Next, FetchStep

\* However many fetches share a figure, and whatever they do to one another's
\* files, no screen shows a download after the last one has ended (the
\* finally of download in Models, SummaryModel and TranslateModel).
THEOREM QuietCorrect == Spec => []QuietWhenIdle
  <1>1. Init => QuietWhenIdle
    BY DEF Init, QuietWhenIdle
  <1>2. TypeOK /\ QuietWhenIdle /\ [Next]_vars => QuietWhenIdle'
    BY QuietStep
  <1> QED
    BY <1>1, <1>2, TypeCorrect, PTL DEF Spec

\* No two threads fetch through one figure.  Models.downloading serves two
\* files, so this is more than OneFetcherEach.
OneFigureEach ==
    \A t, u \in Fetchers : FlowOf[FileOf[t]] = FlowOf[FileOf[u]] => t = u

\* The figure of a fetch is there while it runs, and claims no more than the
\* fetch has counted.
FigureTold(t) ==
    LET figure == downloading[FlowOf[FileOf[t]]]
    IN  /\ pc[t] # "idle" => figure # -1
        /\ pc[t] \in {"started", "answered"} => figure = 0
        /\ pc[t] \in {"copying", "complete", "replacing", "again"} =>
              figure * Size <= 100 * done[t]

\* Rounding down claims no more than there is.
LEMMA PercentBelow ==
    ASSUME NEW d \in 0..Size, NEW t \in {-1, Size}
    PROVE  Percent(d, t) * Size <= 100 * d
  <1>1. Size \in Nat /\ Size > 0
    BY FetchAssumption
  <1>2. CASE t = -1
    BY <1>1, <1>2 DEF Percent
  <1>3. CASE t = Size
    <2>1. \A x \in Nat : \A m \in Nat \ {0} : (x \div m) * m <= x
      <3> SUFFICES ASSUME NEW x \in Nat, NEW m \in Nat \ {0}
                   PROVE  (x \div m) * m <= x
        OBVIOUS
      <3>1. x = (x \div m) * m + (x % m) /\ x % m >= 0
        OBVIOUS
      <3> QED
        BY <3>1
    <2>2. Percent(d, t) = (d * 100) \div Size /\ d * 100 \in Nat /\ d * 100 = 100 * d
      BY <1>1, <1>3 DEF Percent
    <2> QED
      BY <1>1, <2>1, <2>2
  <1> QED
    BY <1>2, <1>3

\* A step of one fetch leaves what the figures of the others say.
LEMMA OthersTold ==
    ASSUME OneFigureEach, TypeOK, \A u \in Fetchers : FigureTold(u),
           NEW t \in Fetchers, FigureTold(t)',
           \A u \in Fetchers \ {t} : pc'[u] = pc[u] /\ done'[u] = done[u],
           \/ downloading' = downloading
           \/ \E d \in -1..100 : downloading' = [downloading EXCEPT ![FlowOf[FileOf[t]]] = d]
    PROVE  \A u \in Fetchers : FigureTold(u)'
  <1> SUFFICES ASSUME NEW u \in Fetchers, u # t
               PROVE  FigureTold(u)'
    OBVIOUS
  <1>1. FlowOf[FileOf[u]] # FlowOf[FileOf[t]]
    BY DEF OneFigureEach
  <1>2. downloading'[FlowOf[FileOf[u]]] = downloading[FlowOf[FileOf[u]]]
    <2>1. FlowOf[FileOf[u]] \in Flows
      BY FetchAssumption
    <2>2. CASE \E d \in -1..100 : downloading' = [downloading EXCEPT ![FlowOf[FileOf[t]]] = d]
      BY <1>1, <2>1, <2>2 DEF TypeOK
    <2> QED
      BY <2>2
  <1> QED
    BY <1>2 DEF FigureTold

\* Whichever step is taken, each fetch's figure goes on telling the truth.
LEMMA FigureStep ==
    ASSUME OneFigureEach, TypeOK, \A u \in Fetchers : FigureTold(u), [Next]_vars
    PROVE  \A u \in Fetchers : FigureTold(u)'
  <1>0. Size \in Nat \ {0} /\ \A t \in Fetchers : FlowOf[FileOf[t]] \in Flows
    BY FetchAssumption
  <1>1. ASSUME NEW t \in Fetchers, Leave(t)
        PROVE  \A u \in Fetchers : FigureTold(u)'
    <2>1. pc'[t] = "idle" /\ \A u \in Fetchers \ {t} : pc'[u] = pc[u] /\ done'[u] = done[u]
      BY <1>1 DEF Leave, TypeOK
    <2>2. downloading' = [downloading EXCEPT ![FlowOf[FileOf[t]]] = -1] /\ -1 \in -1..100
      BY <1>1 DEF Leave, Hide
    <2>3. FigureTold(t)'
      BY <2>1 DEF FigureTold
    <2> QED
      BY <2>1, <2>2, <2>3, OthersTold
  <1>2. ASSUME NEW t \in Fetchers, Begin(t)
        PROVE  \A u \in Fetchers : FigureTold(u)'
    <2>1. /\ pc'[t] = "started"
          /\ \A u \in Fetchers \ {t} : pc'[u] = pc[u] /\ done'[u] = done[u]
      BY <1>2 DEF Begin, request, TypeOK
    <2>2. downloading' = [downloading EXCEPT ![FlowOf[FileOf[t]]] = 0] /\ 0 \in -1..100
      BY <1>2 DEF Begin
    <2>3. downloading'[FlowOf[FileOf[t]]] = 0
      BY <1>0, <2>2 DEF TypeOK
    <2>4. FigureTold(t)'
      BY <2>1, <2>3 DEF FigureTold
    <2> QED
      BY <2>1, <2>2, <2>4, OthersTold
  <1>3. ASSUME NEW t \in Fetchers, UNCHANGED downloading, done'[t] = done[t],
               \A u \in Fetchers \ {t} : pc'[u] = pc[u] /\ done'[u] = done[u],
               \/ pc[t] = "copying" /\ pc'[t] = "complete"
               \/ pc[t] = "complete" /\ pc'[t] = "replacing"
               \/ pc[t] = "replacing" /\ pc'[t] = "again"
        PROVE  \A u \in Fetchers : FigureTold(u)'
    <2>1. FigureTold(t)'
      BY <1>3 DEF FigureTold
    <2> QED
      BY <1>3, <2>1, OthersTold
  <1>4. ASSUME NEW t \in Fetchers, Accepted(t)
        PROVE  \A u \in Fetchers : FigureTold(u)'
    <2>1. /\ pc[t] = "started" /\ pc'[t] = "answered" /\ UNCHANGED downloading
          /\ \A u \in Fetchers \ {t} : pc'[u] = pc[u] /\ done'[u] = done[u]
      BY <1>4 DEF Accepted, TypeOK
    <2>2. FigureTold(t)'
      BY <2>1 DEF FigureTold
    <2> QED
      BY <2>1, <2>2, OthersTold
  <1>5. ASSUME NEW t \in Fetchers, OpenPart(t)
        PROVE  \A u \in Fetchers : FigureTold(u)'
    <2>1. /\ pc[t] = "answered" /\ pc'[t] = "copying" /\ UNCHANGED <<downloading, done>>
          /\ \A u \in Fetchers \ {t} : pc'[u] = pc[u] /\ done'[u] = done[u]
      BY <1>5 DEF OpenPart, request, TypeOK
    <2>2. downloading[FlowOf[FileOf[t]]] = 0 /\ done[t] \in Nat
      BY <2>1, <1>0 DEF FigureTold, TypeOK
    <2>3. 0 * Size <= 100 * done[t]
      BY <1>0, <2>2
    <2>4. FigureTold(t)'
      BY <2>1, <2>2, <2>3 DEF FigureTold
    <2> QED
      BY <2>1, <2>4, OthersTold
  <1>6. ASSUME NEW t \in Fetchers, Copy(t)
        PROVE  \A u \in Fetchers : FigureTold(u)'
    <2> DEFINE p == Percent(done[t] + 1, total[t])
               shown == downloading[FlowOf[FileOf[t]]]
    <2>1. /\ pc[t] = "copying" /\ UNCHANGED pc
          /\ done' = [done EXCEPT ![t] = @ + 1]
          /\ \/ downloading' = downloading
             \/ downloading' = [downloading EXCEPT ![FlowOf[FileOf[t]]] = p]
      BY <1>6 DEF Copy
    <2>2. done[t] \in 0..Size /\ done[t] + 1 \in 0..Size /\ total[t] \in {-1, Size}
      BY <1>0, <1>6 DEF Copy, TypeOK
    <2>3. p \in 0..100 /\ p * Size <= 100 * (done[t] + 1)
      BY <2>2, PercentRange, PercentBelow
    <2>4. shown \in -1..100 /\ shown # -1 /\ shown * Size <= 100 * done[t]
      BY <1>0, <2>1 DEF FigureTold, TypeOK
    <2> HIDE DEF p
    <2>5. /\ done'[t] = done[t] + 1
          /\ \A u \in Fetchers \ {t} : pc'[u] = pc[u] /\ done'[u] = done[u]
      BY <2>1 DEF TypeOK
    <2>6. downloading'[FlowOf[FileOf[t]]] \in {shown, p}
      BY <1>0, <2>1 DEF TypeOK
    <2> HIDE DEF shown
    <2>7. shown * Size <= 100 * (done[t] + 1)
      <3>1. shown * Size \in Int
        BY <1>0, <2>4
      <3> QED
        BY <2>2, <2>4, <3>1
    <2>8. FigureTold(t)'
      BY <2>1, <2>3, <2>4, <2>5, <2>6, <2>7 DEF FigureTold
    <2>9. p \in -1..100
      BY <2>3
    <2> QED
      BY <2>1, <2>5, <2>8, <2>9, OthersTold
  <1>7. ASSUME NEW t \in Fetchers, StreamEnds(t) \/ Rename(t) \/ DeleteTarget(t), ~Leave(t)
        PROVE  \A u \in Fetchers : FigureTold(u)'
    <2>1. /\ UNCHANGED <<downloading, done>>
          /\ \A u \in Fetchers \ {t} : pc'[u] = pc[u]
          /\ \/ pc[t] = "copying" /\ pc'[t] = "complete"
             \/ pc[t] = "complete" /\ pc'[t] = "replacing"
             \/ pc[t] = "replacing" /\ pc'[t] = "again"
      BY <1>7 DEF StreamEnds, Rename, DeleteTarget, request, TypeOK
    <2> QED
      BY <1>3, <2>1
  <1>8. ASSUME NEW t \in Fetchers,
               Refused(t) \/ Cancelled(t) \/ Broken(t) \/ RenameAgain(t)
        PROVE  Leave(t)
    BY <1>8 DEF Refused, Cancelled, Broken, RenameAgain
  <1>9. ASSUME \/ \E r \in Readers, g \in Files : OpenOwn(r, g) \/ OpenShared(r, g)
               \/ \E r \in Readers : Load(r) \/ Close(r)
               \/ \E g \in Files : Remove(g) \/ Republish(g)
               \/ UNCHANGED vars
        PROVE  \A u \in Fetchers : FigureTold(u)'
    <2>1. UNCHANGED <<pc, downloading, done>>
      BY <1>9 DEF OpenOwn, OpenShared, Load, Close, Remove, Republish, request, vars
    <2> QED
      BY <2>1 DEF FigureTold
  <1>10. CASE Crash
    BY <1>10 DEF Crash, FigureTold
  <1> QED
    BY <1>1, <1>2, <1>4, <1>5, <1>6, <1>7, <1>8, <1>9, <1>10 DEF Next, FetchStep

\* As long as no two fetches share a figure, it tells of a running fetch no more
\* than has been counted, whatever else happens to the files.
THEOREM FigureInvariant ==
    OneFigureEach /\ Spec => [](\A t \in Fetchers : FigureTold(t))
  <1> SUFFICES ASSUME OneFigureEach PROVE Spec => [](\A t \in Fetchers : FigureTold(t))
    OBVIOUS
  <1>1. Init => \A t \in Fetchers : FigureTold(t)
    BY DEF Init, FigureTold
  <1>2. TypeOK /\ (\A t \in Fetchers : FigureTold(t)) /\ [Next]_vars =>
            (\A t \in Fetchers : FigureTold(t))'
    BY FigureStep
  <1> QED
    BY <1>1, <1>2, TypeCorrect, PTL DEF Spec

\* As long as no two fetches share a figure, it is "0-100 while a download
\* runs, -1 otherwise" (downloading in Models, SummaryModel, TranslateModel).
THEOREM ShownCorrect == OneFigureEach /\ Spec => []DownloadingShown
  <1>1. QuietWhenIdle /\ (\A t \in Fetchers : FigureTold(t)) => DownloadingShown
    BY DEF QuietWhenIdle, FigureTold, DownloadingShown
  <1> QED
    BY <1>1, QuietCorrect, FigureInvariant, PTL

\* In a folder used as WellUsed says, a figure of its own claims no more than
\* the bytes that are on disk and that the next attempt will start from.
THEOREM FigureCorrect == WellUsed /\ OneFigureEach /\ Spec => []FigureOnDisk
  <1>1. TypeOK /\ FetchInv /\ (\A t \in Fetchers : FigureTold(t)) => FigureOnDisk
    <2> SUFFICES ASSUME TypeOK, FetchInv, NEW t \in Fetchers, FigureTold(t), pc[t] # "idle"
                 PROVE  downloading[FlowOf[FileOf[t]]] * Size <= 100 * Length(part[FileOf[t]])
      BY DEF FigureOnDisk
    <2> DEFINE f == FileOf[t]
               figure == downloading[FlowOf[FileOf[t]]]
    <2>0. f \in Files /\ Size \in Nat \ {0} /\ done[t] \in 0..Size /\ figure \in -1..100
      BY FetchAssumption DEF TypeOK
    <2>1. FetchAgrees(t)
      BY DEF FetchInv
    <2>2. CASE pc[t] \in {"started", "answered"}
      <3>1. figure = 0
        BY <2>2 DEF FigureTold
      <3>2. Length(part[f]) \in Nat
        BY <2>0 DEF Length, TypeOK, InodeOrNone
      <3> HIDE DEF f, figure
      <3>3. figure * Size <= 100 * Length(part[f])
        BY <2>0, <3>1, <3>2
      <3> QED
        BY <3>3 DEF f, figure
    <2>3. CASE pc[t] = "copying"
      <3>1. Length(part[f]) = done[t]
        BY <2>0, <2>1, <2>3, FilledLength DEF FetchAgrees
      <3> QED
        BY <2>3, <3>1 DEF FigureTold
    <2>4. CASE pc[t] \in {"complete", "replacing", "again"}
      <3>1. Length(part[f]) = Size
        BY <2>0, <2>1, <2>4, FilledLength DEF FetchAgrees
      <3>2. figure * Size <= 100 * done[t]
        BY <2>4 DEF FigureTold
      <3> HIDE DEF figure, f
      <3>3. figure * Size \in Int /\ 100 * done[t] <= 100 * Size
        BY <2>0
      <3>4. figure * Size <= 100 * Length(part[f])
        BY <2>0, <3>1, <3>2, <3>3
      <3> QED
        BY <3>4 DEF f, figure
    <2> QED
      BY <2>1, <2>2, <2>3, <2>4 DEF FetchAgrees, TypeOK
  <1> QED
    BY <1>1, TypeCorrect, InvCorrect, FigureInvariant, PTL

-------------------------------------------------------------------------------
(* The end is nearer at every step.                                          *)

\* The steps still ahead of a fetch: the bytes it has to copy and the states
\* after them.
StepsAhead(t) ==
    CASE pc[t] = "idle"      -> 0
      [] pc[t] = "started"   -> Size + 6
      [] pc[t] = "answered"  -> Size + 5
      [] pc[t] = "copying"   -> (Size - done[t]) + 4
      [] pc[t] = "complete"  -> 3
      [] pc[t] = "replacing" -> 2
      [] pc[t] = "again"     -> 1

\* A step of a fetch leaves less ahead of it, and no step of another thread, and
\* no crash, leaves more; nothing but its own beginning starts it again.
Nearer(t) ==
    /\ StepsAhead(t) \in 0..(Size + 6)
    /\ pc[t] # "idle" => StepsAhead(t) > 0
    /\ FetchStep(t) => StepsAhead(t)' < StepsAhead(t)
    /\ ~Begin(t) /\ ~FetchStep(t) => StepsAhead(t)' <= StepsAhead(t)

\* What is ahead is a number, and 0 exactly of the thread that does not fetch.
LEMMA AheadRange ==
    ASSUME TypeOK, NEW t \in Fetchers
    PROVE  /\ StepsAhead(t) \in 0..(Size + 6)
           /\ StepsAhead(t) = 0 <=> pc[t] = "idle"
<1>1. /\ Size \in Nat /\ done[t] \in 0..Size
      /\ pc[t] \in {"idle", "started", "answered", "copying", "complete", "replacing", "again"}
  BY FetchAssumption DEF TypeOK
<1> QED
  BY <1>1 DEF StepsAhead

\* To leave the fetch leaves nothing ahead.
LEMMA LeaveNearer ==
    ASSUME TypeOK, NEW t \in Fetchers, pc[t] # "idle", Leave(t)
    PROVE  StepsAhead(t)' < StepsAhead(t)
<1>1. pc'[t] = "idle"
  BY DEF Leave, TypeOK
<1>2. StepsAhead(t)' = 0
  BY <1>1 DEF StepsAhead
<1>3. StepsAhead(t) \in 0..(Size + 6) /\ StepsAhead(t) # 0 /\ Size \in Nat
  BY AheadRange, FetchAssumption
<1> QED
  BY <1>2, <1>3

\* Every step of the fetch leaves less ahead.
LEMMA StepNearer ==
    ASSUME TypeOK, NEW t \in Fetchers, FetchStep(t)
    PROVE  StepsAhead(t)' < StepsAhead(t)
<1>1. /\ Size \in Nat /\ done[t] \in 0..Size
      /\ pc \in [Fetchers -> {"idle", "started", "answered", "copying",
                             "complete", "replacing", "again"}]
      /\ done \in [Fetchers -> 0..Size]
      /\ have \in [Fetchers -> 0..Size]
  BY FetchAssumption DEF TypeOK
<1>2. CASE Accepted(t)
  <2>1. pc[t] = "started" /\ pc'[t] = "answered"
    BY <1>1, <1>2 DEF Accepted
  <2> QED
    BY <1>1, <2>1 DEF StepsAhead
<1>3. CASE Refused(t)
  BY <1>3, LeaveNearer DEF Refused
<1>4. CASE OpenPart(t)
  <2>1. pc[t] = "answered" /\ pc'[t] = "copying" /\ done' = done
    BY <1>1, <1>4 DEF OpenPart, request
  <2> QED
    BY <1>1, <2>1 DEF StepsAhead
<1>5. CASE Copy(t)
  <2>1. pc[t] = "copying" /\ pc' = pc /\ done'[t] = done[t] + 1
    BY <1>1, <1>5 DEF Copy
  <2> QED
    BY <1>1, <2>1 DEF StepsAhead
<1>6. CASE Cancelled(t)
  BY <1>6, LeaveNearer DEF Cancelled
<1>7. CASE Broken(t)
  BY <1>7, LeaveNearer DEF Broken
<1>8. CASE StreamEnds(t)
  <2>1. CASE Leave(t)
    BY <1>8, <2>1, LeaveNearer DEF StreamEnds
  <2>2. CASE ~Leave(t)
    <3>1. pc[t] = "copying" /\ pc'[t] = "complete"
      BY <1>1, <1>8, <2>2 DEF StreamEnds
    <3> QED
      BY <1>1, <3>1 DEF StepsAhead
  <2> QED
    BY <2>1, <2>2
<1>9. CASE Rename(t)
  <2>1. CASE Leave(t)
    BY <1>9, <2>1, LeaveNearer DEF Rename
  <2>2. CASE ~Leave(t)
    <3>1. pc[t] = "complete" /\ pc'[t] = "replacing"
      BY <1>1, <1>9, <2>2 DEF Rename
    <3> QED
      BY <1>1, <3>1 DEF StepsAhead
  <2> QED
    BY <2>1, <2>2
<1>10. CASE DeleteTarget(t)
  <2>1. pc[t] = "replacing" /\ pc'[t] = "again"
    BY <1>1, <1>10 DEF DeleteTarget
  <2> QED
    BY <1>1, <2>1 DEF StepsAhead
<1>11. CASE RenameAgain(t)
  BY <1>11, LeaveNearer DEF RenameAgain
<1> QED
  BY <1>2, <1>3, <1>4, <1>5, <1>6, <1>7, <1>8, <1>9, <1>10, <1>11 DEF FetchStep

\* The steps of the others, and a crash, leave no more.
LEMMA OthersNearer ==
    ASSUME TypeOK, [Next]_vars, NEW t \in Fetchers, ~Begin(t), ~FetchStep(t)
    PROVE  StepsAhead(t)' <= StepsAhead(t)
<1>1. StepsAhead(t) \in 0..(Size + 6) /\ Size \in Nat
  BY AheadRange, FetchAssumption
<1>2. CASE Crash
  <2>1. pc'[t] = "idle"
    BY <1>2 DEF Crash
  <2>2. StepsAhead(t)' = 0
    BY <2>1 DEF StepsAhead
  <2> QED
    BY <1>1, <2>2
<1>3. CASE ~Crash
  <2>1. pc'[t] = pc[t] /\ done'[t] = done[t]
    <3>1. ASSUME NEW u \in Fetchers, Begin(u) \/ FetchStep(u)
          PROVE  pc'[t] = pc[t] /\ done'[t] = done[t]
      <4>1. u # t
        BY <3>1
      <4>2. /\ pc \in [Fetchers -> {"idle", "started", "answered", "copying",
                                   "complete", "replacing", "again"}]
            /\ done \in [Fetchers -> 0..Size]
        BY DEF TypeOK
      <4>3. CASE Leave(u)
        BY <4>1, <4>2, <4>3 DEF Leave
      <4>4. CASE Begin(u)
        BY <4>1, <4>2, <4>4 DEF Begin, request
      <4>5. CASE Accepted(u)
        BY <4>1, <4>2, <4>5 DEF Accepted
      <4>6. CASE OpenPart(u)
        BY <4>1, <4>2, <4>6 DEF OpenPart, request
      <4>7. CASE Copy(u)
        BY <4>1, <4>2, <4>7 DEF Copy
      <4>8. CASE (StreamEnds(u) \/ Rename(u) \/ DeleteTarget(u)) /\ ~Leave(u)
        BY <4>1, <4>2, <4>8 DEF StreamEnds, Rename, DeleteTarget, request
      <4> QED
        BY <3>1, <4>3, <4>4, <4>5, <4>6, <4>7, <4>8
           DEF FetchStep, Refused, Cancelled, Broken, RenameAgain
    <3>2. ASSUME ~\E u \in Fetchers : Begin(u) \/ FetchStep(u)
          PROVE  pc' = pc /\ done' = done
      BY <1>3, <3>2 DEF Next, OpenOwn, OpenShared, Load, Close, Remove, Republish, vars, request
    <3> QED
      BY <3>1, <3>2
  <2>2. StepsAhead(t)' = StepsAhead(t)
    BY <2>1 DEF StepsAhead
  <2> QED
    BY <1>1, <2>2
<1> QED
  BY <1>2, <1>3

\* A fetch that has begun takes no more than Size + 6 steps, whatever the server
\* answers and whatever other fetches, readers and removals do meanwhile to the
\* file it writes.  What FetchEnds says besides, that the steps are taken, rests
\* on fairness.
THEOREM FetchRunsOut == Spec => [][\A t \in Fetchers : Nearer(t)]_vars
<1>1. ASSUME TypeOK, Next, NEW t \in Fetchers
      PROVE  Nearer(t)
  <2>1. StepsAhead(t) \in 0..(Size + 6) /\ (pc[t] # "idle" => StepsAhead(t) # 0) /\ Size \in Nat
    BY <1>1, AheadRange, FetchAssumption
  <2>2. FetchStep(t) => StepsAhead(t)' < StepsAhead(t)
    BY <1>1, StepNearer
  <2>3. ~Begin(t) /\ ~FetchStep(t) => StepsAhead(t)' <= StepsAhead(t)
    BY <1>1, OthersNearer
  <2> QED
    BY <2>1, <2>2, <2>3 DEF Nearer
<1>2. TypeOK /\ [Next]_vars => [\A t \in Fetchers : Nearer(t)]_vars
  BY <1>1
<1> QED
  BY <1>2, TypeCorrect, PTL DEF Spec
===============================================================================
