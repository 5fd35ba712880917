------------------------ MODULE StorageRegistryProofs ------------------------
(***************************************************************************)
(* For any number of disks and table entries, and any limits of which the  *)
(* one on block devices is the smaller, no registry ever points to what    *)
(* was freed.  The reason is a fact about lengths: each partition that is  *)
(* registered comes with a block device that is, so the registry of        *)
(* partitions cannot be full while the other has room.                     *)
(***************************************************************************)
EXTENDS StorageRegistry, FiniteSetTheorems, TLAPS

Shorter == Len(partitions) <= Len(blockDevices)

IInv == TypeOK /\ Shorter /\ NoDangling /\ PartitionsHaveDevices

\* s is r with x at its end if r was shorter than max, and r if it was not.
IsAdd(s, r, x, max) ==
    /\ s \in Seq(Objects) /\ Len(s) <= max
    /\ Len(r) = max => s = r
    /\ Len(r) < max => /\ Len(s) = Len(r) + 1
                       /\ \A i \in 1 .. Len(r) : s[i] = r[i]
                       /\ s[Len(r) + 1] = x

\* What Add does, whether the registry has room or not.
LEMMA AddProps ==
  ASSUME NEW r \in Seq(Objects), NEW x \in Objects, NEW max \in Nat, Len(r) <= max
  PROVE  IsAdd(Add(r, x, max), r, x, max)
<1>0. Len(r) \in Nat
  OBVIOUS
<1>1. CASE Len(r) < max
  <2>1. Add(r, x, max) = Append(r, x)
    BY <1>1 DEF Add
  <2>2. /\ Append(r, x) \in Seq(Objects)
        /\ Len(Append(r, x)) = Len(r) + 1
        /\ \A i \in 1 .. Len(r) : Append(r, x)[i] = r[i]
        /\ Append(r, x)[Len(r) + 1] = x
    OBVIOUS
  <2> QED  BY <1>0, <1>1, <2>1, <2>2 DEF IsAdd
<1>2. CASE ~(Len(r) < max)
  <2>1. Add(r, x, max) = r
    BY <1>2 DEF Add
  <2> QED  BY <1>0, <1>2, <2>1 DEF IsAdd
<1> QED  BY <1>1, <1>2

\* What the longer sequence holds: the objects it held, at their places, and x.
LEMMA AddElements ==
  ASSUME NEW r \in Seq(Objects), NEW s \in Seq(Objects), NEW x, NEW max \in Nat,
         IsAdd(s, r, x, max), Len(r) <= max
  PROVE  /\ Len(r) <= Len(s) /\ Len(s) <= Len(r) + 1
         /\ \A i \in DOMAIN r : i \in DOMAIN s /\ s[i] = r[i]
         /\ \A i \in DOMAIN s : s[i] = x \/ (i \in DOMAIN r /\ s[i] = r[i])
<1>1. /\ Len(r) \in Nat /\ DOMAIN r = 1 .. Len(r)
      /\ Len(s) \in Nat /\ DOMAIN s = 1 .. Len(s)
  OBVIOUS
<1>0. Len(r) = max \/ Len(r) < max
  <2>1. Len(r) \in Nat
    OBVIOUS
  <2> QED  BY <2>1
<1>2. CASE Len(r) = max
  <2>1. s = r
    BY <1>2 DEF IsAdd
  <2> QED  BY <1>1, <2>1
<1>3. CASE Len(r) < max
  <2>1. /\ Len(s) = Len(r) + 1
        /\ \A i \in 1 .. Len(r) : s[i] = r[i]
        /\ s[Len(r) + 1] = x
    BY <1>3 DEF IsAdd
  <2>2. ASSUME NEW i \in DOMAIN s
        PROVE  s[i] = x \/ (i \in DOMAIN r /\ s[i] = r[i])
    <3>1. i \in 1 .. Len(r) \/ i = Len(r) + 1
      BY <1>1, <2>1
    <3> QED  BY <1>1, <2>1, <3>1
  <2>3. ASSUME NEW i \in DOMAIN r
        PROVE  i \in DOMAIN s /\ s[i] = r[i]
    BY <1>1, <2>1
  <2> QED  BY <1>1, <2>1, <2>2, <2>3
<1> QED  BY <1>0, <1>2, <1>3

\* Nothing is registered at first.
LEMMA InitIInv == Init => IInv
BY CountAssumption, LimitAssumption
DEF Init, IInv, TypeOK, Shorter, NoDangling, PartitionsHaveDevices, Objects

\* A disk that finds the registry full is in no registry, and does no harm.
LEMMA AddDiskIInv == IInv /\ AddDisk => IInv'
<1> SUFFICES ASSUME IInv, AddDisk PROVE IInv'
  OBVIOUS
<1> DEFINE x == Device(disk, 0)
<1>1. x \in Objects
  BY DEF IInv, TypeOK, Device, Objects, Kind
<1>2. /\ blockDevices' = Add(blockDevices, x, MaxBlockDevices)
      /\ allocated' = allocated \cup {x}
      /\ partitions' = partitions /\ step' = step /\ step = "disks"
      /\ disk' = disk + 1 /\ count' = count + 1
      /\ limit' = limit /\ entry' = entry
  BY DEF AddDisk
<1> HIDE DEF x
<1>3. /\ blockDevices \in Seq(Objects) /\ Len(blockDevices) <= MaxBlockDevices
      /\ MaxBlockDevices \in Nat
  BY LimitAssumption DEF IInv, TypeOK
<1>4. IsAdd(blockDevices', blockDevices, x, MaxBlockDevices)
  BY <1>1, <1>2, <1>3, AddProps
<1>5. blockDevices' \in Seq(Objects) /\ Len(blockDevices') <= MaxBlockDevices
  BY <1>4 DEF IsAdd
<1>6. /\ Len(blockDevices) <= Len(blockDevices')
      /\ \A i \in DOMAIN blockDevices :
           i \in DOMAIN blockDevices' /\ blockDevices'[i] = blockDevices[i]
      /\ \A i \in DOMAIN blockDevices' :
           blockDevices'[i] = x \/ (i \in DOMAIN blockDevices /\ blockDevices'[i] = blockDevices[i])
  BY <1>3, <1>4, <1>5, AddElements
<1>7. Len(partitions) \in Nat /\ Len(blockDevices) \in Nat /\ Len(blockDevices') \in Nat
  BY <1>3, <1>5 DEF IInv, TypeOK
<1>8. TypeOK'
  BY <1>1, <1>2, <1>5 DEF IInv, TypeOK
<1>9. Shorter'
  BY <1>2, <1>6, <1>7 DEF IInv, Shorter
<1>10. NoDangling'
  BY <1>2, <1>6 DEF IInv, NoDangling
<1>11. PartitionsHaveDevices'
  BY <1>2, <1>6 DEF IInv, PartitionsHaveDevices
<1> QED  BY <1>8, <1>9, <1>10, <1>11 DEF IInv

\* A table entry: its device and its partition are registered together or not
\* at all.
LEMMA AddEntryIInv == IInv /\ AddEntry => IInv'
<1> SUFFICES ASSUME IInv, AddEntry PROVE IInv'
  OBVIOUS
<1> DEFINE d    == blockDevices[disk][2]
           dev  == Device(d, entry)
           part == Partition(d, entry)
<1>1. dev \in Objects /\ part \in Objects
  <2>1. blockDevices[disk] \in Objects
    BY DEF IInv, TypeOK, AddEntry
  <2>2. d \in Nat
    BY <2>1 DEF Objects
  <2> QED  BY <2>2 DEF IInv, TypeOK, Objects, Kind, Device, Partition
<1>2. part[2] = dev[2] /\ part[3] = dev[3] /\ dev = Device(part[2], part[3])
  BY DEF Device, Partition
<1>3. /\ blockDevices' = Registered(dev, part).devices
      /\ partitions' = Registered(dev, part).parts
      /\ allocated' = IF Registered(dev, part).ok THEN allocated \cup {dev, part}
                      ELSE allocated
      /\ count' = Counted(Registered(dev, part).ok)
      /\ entry' = entry + 1 /\ step' = step /\ disk' = disk /\ limit' = limit
  BY DEF AddEntry
<1> HIDE DEF dev, part
<1>4. /\ blockDevices \in Seq(Objects) /\ partitions \in Seq(Objects)
      /\ Len(blockDevices) \in Nat /\ Len(partitions) \in Nat
      /\ Len(blockDevices) <= MaxBlockDevices /\ Len(partitions) <= MaxPartitions
      /\ Len(partitions) <= Len(blockDevices)
      /\ MaxBlockDevices \in Nat /\ MaxPartitions \in Nat
      /\ MaxBlockDevices <= MaxPartitions
  BY LimitAssumption DEF IInv, TypeOK, Shorter
<1>5. count' \in Nat /\ entry' \in Nat
  BY <1>3 DEF IInv, TypeOK, Counted
<1>6. CASE Len(blockDevices) < MaxBlockDevices
  <2>1. Len(partitions) < MaxPartitions
    BY <1>4, <1>6
  <2>2. /\ blockDevices' = Add(blockDevices, dev, MaxBlockDevices)
        /\ partitions' = Add(partitions, part, MaxPartitions)
        /\ allocated' = allocated \cup {dev, part}
    BY <1>3, <1>6, <2>1 DEF Registered
  <2>3. /\ IsAdd(blockDevices', blockDevices, dev, MaxBlockDevices)
        /\ IsAdd(partitions', partitions, part, MaxPartitions)
    BY <1>1, <1>4, <2>2, AddProps
  <2>4. /\ blockDevices' \in Seq(Objects) /\ Len(blockDevices') <= MaxBlockDevices
        /\ Len(blockDevices') = Len(blockDevices) + 1
        /\ blockDevices'[Len(blockDevices) + 1] = dev
        /\ partitions' \in Seq(Objects) /\ Len(partitions') <= MaxPartitions
        /\ Len(partitions') = Len(partitions) + 1
    BY <1>6, <2>1, <2>3 DEF IsAdd
  <2>5. /\ \A i \in DOMAIN blockDevices :
             i \in DOMAIN blockDevices' /\ blockDevices'[i] = blockDevices[i]
        /\ \A i \in DOMAIN blockDevices' :
             \/ blockDevices'[i] = dev
             \/ i \in DOMAIN blockDevices /\ blockDevices'[i] = blockDevices[i]
    BY <1>4, <2>3, <2>4, AddElements
  <2>6. Len(blockDevices) + 1 \in DOMAIN blockDevices'
    BY <1>4, <2>4
  <2>7. \A i \in DOMAIN partitions' :
          partitions'[i] = part \/ (i \in DOMAIN partitions /\ partitions'[i] = partitions[i])
    BY <1>4, <2>3, <2>4, AddElements
  <2>8. TypeOK'
    BY <1>1, <1>3, <1>4, <1>5, <2>2, <2>4 DEF IInv, TypeOK
  <2>9. Shorter'
    BY <1>4, <2>4 DEF Shorter
  <2>10. NoDangling'
    BY <2>2, <2>5, <2>7 DEF IInv, NoDangling
  <2>11. PartitionsHaveDevices'
    <3> SUFFICES ASSUME NEW i \in DOMAIN partitions'
                 PROVE  \E j \in DOMAIN blockDevices' :
                          blockDevices'[j] = Device(partitions'[i][2], partitions'[i][3])
      BY DEF PartitionsHaveDevices
    <3>1. CASE partitions'[i] = part
      BY <1>2, <2>4, <2>6, <3>1
    <3>2. CASE i \in DOMAIN partitions /\ partitions'[i] = partitions[i]
      BY <2>5, <3>2 DEF IInv, PartitionsHaveDevices
    <3> QED  BY <2>7, <3>1, <3>2
  <2> QED  BY <2>8, <2>9, <2>10, <2>11 DEF IInv
<1>7. CASE ~(Len(blockDevices) < MaxBlockDevices)
  <2>1. /\ blockDevices' = blockDevices /\ partitions' = partitions
        /\ allocated' = allocated
    BY <1>3, <1>7 DEF Registered, Add
  <2> QED
    BY <1>3, <1>5, <2>1 DEF IInv, TypeOK, Shorter, NoDangling, PartitionsHaveDevices
<1> QED  BY <1>6, <1>7

\* The other steps leave the registries alone.
LEMMA ScanIInv ==
  ASSUME IInv, StartScan \/ NoScheme \/ Probe \/ SkipEntry \/ EndEntries \/ EndScan
  PROVE  IInv'
<1>1. UNCHANGED <<blockDevices, partitions, allocated>>
  BY DEF StartScan, NoScheme, Probe, SkipEntry, EndEntries, EndScan
<1>2. Len(blockDevices) \in Nat
  BY DEF IInv, TypeOK
<1>3. TypeOK'
  BY <1>1, <1>2
  DEF IInv, TypeOK, StartScan, NoScheme, Probe, SkipEntry, EndEntries, EndScan
<1>4. Shorter' /\ NoDangling' /\ PartitionsHaveDevices'
  BY <1>1 DEF IInv, Shorter, NoDangling, PartitionsHaveDevices
<1> QED  BY <1>3, <1>4 DEF IInv

LEMMA StepIInv == IInv /\ [Next]_vars => IInv'
<1> SUFFICES ASSUME IInv, [Next]_vars PROVE IInv'
  OBVIOUS
<1>1. CASE AddDisk
  BY <1>1, AddDiskIInv
<1>2. CASE AddEntry
  BY <1>2, AddEntryIInv
<1>3. CASE StartScan \/ NoScheme \/ Probe \/ SkipEntry \/ EndEntries \/ EndScan
  BY <1>3, ScanIInv
<1>4. CASE UNCHANGED vars
  BY <1>4 DEF vars, IInv, TypeOK, Shorter, NoDangling, PartitionsHaveDevices
<1> QED  BY <1>1, <1>2, <1>3, <1>4 DEF Next

\* The invariant holds throughout the scan.
THEOREM SpecIInv == Spec => []IInv
BY InitIInv, StepIInv, PTL DEF Spec

\* No registry of block.c or partition.c ever holds a pointer that gpt.c or
\* mbr.c freed: this rests on MAX_BLOCK_DEVICES <= MAX_PARTITIONS.
THEOREM RegistriesLive == Spec => []NoDangling
<1>1. IInv => NoDangling
  BY DEF IInv
<1> QED  BY <1>1, SpecIInv, PTL

\* No registry of block.c or partition.c ever has more than its limit.
THEOREM RegistriesTyped == Spec => []TypeOK
<1>1. IInv => TypeOK
  BY DEF IInv
<1> QED  BY <1>1, SpecIInv, PTL

\* Every registered partition's block device is registered.
THEOREM PartitionsPaired == Spec => []PartitionsHaveDevices
<1>1. IInv => PartitionsHaveDevices
  BY DEF IInv
<1> QED  BY <1>1, SpecIInv, PTL

-----------------------------------------------------------------------------
(* What register_blocks reports.  ReportsHold is not inductive: that the     *)
(* partitions of a disk are complete when it is reported needs that the scan *)
(* goes through the disks in order, each of them once, and that what the     *)
(* controller counts is what it has registered so far.                       *)

\* The partitions of disk d in a registry p.
PartsOf(p, d) == {i \in DOMAIN p : p[i][2] = d}

\* Disks are registered in order, before anything else is.
DisksFirst ==
    /\ step = "disks" =>
         /\ partitions = <<>> /\ reported = <<>>
         /\ \A i \in DOMAIN blockDevices : blockDevices[i] = Device(i, 0)
         /\ Len(blockDevices) < MaxBlockDevices => Len(blockDevices) = disk - 1
    /\ step # "disks" =>
         /\ limit <= Len(blockDevices)
         /\ \A i \in 1 .. limit : blockDevices[i] = Device(i, 0)

\* One report for each disk that was scanned; partitions are those of the disks
\* reported and of the one the controller is at.
ScanInOrder ==
    /\ reported \in Seq(Int) /\ Len(reported) <= limit
    /\ step \in {"probe", "entries"} => Len(reported) = disk - 1 /\ disk <= limit + 1
    /\ \A i \in DOMAIN partitions :
         \/ partitions[i][2] \in 1 .. Len(reported)
         \/ step = "entries" /\ partitions[i][2] = disk

\* The count is of the partitions of the disk the controller is at.
CountHolds == step = "entries" => count = Cardinality(PartsOf(partitions, disk))

\* ReportsHold, for disks that have their own number.
Reports ==
    \A k \in 1 .. Len(reported) : reported[k] # -1 => reported[k] = Cardinality(PartsOf(partitions, k))

RInv == IInv /\ DisksFirst /\ ScanInOrder /\ CountHolds /\ Reports

\* A disk has finitely many partitions.
LEMMA PartsFinite ==
  ASSUME NEW p \in Seq(Objects), NEW d
  PROVE  IsFiniteSet(PartsOf(p, d)) /\ Cardinality(PartsOf(p, d)) \in Nat
<1>1. DOMAIN p = 1 .. Len(p) /\ Len(p) \in Nat
  OBVIOUS
<1>2. IsFiniteSet(1 .. Len(p))
  BY <1>1, FS_Interval
<1>3. IsFiniteSet(PartsOf(p, d))
  BY <1>1, <1>2, FS_Subset DEF PartsOf
<1> QED  BY <1>3, FS_CardinalityType

\* One partition more is one more of its disk, and of no other.
LEMMA PartsAppend ==
  ASSUME NEW p \in Seq(Objects), NEW x \in Objects
  PROVE  /\ Cardinality(PartsOf(Append(p, x), x[2])) = Cardinality(PartsOf(p, x[2])) + 1
         /\ \A d : d # x[2] => PartsOf(Append(p, x), d) = PartsOf(p, d)
<1> DEFINE n == Len(p) + 1
           q == Append(p, x)
<1>1. /\ DOMAIN p = 1 .. Len(p) /\ Len(p) \in Nat
      /\ DOMAIN q = DOMAIN p \cup {n}
      /\ q[n] = x /\ n \notin DOMAIN p
      /\ \A i \in DOMAIN p : q[i] = p[i]
  OBVIOUS
<1> HIDE DEF q, n
<1>2. PartsOf(q, x[2]) = PartsOf(p, x[2]) \cup {n} /\ n \notin PartsOf(p, x[2])
  BY <1>1 DEF PartsOf
<1>3. Cardinality(PartsOf(q, x[2])) = Cardinality(PartsOf(p, x[2])) + 1
  BY <1>2, PartsFinite, FS_AddElement
<1>4. ASSUME NEW d, d # x[2] PROVE PartsOf(q, d) = PartsOf(p, d)
  BY <1>1, <1>4 DEF PartsOf
<1> QED  BY <1>3, <1>4 DEF q

LEMMA InitRInv == Init => RInv
<1> SUFFICES ASSUME Init PROVE RInv
  OBVIOUS
<1>1. IInv
  BY InitIInv
<1>2. DisksFirst /\ ScanInOrder /\ CountHolds /\ Reports
  BY DEF Init, DisksFirst, ScanInOrder, CountHolds, Reports
<1> QED  BY <1>1, <1>2 DEF RInv

\* The registry takes the disks in the order of their numbers until it is full.
LEMMA AddDiskRInv ==
  ASSUME RInv, AddDisk, IInv' PROVE RInv'
<1>1. /\ step = "disks" /\ step' = "disks" /\ disk' = disk + 1
      /\ blockDevices' = Add(blockDevices, Device(disk, 0), MaxBlockDevices)
      /\ UNCHANGED <<partitions, limit, entry, reported>>
  BY DEF AddDisk
<1>2. /\ blockDevices \in Seq(Objects) /\ Len(blockDevices) \in Nat
      /\ disk \in Nat \ {0} /\ MaxBlockDevices \in Nat
  BY LimitAssumption DEF RInv, IInv, TypeOK
<1>3. DisksFirst'
  <2>1. CASE Len(blockDevices) < MaxBlockDevices
    <3>1. blockDevices' = Append(blockDevices, Device(disk, 0))
      BY <1>1, <2>1 DEF Add
    <3>2. Len(blockDevices) = disk - 1
      BY <1>1, <2>1 DEF RInv, DisksFirst
    <3>3. /\ Len(blockDevices') = disk
          /\ \A i \in DOMAIN blockDevices' :
               \/ i \in DOMAIN blockDevices /\ blockDevices'[i] = blockDevices[i]
               \/ i = disk /\ blockDevices'[i] = Device(disk, 0)
      BY <1>2, <3>1, <3>2
    <3> QED  BY <1>1, <1>2, <3>3 DEF RInv, DisksFirst
  <2>2. CASE ~(Len(blockDevices) < MaxBlockDevices)
    <3>1. blockDevices' = blockDevices
      BY <1>1, <2>2 DEF Add
    <3> QED  BY <1>1, <2>2, <3>1 DEF RInv, DisksFirst
  <2> QED  BY <2>1, <2>2
<1>4. ScanInOrder' /\ CountHolds' /\ Reports'
  BY <1>1 DEF RInv, ScanInOrder, CountHolds, Reports, PartsOf, DisksFirst
<1> QED  BY <1>3, <1>4 DEF RInv

\* A partition that both registries take is counted, one that either refuses is
\* neither counted nor in the registry of partitions.
LEMMA AddEntryRInv ==
  ASSUME RInv, AddEntry, IInv' PROVE RInv'
<1> DEFINE dev  == Device(disk, entry)
           part == Partition(disk, entry)
<1>0. /\ step = "entries" /\ step' = "entries" /\ disk \in 1 .. limit
      /\ UNCHANGED <<disk, limit, reported>>
      /\ disk \in Nat /\ entry \in Nat /\ limit \in Nat /\ count \in Nat
      /\ Len(blockDevices) \in Nat /\ limit <= Len(blockDevices)
      /\ Len(blockDevices) <= MaxBlockDevices /\ MaxBlockDevices \in Nat
      /\ blockDevices \in Seq(Objects) /\ partitions \in Seq(Objects)
  BY LimitAssumption DEF AddEntry, RInv, IInv, TypeOK
<1>1. blockDevices[disk][2] = disk
  BY <1>0 DEF RInv, DisksFirst, Device
<1>2. /\ blockDevices' = Registered(dev, part).devices
      /\ partitions' = Registered(dev, part).parts
      /\ count' = Counted(Registered(dev, part).ok)
  BY <1>1 DEF AddEntry
<1>3. dev \in Objects /\ part \in Objects /\ part[2] = disk
  BY <1>0 DEF Objects, Kind, Device, Partition
<1> HIDE DEF dev, part
<1>4. DisksFirst'
  <2>1. blockDevices' = Add(blockDevices, dev, MaxBlockDevices)
    BY <1>2 DEF Registered
  <2>2. IsAdd(blockDevices', blockDevices, dev, MaxBlockDevices)
    BY <1>0, <1>3, <2>1, AddProps
  <2>3. blockDevices' \in Seq(Objects)
    BY <2>2 DEF IsAdd
  <2>4. /\ Len(blockDevices) <= Len(blockDevices')
        /\ \A i \in DOMAIN blockDevices : blockDevices'[i] = blockDevices[i]
    BY <1>0, <2>2, <2>3, AddElements
  <2>5. 1 .. limit \subseteq DOMAIN blockDevices /\ Len(blockDevices') \in Nat
    BY <1>0, <2>3
  <2> QED  BY <1>0, <2>4, <2>5 DEF RInv, DisksFirst
<1>5. CASE partitions' = Append(partitions, part) /\ count' = count + 1
  <2>1. /\ Cardinality(PartsOf(partitions', disk)) = Cardinality(PartsOf(partitions, disk)) + 1
        /\ \A d : d # disk => PartsOf(partitions', d) = PartsOf(partitions, d)
    BY <1>0, <1>3, <1>5, PartsAppend
  <2>2. CountHolds'
    BY <1>0, <1>5, <2>1 DEF RInv, CountHolds
  <2>3. Reports'
    <3>1. \A k \in 1 .. Len(reported) : PartsOf(partitions', k) = PartsOf(partitions, k)
      BY <1>0, <2>1 DEF RInv, ScanInOrder
    <3> QED  BY <1>0, <3>1 DEF RInv, Reports
  <2>4. ScanInOrder'
    <3>1. \A i \in DOMAIN partitions' :
            \/ partitions'[i] = part
            \/ i \in DOMAIN partitions /\ partitions'[i] = partitions[i]
      BY <1>0, <1>5
    <3> QED  BY <1>0, <1>3, <3>1 DEF RInv, ScanInOrder
  <2> QED  BY <1>4, <2>2, <2>3, <2>4 DEF RInv
<1>6. CASE partitions' = partitions /\ count' = count
  BY <1>0, <1>4, <1>6 DEF RInv, ScanInOrder, CountHolds, Reports, PartsOf
<1>7. \/ partitions' = Append(partitions, part) /\ count' = count + 1
      \/ partitions' = partitions /\ count' = count
  BY <1>2 DEF Registered, Add, Counted
<1> QED  BY <1>5, <1>6, <1>7

\* The steps of the scan that register nothing.
LEMMA ScanRInv ==
  ASSUME RInv, StartScan \/ NoScheme \/ Probe \/ SkipEntry \/ EndEntries \/ EndScan, IInv'
  PROVE  RInv'
<1>1. UNCHANGED <<blockDevices, partitions>> 
  BY DEF StartScan, NoScheme, Probe, SkipEntry, EndEntries, EndScan, PartsOf
<1>2. /\ disk \in Nat \ {0} /\ limit \in Nat /\ count \in Nat /\ Len(blockDevices) \in Nat
      /\ DOMAIN blockDevices = 1 .. Len(blockDevices)
  BY DEF RInv, IInv, TypeOK
<1>3. reported \in Seq(Int) /\ Len(reported) \in Nat /\ Len(reported) <= limit
  BY DEF RInv, ScanInOrder
<1>4. CASE StartScan
  BY <1>1, <1>2, <1>3, <1>4
  DEF StartScan, RInv, DisksFirst, ScanInOrder, CountHolds, Reports
<1>5. CASE NoScheme
  <2>1. /\ step = "probe" /\ step' = "probe" /\ disk <= limit /\ disk' = disk + 1
        /\ reported' = Append(reported, -1) /\ limit' = limit
    BY <1>5 DEF NoScheme
  <2>2. /\ Len(reported') = Len(reported) + 1 /\ reported' \in Seq(Int)
        /\ \A k \in 1 .. Len(reported') :
             \/ reported'[k] = -1
             \/ k \in 1 .. Len(reported) /\ reported'[k] = reported[k]
    BY <1>3, <2>1
  <2> QED
    BY <1>1, <1>2, <1>3, <2>1, <2>2 DEF RInv, DisksFirst, ScanInOrder, CountHolds, Reports
<1>6. CASE Probe
  <2>1. /\ step = "probe" /\ step' = "entries" /\ disk <= limit /\ count' = 0
        /\ UNCHANGED <<disk, limit, reported>>
    BY <1>6 DEF Probe
  <2>2. PartsOf(partitions, disk) = {}
    BY <1>2, <2>1 DEF RInv, ScanInOrder, PartsOf
  <2>3. CountHolds'
    BY <1>1, <2>1, <2>2, FS_EmptySet DEF CountHolds
  <2> QED
    BY <1>1, <2>1, <2>3 DEF RInv, DisksFirst, ScanInOrder, Reports
<1>7. CASE SkipEntry
  BY <1>1, <1>7 DEF SkipEntry, RInv, DisksFirst, ScanInOrder, CountHolds, Reports
<1>8. CASE EndEntries
  <2>1. /\ step = "entries" /\ step' = "probe" /\ disk <= limit /\ disk' = disk + 1
        /\ reported' = Append(reported, count) /\ limit' = limit
    BY <1>8 DEF EndEntries, RInv, IInv, TypeOK
  <2>2. Len(reported) = disk - 1 /\ count = Cardinality(PartsOf(partitions, disk))
    BY <2>1 DEF RInv, ScanInOrder, CountHolds
  <2>3. /\ Len(reported') = Len(reported) + 1 /\ reported' \in Seq(Int)
        /\ \A k \in 1 .. Len(reported') :
             \/ k = disk /\ reported'[k] = count
             \/ k \in 1 .. Len(reported) /\ reported'[k] = reported[k]
    BY <1>2, <1>3, <2>1, <2>2
  <2> QED
    BY <1>1, <1>2, <1>3, <2>1, <2>2, <2>3
    DEF RInv, DisksFirst, ScanInOrder, CountHolds, Reports
<1>9. CASE EndScan
  BY <1>1, <1>9 DEF EndScan, RInv, DisksFirst, ScanInOrder, CountHolds, Reports
<1> QED  BY <1>4, <1>5, <1>6, <1>7, <1>8, <1>9

\* The disks with their own numbers are those reported.
LEMMA ReportsFollow == RInv => ReportsHold
<1> SUFFICES ASSUME RInv, NEW k \in DOMAIN reported, reported[k] # -1
             PROVE  reported[k] = Cardinality({i \in DOMAIN partitions :
                                                  partitions[i][2] = blockDevices[k][2]})
  BY DEF ReportsHold
<1>1. k \in 1 .. Len(reported) /\ k \in 1 .. limit
  BY DEF RInv, ScanInOrder, IInv, TypeOK
<1>2. step # "disks"
  BY <1>1 DEF RInv, DisksFirst
<1>3. blockDevices[k][2] = k
  BY <1>1, <1>2 DEF RInv, DisksFirst, Device
<1> QED  BY <1>1, <1>3 DEF RInv, Reports, PartsOf

\* register_blocks (gpt.c, mbr.c) returns how many of the disk's partitions are
\* registered, for any number of disks and entries, also when a registry fills
\* up on the way.
THEOREM ReportsTrue == Spec => []ReportsHold
<1>1. RInv /\ [Next]_vars => RInv'
  <2> SUFFICES ASSUME RInv, [Next]_vars PROVE RInv'
    OBVIOUS
  <2>1. IInv'
    BY StepIInv DEF RInv
  <2>2. CASE AddDisk
    BY <2>1, <2>2, AddDiskRInv
  <2>3. CASE AddEntry
    BY <2>1, <2>3, AddEntryRInv
  <2>4. CASE StartScan \/ NoScheme \/ Probe \/ SkipEntry \/ EndEntries \/ EndScan
    BY <2>1, <2>4, ScanRInv
  <2>5. CASE UNCHANGED vars
    BY <2>1, <2>5 DEF vars, RInv, DisksFirst, ScanInOrder, CountHolds, Reports, PartsOf
  <2> QED  BY <2>2, <2>3, <2>4, <2>5 DEF Next
<1> QED  BY <1>1, InitRInv, ReportsFollow, PTL DEF Spec
=============================================================================
