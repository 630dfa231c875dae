---------------------------- MODULE ConfigProofs ----------------------------
(***************************************************************************)
(* Proofs about Config, for any files and any number of loads.  Everything *)
(* is shown of one call, so that the modules that extend Config can use    *)
(* the lemmas with their own next-state relations.                         *)
(***************************************************************************)
EXTENDS Config, TLAPS, FiniteSetTheorems, WellFoundedInduction,
        SequenceTheorems

USE DEF Null

BlockType == [live : BOOLEAN, devices : Seq(Device)]

\* The current block is what the last file that loaded describes.
CurrentIsFile ==
    Live(deviceConfiguration) =>
        /\ file \in Files
        /\ Accepted(file)
        /\ Matched(file)
        /\ blocks[deviceConfiguration].devices = Configured(file)
        /\ deviceConfigurationSize = Len(file.devices)

\* The ids of the devices of a block count from 0.
IdsCount ==
    \A b \in DOMAIN blocks : blocks[b].live =>
        \A i \in DOMAIN blocks[b].devices :
            blocks[b].devices[i].device_id = i - 1

\* A block that is connectable was freed by a load that allocated none.
ConnectableLive ==
    \A m \in DOMAIN connectableDevices :
        LET c == connectableDevices[m] IN
        IF blocks[c[1]].live THEN c[2] \in DOMAIN blocks[c[1]].devices
                             ELSE Len(blocks) < loads

\* No pointer is in the list twice.
ConnectableOnce ==
    \A m, n \in DOMAIN connectableDevices :
        connectableDevices[m] = connectableDevices[n] => m = n

\* The inductive invariant.
ConfigInv ==
    /\ ConfigTypeOK
    /\ Len(blocks) <= loads
    /\ CurrentIsFile
    /\ IdsCount
    /\ ConnectableLive
    /\ ConnectableOnce

-----------------------------------------------------------------------------
(* What a file that is accepted and matched describes.                     *)

Less == {p \in Nat \X Nat : p[1] < p[2]}

\* A set of positions that has a member has a last one.
LEMMA LastExists ==
    ASSUME NEW n \in Nat, NEW J \in SUBSET (1 .. n), J # {}
    PROVE  \E j \in J : \A other \in J : other <= j
  <1> DEFINE T == {n - j : j \in J}
  <1>1. IsWellFoundedOn(Less, Nat)
    BY NatLessThanWellFounded DEF OpToRel, Less
  <1>2. T \subseteq Nat /\ T # {}
    <2>1. \A j \in J : n - j \in Nat
      OBVIOUS
    <2>2. QED
      BY <2>1, Zenon
  <1> HIDE DEF T
  <1>3. PICK x \in T : \A y \in T : <<y, x>> \notin Less
    BY <1>1, <1>2, WFMin
  <1>4. PICK j \in J : x = n - j
    BY DEF T
  <1>5. \A other \in J : ~(n - other < n - j)
    <2> TAKE other \in J
    <2>1. n - other \in T
      BY DEF T
    <2>2. <<n - other, x>> \notin Less
      BY <1>3, <2>1
    <2>3. n - other \in Nat /\ x \in Nat
      BY <1>2, <2>1
    <2>4. QED
      BY <1>4, <2>2, <2>3 DEF Less
  <1>6. \A other \in J : other <= j
    BY <1>5
  <1>7. QED
    BY <1>6

DeviceSection == [name : Option, resolution : Int]
OutputSection == [source : Option, type : Option, filename : Option]

LEMMA FileType ==
    ASSUME NEW f \in Files
    PROVE  /\ f.devices \in Seq(DeviceSection)
           /\ DOMAIN f.devices = 1 .. Len(f.devices) /\ Len(f.devices) \in Nat
           /\ \A i \in DOMAIN f.devices : f.devices[i] \in DeviceSection
           /\ f.outputs \in Seq(OutputSection)
           /\ DOMAIN f.outputs = 1 .. Len(f.outputs) /\ Len(f.outputs) \in Nat
           /\ \A j \in DOMAIN f.outputs : f.outputs[j] \in OutputSection
  <1>1. f.devices \in Seq(DeviceSection) /\ f.outputs \in Seq(OutputSection)
    BY ConfigAssumption DEF DeviceSection, OutputSection
  <1>2. QED
    BY <1>1

LEMMA OutputOfIsOutput ==
    ASSUME NEW f \in Files, Matched(f), NEW i \in DOMAIN f.devices
    PROVE  \E j \in OutputsFor(f, i) : OutputOf(f, i) = f.outputs[j]
  <1> DEFINE J == OutputsFor(f, i)
             IsLast(j) == \A other \in J : other <= j
  <1>1. J # {} /\ J \in SUBSET (1 .. Len(f.outputs)) /\ Len(f.outputs) \in Nat
    BY FileType DEF Matched, OutputsFor
  <1>2. \E j \in J : IsLast(j)
    BY <1>1, LastExists
  <1>3. (CHOOSE j \in J : IsLast(j)) \in J
    BY <1>2
  <1>4. QED
    BY <1>3 DEF OutputOf

\* The devices of a block have the types the block declares.
LEMMA ConfiguredType ==
    ASSUME NEW f \in Files, Accepted(f), Matched(f)
    PROVE  /\ Configured(f) \in Seq(Device)
           /\ Len(Configured(f)) = Len(f.devices)
           /\ \A i \in DOMAIN f.devices : Configured(f)[i].device_id = i - 1
  <1> DEFINE n == Len(f.devices)
  <1>1. n \in Nat /\ DOMAIN f.devices = 1 .. n
    BY FileType
  <1>2. ASSUME NEW i \in 1 .. n PROVE Configured(f)[i] \in Device
    <2>1. PICK j \in DOMAIN f.outputs : OutputOf(f, i) = f.outputs[j]
      BY <1>1, OutputOfIsOutput DEF OutputsFor
    <2>2. f.outputs[j] \in OutputSection
      BY FileType
    <2>3. f.outputs[j].type # Unset /\ f.outputs[j].filename # Unset
      BY DEF Accepted, Valid
    <2>4. OutputOf(f, i).type \in STRING /\ OutputOf(f, i).filename \in STRING
      BY <2>1, <2>2, <2>3 DEF Option, OutputSection
    <2>5. f.devices[i] \in DeviceSection
      BY <1>1, FileType
    <2>6. f.devices[i].name \in STRING /\ f.devices[i].resolution \in Int
      BY <1>1, <2>5 DEF Accepted, Valid, Option, DeviceSection
    <2>7. QED
      BY <1>1, <2>4, <2>6 DEF Configured, Device
  <1>3. Configured(f) \in [1 .. n -> Device]
    BY <1>1, <1>2 DEF Configured
  <1>4. QED
    BY <1>1, <1>3 DEF Configured

\* Distinct names and as many outputs as devices: each output has its device,
\* and the device has no other output.
LEMMA OutputsExact ==
    ASSUME NEW f \in Files, Accepted(f), Matched(f),
           \A i, j \in DOMAIN f.devices :
              f.devices[i].name = f.devices[j].name => i = j
    PROVE  \A j \in DOMAIN f.outputs : \E i \in DOMAIN f.devices :
              f.devices[i].name = f.outputs[j].source
              /\ OutputOf(f, i) = f.outputs[j]
  <1> DEFINE S == DOMAIN f.outputs
             T == DOMAIN f.devices
             owner == [j \in S |-> CHOOSE i \in T :
                          f.outputs[j].source = f.devices[i].name]
  <1>1. IsFiniteSet(S) /\ IsFiniteSet(T) /\ Cardinality(S) = Cardinality(T)
    <2>1. Len(f.outputs) \in Nat /\ Len(f.devices) = Len(f.outputs)
          /\ S = 1 .. Len(f.outputs) /\ T = 1 .. Len(f.devices)
      BY FileType DEF Accepted
    <2>2. QED
      BY <2>1, FS_Interval
  <1>2. \A j \in S : owner[j] \in T
                     /\ f.outputs[j].source = f.devices[owner[j]].name
    <2> TAKE j \in S
    <2>1. \E i \in T : f.outputs[j].source = f.devices[i].name
      BY DEF Matched, OutputsFor
    <2>2. QED
      BY <2>1
  <1>3. owner \in Surjection(S, T)
    <2>1. owner \in [S -> T]
      BY <1>2
    <2>2. ASSUME NEW i \in T PROVE \E j \in S : owner[j] = i
      <3>1. PICK j \in S : f.outputs[j].source = f.devices[i].name
        BY DEF Matched, OutputsFor
      <3>2. QED
        BY <1>2, <3>1
    <2>3. QED
      BY <2>1, <2>2 DEF Surjection
  <1> HIDE DEF owner, S, T
  <1>4. owner \in Injection(S, T)
    BY <1>1, <1>3, FS_SurjSameCardinalityImpliesInj
  <1>5. \A j, k \in S : owner[j] = owner[k] => j = k
    BY <1>4 DEF Injection, IsInjective
  <1> USE DEF S, T
  <1>6. ASSUME NEW j \in S PROVE OutputOf(f, owner[j]) = f.outputs[j]
    <2>1. PICK k \in OutputsFor(f, owner[j]) :
             OutputOf(f, owner[j]) = f.outputs[k]
      BY <1>2, OutputOfIsOutput
    <2>2. k \in S /\ f.outputs[k].source = f.devices[owner[j]].name
      BY <2>1 DEF OutputsFor
    <2>3. owner[k] = owner[j]
      BY <1>2, <2>2
    <2>4. QED
      BY <1>5, <2>1, <2>2, <2>3
  <1>7. QED
    BY <1>2, <1>6

LEMMA ConfigInvOutputs == ConfigInv => OutputsMatch
  <1> SUFFICES ASSUME ConfigInv, Live(deviceConfiguration),
                      \A i, j \in DOMAIN blocks[deviceConfiguration].devices :
                         blocks[deviceConfiguration].devices[i].device_name
                         = blocks[deviceConfiguration].devices[j].device_name
                         => i = j
               PROVE  \A j \in DOMAIN file.outputs :
                         \E i \in DOMAIN blocks[deviceConfiguration].devices :
                         LET d == blocks[deviceConfiguration].devices[i] IN
                         /\ d.device_name = file.outputs[j].source
                         /\ d.output_type = file.outputs[j].type
                         /\ d.output_filename = file.outputs[j].filename
    BY DEF OutputsMatch
  <1>1. /\ file \in Files /\ Accepted(file) /\ Matched(file)
        /\ blocks[deviceConfiguration].devices = Configured(file)
    BY DEF ConfigInv, CurrentIsFile
  <1>2. DOMAIN Configured(file) = DOMAIN file.devices
    BY DEF Configured
  <1>3. \A i \in DOMAIN file.devices :
           /\ Configured(file)[i].device_name = file.devices[i].name
           /\ Configured(file)[i].output_type = OutputOf(file, i).type
           /\ Configured(file)[i].output_filename = OutputOf(file, i).filename
    BY DEF Configured
  <1>4. \A i, j \in DOMAIN file.devices :
           file.devices[i].name = file.devices[j].name => i = j
    BY <1>1, <1>2, <1>3
  <1>5. QED
    BY <1>1, <1>2, <1>3, <1>4, OutputsExact

LEMMA ConfigInvConnectable == ConfigInv => ConnectableSound
  <1> SUFFICES ASSUME ConfigInv,
                      NEW m \in DOMAIN connectableDevices,
                      NEW n \in DOMAIN connectableDevices
               PROVE  LET c == connectableDevices[m]
                          d == connectableDevices[n] IN
                      /\ Live(c[1]) \/ Len(blocks) < loads
                      /\ (/\ m # n
                          /\ Live(c[1]) /\ Live(d[1])
                          /\ blocks[c[1]].devices[c[2]].device_id
                             = blocks[d[1]].devices[d[2]].device_id)
                         => c[1] # d[1]
    BY DEF ConnectableSound
  <1> DEFINE c == connectableDevices[m]
             d == connectableDevices[n]
  <1>1. /\ c \in (1 .. Len(blocks)) \X (Nat \ {0})
        /\ d \in (1 .. Len(blocks)) \X (Nat \ {0})
    BY DEF ConfigInv, ConfigTypeOK
  <1>2. c = <<c[1], c[2]>> /\ d = <<d[1], d[2]>>
        /\ c[1] \in 1 .. Len(blocks) /\ d[1] \in 1 .. Len(blocks)
        /\ c[2] \in Nat /\ d[2] \in Nat
    BY <1>1
  <1>3. Live(c[1]) \/ Len(blocks) < loads
    BY <1>2 DEF ConfigInv, ConnectableLive, Live
  <1>4. ASSUME m # n, Live(c[1]), Live(d[1]), c[1] = d[1],
               blocks[c[1]].devices[c[2]].device_id
               = blocks[d[1]].devices[d[2]].device_id
        PROVE  FALSE
    <2>1. c[2] \in DOMAIN blocks[c[1]].devices /\ d[2] \in DOMAIN blocks[c[1]].devices
      BY <1>4 DEF ConfigInv, ConnectableLive, Live
    <2>2. DOMAIN blocks = 1 .. Len(blocks)
      BY DEF ConfigInv, ConfigTypeOK
    <2>3. c[2] - 1 = d[2] - 1
      BY <1>2, <1>4, <2>1, <2>2 DEF ConfigInv, IdsCount, Live
    <2>4. c = d
      BY <1>2, <1>4, <2>3
    <2>5. QED
      BY <1>4, <2>4 DEF ConfigInv, ConnectableOnce
  <1>5. QED
    BY <1>3, <1>4

-----------------------------------------------------------------------------
(* The invariant is inductive.                                             *)

LEMMA ConfigInvInit == ConfigInit => ConfigInv
  <1> SUFFICES ASSUME ConfigInit PROVE ConfigInv
    OBVIOUS
  <1>1. 0 \in 0 .. Len(blocks) /\ 0 \in 0 .. MaxLoads /\ Len(blocks) = 0
    BY ConfigAssumption DEF ConfigInit
  <1>2. ConfigTypeOK
    BY <1>1 DEF ConfigInit, ConfigTypeOK
  <1>3. QED
    BY <1>1, <1>2 DEF ConfigInit, ConfigInv, CurrentIsFile, IdsCount, Live,
                      ConnectableLive, ConnectableOnce

\* A load that fails early: only the current block may change, and it dies.
LEMMA RejectedKeepsInv ==
    ASSUME ConfigInv, NEW f \in Files, AddDevices(f), LoadRejected(f)
    PROVE  ConfigInv'
  <1> USE DEF ConfigInv
  <1>1. loads' = loads + 1 /\ loads' \in 0 .. MaxLoads /\ loads \in Nat
    BY ConfigAssumption DEF AddDevices, ConfigTypeOK
  <1>2. UNCHANGED <<deviceConfiguration, deviceConfigurationSize,
                    connectableDevices, file>>
    BY DEF LoadRejected
  <1>3. CASE Live(deviceConfiguration)
    <2>1. blocks' = [blocks EXCEPT ![deviceConfiguration] = FreedBlock]
      BY <1>3 DEF LoadRejected
    <2>2. deviceConfiguration \in 1 .. Len(blocks) /\ blocks \in Seq(BlockType)
      BY <1>3 DEF ConfigTypeOK, Live, BlockType
    <2>3. FreedBlock \in BlockType
      BY DEF FreedBlock, BlockType
    <2>4. blocks' \in Seq(BlockType) /\ Len(blocks') = Len(blocks)
          /\ DOMAIN blocks' = DOMAIN blocks
      BY <2>1, <2>2, <2>3
    <2>5. \A b \in DOMAIN blocks :
             blocks'[b] = IF b = deviceConfiguration THEN FreedBlock ELSE blocks[b]
      BY <2>1
    <2>6. ConfigTypeOK'
      BY <1>1, <1>2, <2>4 DEF ConfigTypeOK, BlockType
    <2>7. ~blocks'[deviceConfiguration].live
      BY <2>2, <2>5 DEF FreedBlock
    <2>8. CurrentIsFile'
      BY <1>2, <2>7 DEF CurrentIsFile, Live
    <2>9. IdsCount'
      BY <2>4, <2>5 DEF IdsCount, FreedBlock
    <2>10. ConnectableLive'
      <3> SUFFICES ASSUME NEW m \in DOMAIN connectableDevices
                   PROVE  LET c == connectableDevices[m] IN
                          IF blocks'[c[1]].live
                          THEN c[2] \in DOMAIN blocks'[c[1]].devices
                          ELSE Len(blocks') < loads'
        BY <1>2 DEF ConnectableLive
      <3>1. connectableDevices[m][1] \in DOMAIN blocks
        BY <2>2 DEF ConfigTypeOK
      <3>2. Len(blocks') < loads'
        BY <1>1, <2>2, <2>4
      <3>3. QED
        BY <2>5, <2>7, <3>1, <3>2 DEF ConnectableLive
    <2>11. QED
      BY <1>1, <1>2, <2>2, <2>4, <2>6, <2>8, <2>9, <2>10 DEF ConnectableOnce
  <1>4. CASE ~Live(deviceConfiguration)
    <2>1. UNCHANGED blocks
      BY <1>4 DEF LoadRejected
    <2>2. ConfigTypeOK'
      BY <1>1, <1>2, <2>1 DEF ConfigTypeOK
    <2>3. Len(blocks) \in Nat
      BY DEF ConfigTypeOK
    <2>4. ConnectableLive'
      BY <1>1, <1>2, <2>1, <2>3 DEF ConnectableLive
    <2>5. QED
      BY <1>1, <1>2, <2>1, <2>2, <2>3, <2>4
         DEF CurrentIsFile, Live, IdsCount, ConnectableOnce
  <1>5. QED
    BY <1>3, <1>4

\* What the two other kinds of load have in common: a block more.
LEMMA AllocationKeepsIds ==
    ASSUME ConfigInv, NEW f \in Files, AddDevices(f),
           NEW block \in BlockType, blocks' = Allocated(block),
           deviceConfiguration' = Len(blocks) + 1,
           deviceConfigurationSize' = Len(f.devices),
           block.live => \A i \in DOMAIN block.devices :
                            block.devices[i].device_id = i - 1
    PROVE  /\ blocks' \in Seq(BlockType)
           /\ Len(blocks) \in Nat /\ Len(blocks') = Len(blocks) + 1
           /\ DOMAIN blocks = 1 .. Len(blocks) /\ DOMAIN blocks' = 1 .. Len(blocks')
           /\ \A b \in DOMAIN blocks : blocks'[b] = blocks[b]
           /\ blocks'[Len(blocks) + 1] = block
           /\ deviceConfiguration' \in 0 .. Len(blocks')
           /\ deviceConfigurationSize' \in Nat
           /\ loads' = loads + 1 /\ loads' \in 0 .. MaxLoads /\ loads \in Nat
           /\ Len(blocks') <= loads'
           /\ IdsCount'
  <1>1. blocks \in Seq(BlockType) /\ loads \in 0 .. MaxLoads /\ Len(blocks) <= loads
    BY DEF ConfigInv, ConfigTypeOK, BlockType
  <1>2. loads' = loads + 1 /\ loads' \in 0 .. MaxLoads /\ loads \in Nat
    BY <1>1, ConfigAssumption DEF AddDevices
  <1>3. blocks' = Append(blocks, block)
    BY DEF Allocated
  <1>4. /\ blocks' \in Seq(BlockType)
        /\ Len(blocks) \in Nat /\ Len(blocks') = Len(blocks) + 1
        /\ DOMAIN blocks = 1 .. Len(blocks) /\ DOMAIN blocks' = 1 .. Len(blocks')
        /\ \A b \in DOMAIN blocks : blocks'[b] = blocks[b]
        /\ blocks'[Len(blocks) + 1] = block
    BY <1>1, <1>3
  <1>5. \A b \in DOMAIN blocks' : b \in DOMAIN blocks \/ b = Len(blocks) + 1
    BY <1>4
  <1>6. IdsCount'
    BY <1>4, <1>5 DEF IdsCount, ConfigInv
  <1>7. deviceConfigurationSize' \in Nat
    BY FileType
  <1>8. QED
    BY <1>1, <1>2, <1>4, <1>6, <1>7

LEMMA UnmatchedKeepsInv ==
    ASSUME ConfigInv, NEW f \in Files, AddDevices(f), LoadUnmatched(f)
    PROVE  ConfigInv'
  <1>1. FreedBlock \in BlockType /\ ~FreedBlock.live
    BY DEF FreedBlock, BlockType
  <1>2. /\ blocks' = Allocated(FreedBlock)
        /\ deviceConfiguration' = Len(blocks) + 1
        /\ deviceConfigurationSize' = Len(f.devices)
        /\ UNCHANGED <<connectableDevices, file>>
    BY DEF LoadUnmatched
  <1>3. /\ blocks' \in Seq(BlockType)
        /\ Len(blocks) \in Nat /\ Len(blocks') = Len(blocks) + 1
        /\ DOMAIN blocks = 1 .. Len(blocks) /\ DOMAIN blocks' = 1 .. Len(blocks')
        /\ \A b \in DOMAIN blocks : blocks'[b] = blocks[b]
        /\ blocks'[Len(blocks) + 1] = FreedBlock
        /\ deviceConfiguration' \in 0 .. Len(blocks')
        /\ deviceConfigurationSize' \in Nat
        /\ loads' = loads + 1 /\ loads' \in 0 .. MaxLoads /\ loads \in Nat
        /\ Len(blocks') <= loads'
        /\ IdsCount'
    BY <1>1, <1>2, AllocationKeepsIds
  <1>4. connectableDevices' \in Seq((1 .. Len(blocks')) \X (Nat \ {0}))
    <2>1. connectableDevices \in Seq((1 .. Len(blocks)) \X (Nat \ {0}))
      BY DEF ConfigInv, ConfigTypeOK
    <2>2. (1 .. Len(blocks)) \X (Nat \ {0}) \subseteq
          (1 .. Len(blocks')) \X (Nat \ {0})
      BY <1>3
    <2>3. QED
      BY <1>2, <2>1, <2>2, SeqMonotonic
  <1>5. ConfigTypeOK'
    BY <1>2, <1>3, <1>4 DEF ConfigTypeOK, ConfigInv, BlockType
  <1>6. CurrentIsFile'
    BY <1>1, <1>2, <1>3 DEF CurrentIsFile, Live
  <1>7. ConnectableLive'
    <2>1. \A m \in DOMAIN connectableDevices :
             connectableDevices[m][1] \in DOMAIN blocks
      BY <1>3 DEF ConfigInv, ConfigTypeOK
    <2>2. QED
      BY <1>2, <1>3, <2>1 DEF ConnectableLive, ConfigInv
  <1>8. QED
    BY <1>2, <1>3, <1>5, <1>6, <1>7 DEF ConfigInv, ConnectableOnce

LEMMA CompleteKeepsInv ==
    ASSUME ConfigInv, NEW f \in Files, AddDevices(f), LoadComplete(f)
    PROVE  ConfigInv'
  <1> DEFINE block == Block(Configured(f))
             n == Len(f.devices)
             new == [i \in DOMAIN f.devices |-> <<Len(blocks) + 1, i>>]
             old == Len(connectableDevices)
             Pair == (1 .. Len(blocks')) \X (Nat \ {0})
  <1>1. /\ block \in BlockType
        /\ block.live /\ block.devices = Configured(f)
        /\ \A i \in DOMAIN block.devices : block.devices[i].device_id = i - 1
        /\ DOMAIN Configured(f) = DOMAIN f.devices
    BY ConfiguredType DEF LoadComplete, Block, BlockType, Configured
  <1>2. /\ Accepted(f) /\ Matched(f)
        /\ blocks' = Allocated(block)
        /\ deviceConfiguration' = Len(blocks) + 1
        /\ deviceConfigurationSize' = n
        /\ connectableDevices' = connectableDevices \o new
        /\ file' = f
    BY DEF LoadComplete
  <1> HIDE DEF block
  <1>3. /\ blocks' \in Seq(BlockType)
        /\ Len(blocks) \in Nat /\ Len(blocks') = Len(blocks) + 1
        /\ DOMAIN blocks = 1 .. Len(blocks) /\ DOMAIN blocks' = 1 .. Len(blocks')
        /\ \A b \in DOMAIN blocks : blocks'[b] = blocks[b]
        /\ blocks'[Len(blocks) + 1] = block
        /\ deviceConfiguration' \in 0 .. Len(blocks')
        /\ deviceConfigurationSize' \in Nat
        /\ loads' = loads + 1 /\ loads' \in 0 .. MaxLoads /\ loads \in Nat
        /\ Len(blocks') <= loads'
        /\ IdsCount'
    BY <1>1, <1>2, AllocationKeepsIds
  <1>4. n \in Nat /\ DOMAIN f.devices = 1 .. n
    BY FileType
  <1>5. connectableDevices \in Seq(Pair)
    <2>1. connectableDevices \in Seq((1 .. Len(blocks)) \X (Nat \ {0}))
      BY DEF ConfigInv, ConfigTypeOK
    <2>2. (1 .. Len(blocks)) \X (Nat \ {0}) \subseteq Pair
      BY <1>3
    <2>3. QED
      BY <2>1, <2>2, SeqMonotonic
  <1>6. new \in Seq(Pair) /\ Len(new) = n /\ \A i \in 1 .. n : new[i] = <<Len(blocks) + 1, i>>
    <2>1. \A i \in 1 .. n : <<Len(blocks) + 1, i>> \in Pair
      BY <1>3, <1>4
    <2>2. new \in [1 .. n -> Pair]
      BY <1>4, <2>1
    <2>3. QED
      BY <1>4, <2>2
  <1> HIDE DEF new
  <1>7. /\ connectableDevices' \in Seq(Pair)
        /\ DOMAIN connectableDevices' = 1 .. old + n
        /\ old \in Nat /\ DOMAIN connectableDevices = 1 .. old
        /\ \A m \in 1 .. old : connectableDevices'[m] = connectableDevices[m]
        /\ \A m \in 1 .. old + n : m > old =>
              m - old \in 1 .. n /\ connectableDevices'[m] = <<Len(blocks) + 1, m - old>>
    <2>1. /\ connectableDevices' \in Seq(Pair)
          /\ Len(connectableDevices') = old + n
          /\ old \in Nat /\ DOMAIN connectableDevices = 1 .. old
          /\ DOMAIN connectableDevices' = 1 .. old + n
      <3>1. /\ connectableDevices \o new \in Seq(Pair)
            /\ Len(connectableDevices \o new) = old + n
        <4>1. connectableDevices \o new \in Seq(Pair)
          BY <1>5, <1>6, ConcatProperties
        <4>2. Len(connectableDevices \o new) = Len(connectableDevices) + Len(new)
          BY <1>5, <1>6, ConcatProperties
        <4>3. Len(new) = n
          BY <1>6
        <4>4. QED
          BY <4>1, <4>2, <4>3
      <3>2. connectableDevices' \in Seq(Pair) /\ Len(connectableDevices') = old + n
        BY <1>2, <3>1
      <3>3. DOMAIN connectableDevices' = 1 .. Len(connectableDevices')
        BY <3>2, LenProperties
      <3>4. old \in Nat /\ DOMAIN connectableDevices = 1 .. old
        BY <1>5, LenProperties
      <3>5. QED
        BY <3>2, <3>3, <3>4
    <2>2. \A m \in 1 .. old + n :
             connectableDevices'[m] =
                IF m <= old THEN connectableDevices[m] ELSE new[m - old]
      BY <1>2, <1>5, <1>6, ConcatProperties
    <2>3. \A m \in 1 .. old : m \in 1 .. old + n
      BY <1>4, <2>1
    <2>4. \A m \in 1 .. old + n : m > old => m - old \in 1 .. n /\ ~(m <= old)
      BY <1>4, <2>1
    <2>5. \A m \in 1 .. old : connectableDevices'[m] = connectableDevices[m]
      BY <2>1, <2>2, <2>3
    <2>6. \A m \in 1 .. old + n : m > old =>
              m - old \in 1 .. n /\ connectableDevices'[m] = <<Len(blocks) + 1, m - old>>
      BY <1>6, <2>2, <2>4
    <2>7. QED
      BY <2>1, <2>5, <2>6
  <1> HIDE DEF old
  <1>8. ConfigTypeOK'
    BY <1>2, <1>3, <1>7 DEF ConfigTypeOK, BlockType
  <1>9. CurrentIsFile'
    BY <1>1, <1>2, <1>3 DEF CurrentIsFile
  <1>10. \A m \in 1 .. old : connectableDevices[m][1] \in DOMAIN blocks
    BY <1>3, <1>7 DEF ConfigInv, ConfigTypeOK
  <1>11. ConnectableLive'
    <2> SUFFICES ASSUME NEW m \in 1 .. old + n
                 PROVE  LET c == connectableDevices'[m] IN
                        IF blocks'[c[1]].live
                        THEN c[2] \in DOMAIN blocks'[c[1]].devices
                        ELSE Len(blocks') < loads'
      BY <1>7 DEF ConnectableLive
    <2>1. CASE m \in 1 .. old
      <3>1. connectableDevices'[m] = connectableDevices[m]
            /\ connectableDevices[m][1] \in DOMAIN blocks
            /\ blocks'[connectableDevices[m][1]] = blocks[connectableDevices[m][1]]
        BY <1>3, <1>7, <1>10, <2>1
      <3>2. Len(blocks) < loads => Len(blocks') < loads'
        BY <1>3
      <3>3. QED
        BY <1>7, <2>1, <3>1, <3>2 DEF ConnectableLive, ConfigInv
    <2>2. CASE m > old
      <3>1. /\ connectableDevices'[m][1] = Len(blocks) + 1
            /\ connectableDevices'[m][2] = m - old /\ m - old \in 1 .. n
        BY <1>7, <2>2
      <3>2. blocks'[Len(blocks) + 1].live
            /\ blocks'[Len(blocks) + 1].devices = Configured(f)
        BY <1>1, <1>3
      <3>3. QED
        BY <1>1, <1>4, <3>1, <3>2
    <2>3. QED
      BY <1>4, <1>7, <2>1, <2>2
  <1>12. ConnectableOnce'
    <2> SUFFICES ASSUME NEW k \in 1 .. old + n, NEW m \in 1 .. old + n,
                        connectableDevices'[k] = connectableDevices'[m]
                 PROVE  k = m
      BY <1>7 DEF ConnectableOnce
    <2>1. ASSUME NEW l \in 1 .. old
          PROVE  connectableDevices'[l][1] # Len(blocks) + 1
      <3>1. connectableDevices'[l] = connectableDevices[l]
        BY <1>7
      <3>2. connectableDevices[l][1] \in 1 .. Len(blocks) /\ Len(blocks) \in Nat
        BY <1>3, <1>10
      <3>3. QED
        BY <3>1, <3>2
    <2>2. CASE k \in 1 .. old /\ m \in 1 .. old
      BY <1>7, <2>2 DEF ConfigInv, ConnectableOnce
    <2>3. CASE k > old /\ m > old
      BY <1>4, <1>7, <2>3
    <2>4. CASE (k \in 1 .. old /\ m > old) \/ (k > old /\ m \in 1 .. old)
      BY <1>7, <2>1, <2>4
    <2>5. QED
      BY <1>4, <1>7, <2>2, <2>3, <2>4
  <1>13. QED
    BY <1>3, <1>8, <1>9, <1>11, <1>12 DEF ConfigInv

LEMMA ConfigInvNext == ConfigInv /\ [ConfigNext]_configVars => ConfigInv'
  <1> SUFFICES ASSUME ConfigInv, [ConfigNext]_configVars PROVE ConfigInv'
    OBVIOUS
  <1>1. ASSUME NEW f \in Files, AddDevices(f) PROVE ConfigInv'
    BY <1>1, RejectedKeepsInv, UnmatchedKeepsInv, CompleteKeepsInv DEF AddDevices
  <1>2. CASE UNCHANGED configVars
    BY <1>2 DEF configVars, ConfigInv, ConfigTypeOK, CurrentIsFile, Live, IdsCount,
                ConnectableLive, ConnectableOnce
  <1>3. QED
    BY <1>1, <1>2 DEF ConfigNext

LEMMA ConfigInvariance == ConfigSpec => []ConfigInv
  BY ConfigInvInit, ConfigInvNext, PTL DEF ConfigSpec

-----------------------------------------------------------------------------

\* However often a configuration is added, the variables keep their types.
THEOREM ConfigTyping == ConfigSpec => []ConfigTypeOK
  BY ConfigInvariance, PTL DEF ConfigInv

\* A configuration that loads gives each of its outputs to one device, when the
\* devices have distinct names.
THEOREM ConfigMatching == ConfigSpec => []OutputsMatch
  BY ConfigInvariance, ConfigInvOutputs, PTL

\* What can be connected to is in memory and has an id of its own, as far as one
\* configuration goes.
THEOREM ConfigConnectable == ConfigSpec => []ConnectableSound
  BY ConfigInvariance, ConfigInvConnectable, PTL

-----------------------------------------------------------------------------
(* What a uint16_t of milliseconds can hold.                               *)

LEMMA Remainder ==
    ASSUME NEW a \in Nat
    PROVE  /\ a \div 65536 \in Int /\ a % 65536 \in Int
           /\ 0 <= a % 65536 /\ a % 65536 < 65536
           /\ a = 65536 * (a \div 65536) + (a % 65536)
  BY Z3

\* 999 has the inverse 24535 modulo 65536, and 65536 does not divide what is
\* below it.
LEMMA Odd ==
    ASSUME NEW r \in Int, NEW q \in Int, 999 * r = 65536 * q, 0 < r, r < 65536
    PROVE  FALSE
  <1> DEFINE k == 24535 * q - 374 * r
  <1>1. k \in Int /\ r = 65536 * k
    BY Z3
  <1> HIDE DEF k
  <1>2. QED
    BY <1>1, Z3

\* The period is the resolution, in seconds or in milliseconds, up to 65
\* and for no resolution above.
LEMMA IntervalMsExact ==
    ASSUME NEW r \in Nat
    PROVE  IntervalMs(r) \in {r, r * 1000} <=> r <= 65
  <1> DEFINE a == r * 1000
             q == a \div 65536
             m == IntervalMs(r)
  <1>1. m = a % 65536 /\ a \in Nat
    BY Z3 DEF IntervalMs
  <1>2. a = 1000 * r
    BY Z3
  <1> HIDE DEF a
  <1>3. /\ q \in Int /\ m \in Int /\ 0 <= m /\ m < 65536
        /\ a = 65536 * q + m
    BY <1>1, Remainder, Z3
  <1> HIDE DEF q, m
  <1>4. CASE r <= 65
    <2>1. q = 0
      BY <1>2, <1>3, <1>4, Z3
    <2>2. m = a
      BY <1>3, <2>1, Z3
    <2>3. QED
      BY <1>4, <2>2, Z3 DEF m, a
  <1>5. CASE r > 65
    <2>1. m # a
      BY <1>2, <1>3, <1>5, Z3
    <2>2. ASSUME m = r PROVE FALSE
      <3>1. 999 * r = 65536 * q /\ 0 < r /\ r < 65536
        BY <1>2, <1>3, <1>5, <2>2, Z3
      <3>2. QED
        BY <1>3, <3>1, Odd, Z3
    <2>3. QED
      BY <1>5, <2>1, <2>2, Z3 DEF m, a
  <1>6. QED
    BY <1>4, <1>5, Z3

\* modify_intervals gives every device the period its configuration names as long
\* as no resolution is above 65; that none above is right is IntervalMsExact.
THEOREM ConfigPeriods ==
    ASSUME \A f \in Files : \A i \in DOMAIN f.devices :
              f.devices[i].resolution \in 0 .. 65
    PROVE  ConfigSpec => []PeriodIsResolution
  <1>1. ASSUME ConfigInv, Live(deviceConfiguration),
               NEW i \in DOMAIN blocks[deviceConfiguration].devices
        PROVE  LET r == blocks[deviceConfiguration].devices[i].device_resolution
               IN  IntervalMs(r) \in {r, r * 1000}
    <2>1. /\ file \in Files
          /\ blocks[deviceConfiguration].devices = Configured(file)
      BY <1>1 DEF ConfigInv, CurrentIsFile
    <2>2. i \in DOMAIN file.devices
      BY <1>1, <2>1 DEF Configured
    <2>3. PICK r : r = blocks[deviceConfiguration].devices[i].device_resolution
      OBVIOUS
    <2>4. r = file.devices[i].resolution
      BY <2>1, <2>2, <2>3 DEF Configured
    <2>5. r \in 0 .. 65
      BY <2>1, <2>2, <2>4
    <2>6. r \in Nat /\ r <= 65
      BY <2>5
    <2>7. IntervalMs(r) \in {r, r * 1000}
      BY <2>6, IntervalMsExact
    <2>8. QED
      BY <2>3, <2>7
  <1>2. ConfigInv => PeriodIsResolution
    BY <1>1 DEF PeriodIsResolution
  <1>3. QED
    BY <1>2, ConfigInvariance, PTL

=============================================================================
