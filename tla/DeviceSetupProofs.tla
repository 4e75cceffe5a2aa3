-------------------------- MODULE DeviceSetupProofs --------------------------
(***************************************************************************)
(* Theorems about DeviceSetup, for every set of names, devices, descriptors*)
(* and open files, any number of buffers, and any number of failures.      *)
(***************************************************************************)
EXTENDS DeviceSetup, FiniteSetTheorems, TLAPS

-----------------------------------------------------------------------------
(* Type correctness.                                                       *)

\* What mg_device_create, mg_buffer_alloc and mg_buffer_set make are objects.
LEMMA CreatedType ==
  ASSUME NEW d \in Dev
  PROVE  Created(d) \in Object
  BY DEF Object, Created

\* What is noted of the buffers keeps an object an object, and its descriptor.
LEMMA BufferTypes ==
  ASSUME NEW o \in Object, NEW b
  PROVE  /\ Allocated(o) \in Object /\ Allocated(o).fd = o.fd
         /\ b \in Index => Noted(o, b) \in Object
         /\ Noted(o, b).fd = o.fd
  <1>1. Allocated(o) \in Object /\ Allocated(o).fd = o.fd
    BY DEF Object, Allocated
  <1>2. b \in Index => Noted(o, b) \in Object
    BY DEF Object, Noted
  <1>3. Noted(o, b).fd = o.fd
    BY DEF Object, Noted
  <1> QED
    BY <1>1, <1>2, <1>3

\* Descriptors are natural numbers, and -1 is none.
LEMMA NotAFd ==
  ASSUME NEW f \in Fds
  PROVE  f \in Nat /\ f # -1
  <1>1. f \in Nat
    BY FdAssumption
  <1> QED
    BY <1>1

\* Identifiers are numbers.
LEMMA ObjectFds ==
  ASSUME NEW o \in Object
  PROVE  o.fd \in Fds \cup {-1} /\ o.fd \in Int
  <1>1. o.fd \in Fds \cup {-1}
    BY DEF Object
  <1> QED
    BY <1>1, NotAFd

Early == {"capability", "input", "standard", "crop", "format", "request"}
Setup == Early \cup {"map", "enqueue", "streamon"}
Removal == {"streamoff", "unmap", "close"}

\* The call in progress, and what it has in hand where.
ControlInv ==
  /\ dev # NoObj <=> pc \in {"open", "discard"} \cup Setup \cup Removal
  /\ pc = "idle" <=> op = "none"
  /\ pc \in {"create", "open", "discard"} \cup Setup => op = "register"
  /\ pc \in {"find"} \cup Removal => op \in {"deregister", "destroy"}
  /\ pc = "destroy" => op = "destroy"
  /\ pc = "open" => dev.fd = -1
  /\ pc \in Setup \cup Removal => dev.fd \in Fds
  /\ pc \in Removal => dev.fd = id

\* Every descriptor in use is that of one object, and of no other.
FdInv ==
  /\ \A o \in device : o.fd \in Fds
  /\ \A o, p \in device : o.fd = p.fd => o = p
  /\ dev # NoObj => \A o \in device : o.fd # dev.fd
  /\ \A f \in Fds : fdtab[f] # NoFile <=>
       (\E o \in device : o.fd = f) \/ (dev # NoObj /\ dev.fd = f)

TypeInv == TypeOK /\ ControlInv /\ FdInv

\* The descriptor of the object at hand is open, where it has one.
LEMMA FileAtHand ==
  ASSUME TypeInv, pc \in Setup \cup Removal \/ (pc = "discard" /\ dev.fd # -1)
  PROVE  dev \in Object /\ dev.fd \in Fds /\ TheFile \in File
  BY
  DEF TypeInv, TypeOK, ControlInv, FdInv, TheFile, Object, Setup, Removal, Early

\* The descriptors stay as they are where the object at hand keeps its own.
LEMMA FdSame ==
  ASSUME FdInv, UNCHANGED <<fdtab, device>>,
         dev' # NoObj <=> dev # NoObj, dev # NoObj => dev'.fd = dev.fd
  PROVE  FdInv'
  BY DEF FdInv

-----------------------------------------------------------------------------
(* Type correctness.                                                       *)

\* The steps that leave the objects and the system as they are, but for names.
Quiet ==
  \/ Rename \/ Program
  \/ StatFails \/ Duplicate \/ OpenFails \/ TestCapability \/ SetCrop \/ SetFormat
  \/ AllMapped \/ SetupFails \/ NotFound \/ Unmapped \/ DestroyNext \/ DestroyEnds

\* The quiet steps leave the files, the list and the object at hand alone.
LEMMA QuietSteps ==
  ASSUME Quiet
  PROVE  UNCHANGED <<fdtab, of, owners, queued, streams, maps, selected,
                     device, dev>>
  <1> USE DEF kernel, system, library
  <1>1. CASE Rename \/ Program
    BY <1>1 DEF Rename, Program, CallRegister, CallDeregister, CallDestroy
  <1>2. CASE \/ StatFails \/ Duplicate \/ OpenFails \/ TestCapability
             \/ SetCrop \/ SetFormat \/ AllMapped \/ SetupFails
    BY <1>2 DEF StatFails, Duplicate, OpenFails, TestCapability, SetCrop,
                SetFormat, AllMapped, SetupFails
  <1>3. CASE NotFound \/ Unmapped \/ DestroyNext \/ DestroyEnds
    BY <1>3 DEF NotFound, Unmapped, DestroyNext, DestroyEnds
  <1> QED
    BY <1>1, <1>2, <1>3 DEF Quiet

\* The types of what quiet steps change.
LEMMA QuietTypes ==
  ASSUME TypeInv, Quiet
  PROVE  TypeOK'
  <1> USE DEF TypeInv, TypeOK, Goto, Return, EndDeregister, Fault, PC
  <1>1. CASE Rename \/ Program
    BY <1>1, FdAssumption DEF Rename, Program, CallRegister, CallDeregister,
       CallDestroy, system, kernel, library
  <1>2. CASE \/ StatFails \/ Duplicate \/ OpenFails \/ TestCapability
             \/ SetCrop \/ SetFormat \/ AllMapped \/ SetupFails
    BY <1>2 DEF StatFails, Duplicate, FoundNumber, FdInv, OpenFails,
       TestCapability, SetCrop, SetFormat, AllMapped, SetupFails, system, kernel
  <1>3. CASE NotFound \/ Unmapped
    BY <1>3 DEF NotFound, Unmapped, system, kernel
  <1>4. CASE DestroyNext
    <2>1. id' \in Int
      BY <1>4, ObjectFds DEF DestroyNext
    <2> QED
      BY <1>4, <2>1 DEF DestroyNext, system, kernel
  <1>5. CASE DestroyEnds
    BY <1>5 DEF DestroyEnds, system, kernel
  <1> QED
    BY <1>1, <1>2, <1>3, <1>4, <1>5 DEF Quiet

\* Every step of mg_register_device keeps the types.
LEMMA RegisterTypes ==
  ASSUME TypeInv,
         \/ Create \/ Open
         \/ Select("input", "standard") \/ Select("standard", "crop")
         \/ RequestBuffers \/ TooFewBuffers
         \/ MapBuffer \/ Enqueue \/ StreamOn \/ Discard
  PROVE  TypeOK'
  <1> USE DEF TypeInv, TypeOK, Goto, Return, Fault, PC, system, kernel
  <1>1. CASE Create
    BY <1>1, CreatedType DEF Create
  <1>2. CASE Open
    BY <1>2, ObjAssumption DEF Open, FreeFiles, FreeFds, ControlInv, Object
  <1>3. CASE Select("input", "standard") \/ Select("standard", "crop")
    BY <1>3 DEF Select, Setting
  <1>4. CASE RequestBuffers
    <2>1. dev \in Object /\ TheFile \in File
      BY <1>4, FileAtHand DEF RequestBuffers, Setup, Early
    <2> QED
      BY <1>4, <2>1, BufferTypes, BufsAssumption DEF RequestBuffers, Index
  <1>5. CASE TooFewBuffers
    <2>1. TheFile \in File
      BY <1>5, FileAtHand DEF TooFewBuffers, Setup, Early
    <2> QED
      BY <1>5, <2>1 DEF TooFewBuffers
  <1>6. CASE MapBuffer
    <2>1. dev \in Object /\ TheFile \in File
      BY <1>6, FileAtHand DEF MapBuffer, Setup
    <2>2. i \in Index /\ i + 1 \in 0 .. NumBufs
      BY <1>6, BufsAssumption DEF MapBuffer, MapEnds, Index
    <2> QED
      BY <1>6, <2>1, <2>2, BufferTypes DEF MapBuffer
  <1>7. CASE Enqueue
    <2>1. dev \in Object /\ TheFile \in File
      BY <1>7, FileAtHand DEF Enqueue, Setup
    <2>2. 0 .. dev.number - 1 \subseteq Index
      BY <2>1, BufsAssumption DEF Object, Index
    <2> QED
      BY <1>7, <2>1, <2>2 DEF Enqueue
  <1>8. CASE StreamOn
    <2>1. dev \in Object /\ dev.fd \in Fds /\ TheFile \in File
      BY <1>8, FileAtHand DEF StreamOn, Setup
    <2> QED
      BY <1>8, <2>1 DEF StreamOn
  <1>9. CASE Discard
    BY <1>9 DEF Discard, MgDeviceDestroy, Released
  <1> QED
    BY <1>1, <1>2, <1>3, <1>4, <1>5, <1>6, <1>7, <1>8, <1>9

\* Every step of mg_deregister_device keeps the types.
LEMMA DeregisterTypes ==
  ASSUME TypeInv, Find \/ StreamOff \/ Unmap \/ CloseDevice
  PROVE  TypeOK'
  <1> USE DEF TypeInv, TypeOK, Goto, Return, Fault, PC, system, kernel
  <1>1. CASE Find
    BY <1>1 DEF Find, FoundFd
  <1>2. CASE StreamOff
    BY <1>2, BufsAssumption DEF StreamOff
  <1>3. CASE Unmap
    <2>1. dev \in Object /\ TheFile \in File
      BY <1>3, FileAtHand DEF Unmap, Removal
    <2>2. i + 1 \in 0 .. NumBufs
      BY <1>3, <2>1, BufsAssumption DEF Unmap, UnmapEnds, Known, Object
    <2> QED
      BY <1>3, <2>1, <2>2 DEF Unmap
  <1>4. CASE CloseDevice
    <2>1. id \in Fds
      BY <1>4, FileAtHand DEF CloseDevice, ControlInv, Removal
    <2> QED
      BY <1>4, <2>1 DEF CloseDevice, MgDeviceDestroy, Released, EndDeregister
  <1> QED
    BY <1>1, <1>2, <1>3, <1>4

\* The call goes where the code goes.
LEMMA ControlNext ==
  ASSUME TypeInv, Next
  PROVE  ControlInv'
  <1> USE DEF TypeInv, TypeOK, ControlInv, Early, Setup, Removal, Goto, Return,
      EndDeregister
  <1>1. CASE Rename \/ Program
    BY <1>1 DEF Rename, Program, CallRegister, CallDeregister, CallDestroy,
       system, library
  <1>2. CASE \/ StatFails \/ Duplicate \/ OpenFails \/ TestCapability
             \/ SetCrop \/ SetFormat \/ AllMapped \/ SetupFails
    BY <1>2 DEF StatFails, Duplicate, OpenFails, TestCapability, SetCrop,
                SetFormat, AllMapped, SetupFails, kernel, system
  <1>3. CASE NotFound \/ Unmapped \/ DestroyNext \/ DestroyEnds
    BY <1>3 DEF NotFound, Unmapped, DestroyNext, DestroyEnds, kernel, system
  <1>4. CASE Create
    BY <1>4, CreatedType, ObjAssumption DEF Create, Created
  <1>5. CASE Open
    BY <1>5, ObjAssumption DEF Open, Object, FreeFds
  <1>6. CASE Select("input", "standard") \/ Select("standard", "crop")
    BY <1>6 DEF Select
  <1>7. CASE RequestBuffers
    <2>1. dev \in Object
      BY <1>7, FileAtHand DEF RequestBuffers
    <2>2. dev' # NoObj /\ dev'.fd = dev.fd
      BY <1>7, <2>1, BufferTypes, ObjAssumption DEF RequestBuffers
    <2> QED
      BY <1>7, <2>2 DEF RequestBuffers
  <1>8. CASE MapBuffer
    <2>1. i \in Index
      BY <1>8, BufsAssumption DEF MapBuffer, MapEnds, Index
    <2> QED
      BY <1>8, <2>1, BufferTypes, ObjAssumption DEF MapBuffer
  <1>9. CASE TooFewBuffers \/ Enqueue \/ StreamOn \/ Discard
    BY <1>9 DEF TooFewBuffers, Enqueue, StreamOn, Discard, MgDeviceDestroy
  <1>10. CASE Find
    BY <1>10, ObjAssumption DEF Find, FoundFd, FdInv
  <1>11. CASE StreamOff \/ Unmap
    BY <1>11 DEF StreamOff, Unmap
  <1>12. CASE CloseDevice
    BY <1>12 DEF CloseDevice, MgDeviceDestroy
  <1> QED
    BY <1>1, <1>2, <1>3, <1>4, <1>5, <1>6, <1>7, <1>8, <1>9, <1>10, <1>11, <1>12
    DEF Next, Library

\* The descriptors are where FdInv says.
LEMMA FdNext ==
  ASSUME TypeInv, Next
  PROVE  FdInv'
  <1> USE DEF TypeInv
  <1>1. CASE Quiet
    BY <1>1, QuietSteps, FdSame
  <1>2. CASE Create
    <2>1. dev = NoObj /\ dev'.fd \notin Fds /\ device' = device /\ fdtab' = fdtab
      BY <1>2, FdAssumption
      DEF Create, Created, ControlInv, Setup, Removal, Early,
         kernel, system
    <2> QED
      BY <2>1 DEF FdInv
  <1>3. CASE Open
    <2>1. PICK f \in FreeFds :
            /\ fdtab' = [fdtab EXCEPT ![f] = CHOOSE x \in FreeFiles : TRUE]
            /\ dev' = [dev EXCEPT !.fd = f]
      BY <1>3 DEF Open
    <2>2. f \in Fds /\ fdtab[f] = NoFile /\ (CHOOSE x \in FreeFiles : TRUE) \in File
      BY <1>3, <2>1 DEF Open, FreeFds, FreeFiles
    <2>3. dev \in Object /\ dev.fd = -1
      BY <1>3 DEF Open, ControlInv, TypeOK
    <2>4. dev' \in Object /\ dev'.fd = f
      BY <2>1, <2>2, <2>3 DEF Object
    <2>5. device' = device /\ \A o \in device : o.fd # f
      BY <1>3, <2>2 DEF Open, FdInv
    <2>6. \A g \in Fds : fdtab'[g] # NoFile <=> fdtab[g] # NoFile \/ g = f
      BY <2>1, <2>2, FileAssumption DEF TypeOK
    <2> QED
      BY <2>2, <2>3, <2>4, <2>5, <2>6, FdAssumption, ObjAssumption DEF FdInv
  <1>4. CASE \/ Select("input", "standard") \/ Select("standard", "crop")
             \/ TooFewBuffers \/ Enqueue \/ StreamOff \/ Unmap
    BY <1>4, FdSame DEF Select, TooFewBuffers, Enqueue, StreamOff, Unmap
  <1>5. CASE RequestBuffers \/ MapBuffer
    <2>1. dev \in Object
      BY <1>5, FileAtHand DEF RequestBuffers, MapBuffer, Setup, Early
    <2>2. dev' = Allocated(dev) \/ (dev' = Noted(dev, i) /\ i \in Index)
      BY <1>5, BufsAssumption
      DEF RequestBuffers, MapBuffer, MapEnds, TypeOK, Index
    <2>3. dev' \in Object /\ dev'.fd = dev.fd
      BY <2>1, <2>2, BufferTypes
    <2>4. UNCHANGED <<fdtab, device>>
      BY <1>5 DEF RequestBuffers, MapBuffer
    <2> QED
      BY <2>1, <2>3, <2>4, ObjAssumption, FdSame
  <1>6. CASE StreamOn
    <2>1. dev \in Object /\ dev.fd \in Fds
      BY <1>6, FileAtHand DEF StreamOn, Setup
    <2> QED
      BY <1>6, <2>1, ObjAssumption DEF StreamOn, FdInv
  <1>7. CASE Discard \/ CloseDevice
    <2>1. dev \in Object /\ dev' = NoObj /\ device' = device
      BY <1>7, FileAtHand
      DEF Discard, CloseDevice, MgDeviceDestroy, ControlInv, TypeOK, Removal
    <2>2. CASE dev.fd = -1
      BY <1>7, <2>1, <2>2, FdAssumption
      DEF Discard, CloseDevice, MgDeviceDestroy, FdInv
    <2>3. CASE dev.fd # -1
      BY <1>7, <2>1, <2>3, ObjAssumption
      DEF Discard, CloseDevice, MgDeviceDestroy, FdInv, TypeOK, Object
    <2> QED
      BY <2>2, <2>3
  <1>8. CASE Find
    BY <1>8, ObjAssumption DEF Find, FoundFd, FdInv, TypeOK, ControlInv,
       Setup, Removal, Early, kernel, system
  <1> QED
    BY <1>1, <1>2, <1>3, <1>4, <1>5, <1>6, <1>7, <1>8 DEF Next, Library, Quiet

\* TypeInv holds initially, is kept by every step, and so always holds.
LEMMA TypeInit == Init => TypeInv
  <1> SUFFICES ASSUME Init PROVE TypeInv
    OBVIOUS
  <1>1. TypeOK
    BY BufsAssumption DEF Init, TypeOK, PC
  <1>2. ControlInv
    BY DEF Init, ControlInv, Early, Setup, Removal
  <1>3. FdInv
    BY DEF Init, FdInv
  <1> QED
    BY <1>1, <1>2, <1>3 DEF TypeInv

LEMMA TypeNext == TypeInv /\ [Next]_vars => TypeInv'
  <1> SUFFICES ASSUME TypeInv, [Next]_vars PROVE TypeInv'
    OBVIOUS
  <1>1. CASE UNCHANGED vars
    BY <1>1
    DEF vars, system, kernel, library, TypeInv, TypeOK, ControlInv, FdInv
  <1>2. CASE Next
    <2>1. TypeOK'
      BY <1>2, QuietTypes, RegisterTypes, DeregisterTypes
      DEF Next, Library, Quiet
    <2> QED
      BY <1>2, <2>1, ControlNext, FdNext DEF TypeInv
  <1> QED
    BY <1>1, <1>2

LEMMA TypeInvariant == Spec => []TypeInv
  BY TypeInit, TypeNext, PTL DEF Spec

\* Every reachable state is well typed, whatever fails.
THEOREM SetupTypes == Spec => []TypeOK
  <1>1. TypeInv => TypeOK
    BY DEF TypeInv
  <1> QED
    BY <1>1, TypeInvariant, PTL

\* Whatever fails on the way, every descriptor in use is that of exactly one
\* device object, and that of every listed device is in use.
THEOREM DescriptorOwners == Spec => []DescriptorsOwned
  <1>1. TypeInv => DescriptorsOwned
    <2> SUFFICES ASSUME TypeInv PROVE DescriptorsOwned
      OBVIOUS
    <2> USE DEF TypeInv
    <2>1. ASSUME NEW f \in Fds, fdtab[f] # NoFile
          PROVE  Cardinality({o \in Objects : o.fd = f}) = 1
      <3>1. PICK o \in Objects : o.fd = f
        BY <2>1 DEF FdInv, Objects
      <3>2. \A p \in Objects : p.fd = f => p = o
        BY <3>1 DEF FdInv, Objects
      <3>3. {p \in Objects : p.fd = f} = {o}
        BY <3>1, <3>2
      <3> QED
        BY <3>3, FS_Singleton
    <2>2. ASSUME NEW o \in device PROVE o.fd # -1 /\ fdtab[o.fd] # NoFile
      <3>1. o.fd \in Fds
        BY DEF FdInv
      <3> QED
        BY <3>1, NotAFd DEF FdInv
    <2> QED
      BY <2>1, <2>2 DEF DescriptorsOwned
  <1> QED
    BY <1>1, TypeInvariant, PTL

-----------------------------------------------------------------------------
(* Open files: how far each one has been set up, and what leaks.           *)

\* No two descriptors share a file; a file that is not open has nothing.
FileInv ==
  /\ \A f, g \in Fds : fdtab[f] = fdtab[g] /\ fdtab[f] # NoFile => f = g
  /\ \A f \in Fds : fdtab[f] # NoFile => of[fdtab[f]] # NoDev
  /\ \A x \in File :
       of[x] = NoDev => x \notin owners /\ x \notin streams /\ maps[x] = {}

\* The object o knows all of its buffers, and has been granted them.
Complete(o) == o.number = NumBufs /\ o.start = Index /\ fdtab[o.fd] \in owners

\* A listed device has all its buffers mapped, and streams.
ListedInv ==
  \A o \in device : /\ Complete(o)
                    /\ maps[fdtab[o.fd]] = Index
                    /\ fdtab[o.fd] \in streams

\* What the object at hand has, at each step of its set-up and of its removal.
HandInv ==
  /\ pc \in Early \cup {"open"} => dev.number = 0 /\ dev.start = {}
  /\ pc \in Early => maps[TheFile] = {} /\ TheFile \notin owners
  /\ pc = "map" => /\ dev.number = NumBufs /\ dev.start = 0 .. i - 1
                   /\ TheFile \in owners /\ maps[TheFile] = 0 .. i - 1
  /\ pc \in {"enqueue", "streamon", "streamoff"} =>
       Complete(dev) /\ maps[TheFile] = Index
  /\ pc = "unmap" => Complete(dev) /\ maps[TheFile] = i .. NumBufs - 1

StageInv == FileInv /\ ListedInv /\ HandInv

\* The file of the object at hand is open, and not that of a listed device.
LEMMA HandFile ==
  ASSUME TypeInv, FileInv,
         pc \in Setup \cup Removal \/ (pc = "discard" /\ dev.fd # -1)
  PROVE  /\ of[TheFile] \in Dev
         /\ \A o \in device : fdtab[o.fd] \in File /\ fdtab[o.fd] # TheFile
  <1>1. dev \in Object /\ dev.fd \in Fds /\ TheFile \in File /\ TheFile # NoFile
    BY FileAtHand, FileAssumption
  <1>2. of[TheFile] \in Dev
    BY <1>1 DEF FileInv, TypeInv, TypeOK, TheFile
  <1>3. ASSUME NEW o \in device
        PROVE  fdtab[o.fd] \in File /\ fdtab[o.fd] # TheFile
    <2>1. o.fd \in Fds /\ o.fd # dev.fd /\ fdtab[o.fd] # NoFile
      BY <1>1, ObjAssumption DEF TypeInv, FdInv
    <2> QED
      BY <1>1, <2>1 DEF FileInv, TypeInv, TypeOK, TheFile
  <1> QED
    BY <1>2, <1>3

\* Files are opened, and released by their last reference.
LEMMA FileNext ==
  ASSUME TypeInv, StageInv, Next
  PROVE  FileInv'
  <1> USE DEF StageInv
  <1>1. CASE Quiet
    BY <1>1, QuietSteps DEF FileInv
  <1>2. CASE Create \/ Select("input", "standard") \/ Select("standard", "crop")
             \/ Enqueue
    BY <1>2 DEF Create, Select, Enqueue, FileInv, kernel, system
  <1>3. CASE Open
    <2> DEFINE x == CHOOSE y \in FreeFiles : TRUE
    <2>1. PICK f \in FreeFds : /\ fdtab' = [fdtab EXCEPT ![f] = x]
                               /\ of' = [of EXCEPT ![x] = node[name]]
      BY <1>3 DEF Open
    <2>2. x \in File /\ of[x] = NoDev
      BY <1>3 DEF Open, FreeFiles
    <2>3. f \in Fds /\ fdtab[f] = NoFile /\ node[name] \in Dev
      BY <1>3, <2>1 DEF Open, FreeFds, TypeInv, TypeOK
    <2>4. \A g \in Fds : fdtab[g] # x
      BY <2>2, FileAssumption DEF FileInv
    <2>5. UNCHANGED <<owners, streams, maps>>
      BY <1>3 DEF Open
    <2> HIDE DEF x
    <2>6. \A g \in Fds : fdtab'[g] = IF g = f THEN x ELSE fdtab[g]
      BY <2>1, <2>3 DEF TypeInv, TypeOK
    <2>7. \A y \in File : of'[y] = IF y = x THEN node[name] ELSE of[y]
      BY <2>1, <2>2 DEF TypeInv, TypeOK
    <2>8. \A g \in Fds : fdtab[g] \in File \cup {NoFile}
      BY DEF TypeInv, TypeOK
    <2> QED
      BY <2>2, <2>3, <2>4, <2>5, <2>6, <2>7, <2>8, DevAssumption DEF FileInv
  <1>4. CASE RequestBuffers \/ TooFewBuffers \/ MapBuffer \/ StreamOn
             \/ StreamOff \/ Unmap
    <2>1. TheFile \in File /\ of[TheFile] \in Dev
      BY <1>4, FileAtHand, HandFile
      DEF RequestBuffers, TooFewBuffers, MapBuffer, StreamOn, StreamOff, Unmap,
          Setup, Removal, Early
    <2>2. UNCHANGED <<fdtab, of>>
      BY <1>4
      DEF RequestBuffers, TooFewBuffers, MapBuffer, StreamOn, StreamOff, Unmap
    <2>3. /\ owners' \subseteq owners \cup {TheFile}
          /\ streams' \subseteq streams \cup {TheFile}
      BY <1>4
      DEF RequestBuffers, TooFewBuffers, MapBuffer, StreamOn, StreamOff, Unmap
    <2>4. \A x \in File : x # TheFile => maps'[x] = maps[x]
      BY <1>4
      DEF RequestBuffers, TooFewBuffers, MapBuffer, StreamOn, StreamOff, Unmap,
          TypeInv, TypeOK
    <2> QED
      BY <2>1, <2>2, <2>3, <2>4, DevAssumption DEF FileInv
  <1>5. CASE Discard \/ CloseDevice
    <2>1. CASE dev.fd = -1
      BY <1>5, <2>1 DEF Discard, CloseDevice, MgDeviceDestroy, FileInv
    <2>2. CASE dev.fd # -1
      <3>1. dev.fd \in Fds /\ TheFile \in File
        BY <1>5, <2>2, FileAtHand DEF Discard, CloseDevice, Removal
      <3>2. /\ \A f \in Fds : fdtab'[f] = IF f = dev.fd THEN NoFile ELSE fdtab[f]
            /\ maps' = maps
        BY <1>5, <2>2, <3>1
        DEF Discard, CloseDevice, MgDeviceDestroy, TypeInv, TypeOK
      <3>3. CASE maps[TheFile] # {}
        BY <1>5, <2>2, <3>2, <3>3
        DEF Discard, CloseDevice, MgDeviceDestroy, FileInv
      <3>4. CASE maps[TheFile] = {}
        <4>1. /\ \A x \in File : of'[x] = IF x = TheFile THEN NoDev ELSE of[x]
              /\ owners' = owners \ {TheFile} /\ streams' = streams \ {TheFile}
          BY <1>5, <2>2, <3>1, <3>4
          DEF Discard, CloseDevice, MgDeviceDestroy, Released, TypeInv, TypeOK
        <4>2. \A f \in Fds : fdtab[f] = TheFile => f = dev.fd
          BY <3>1, FileAssumption DEF FileInv, TheFile
        <4>3. \A f \in Fds : fdtab[f] \in File \cup {NoFile}
          BY DEF TypeInv, TypeOK
        <4> QED
          BY <3>2, <3>4, <4>1, <4>2, <4>3 DEF FileInv
      <3> QED
        BY <3>3, <3>4
    <2> QED
      BY <2>1, <2>2
  <1>6. CASE Find
    BY <1>6 DEF Find, FileInv, kernel, system
  <1> QED
    BY <1>1, <1>2, <1>3, <1>4, <1>5, <1>6 DEF Next, Library, Quiet

\* What a step does to one file, it does to the file at hand, and not to that of
\* a listed device.
LEMMA OthersFiles ==
  ASSUME TypeInv, StageInv, Next, NEW o \in device
  PROVE  /\ fdtab'[o.fd] = fdtab[o.fd]
         /\ maps'[fdtab[o.fd]] = maps[fdtab[o.fd]]
         /\ fdtab[o.fd] \in owners => fdtab[o.fd] \in owners'
         /\ fdtab[o.fd] \in streams => fdtab[o.fd] \in streams'
  <1> USE DEF StageInv
  <1>1. o \in Object /\ o.fd \in Fds /\ fdtab[o.fd] \in File
    BY FileAssumption DEF TypeInv, FdInv, TypeOK
  <1>2. CASE Quiet \/ Create \/ Find
    BY <1>2, QuietSteps DEF Create, Find, kernel, system
  <1>3. CASE Open
    <2>1. PICK f \in FreeFds :
            fdtab' = [fdtab EXCEPT ![f] = CHOOSE x \in FreeFiles : TRUE]
      BY <1>3 DEF Open
    <2>2. f # o.fd
      BY <1>1, <2>1, FileAssumption DEF FreeFds
    <2> QED
      BY <1>1, <1>3, <2>1, <2>2 DEF Open, TypeInv, TypeOK
  <1>4. CASE Select("input", "standard") \/ Select("standard", "crop") \/ Enqueue
    BY <1>4 DEF Select, Enqueue
  <1>5. CASE RequestBuffers \/ TooFewBuffers \/ MapBuffer \/ StreamOn
             \/ StreamOff \/ Unmap
    <2>1. fdtab[o.fd] # TheFile
      BY <1>5, HandFile
      DEF RequestBuffers, TooFewBuffers, MapBuffer, StreamOn, StreamOff, Unmap,
          Setup, Removal, Early
    <2> QED
      BY <1>1, <1>5, <2>1
      DEF RequestBuffers, TooFewBuffers, MapBuffer, StreamOn, StreamOff, Unmap,
          TypeInv, TypeOK
  <1>6. CASE Discard \/ CloseDevice
    <2>1. CASE dev.fd = -1
      BY <1>6, <2>1 DEF Discard, CloseDevice, MgDeviceDestroy
    <2>2. CASE dev.fd # -1
      <3>1. dev.fd \in Fds /\ dev # NoObj
        BY <1>6, <2>2, FileAtHand, ObjAssumption
        DEF Discard, CloseDevice, Removal
      <3>2. fdtab[o.fd] # TheFile /\ o.fd # dev.fd
        BY <1>6, <2>2, <3>1, HandFile
        DEF Discard, CloseDevice, Removal, TypeInv, FdInv
      <3> QED
        BY <1>1, <1>6, <2>2, <3>1, <3>2
        DEF Discard, CloseDevice, MgDeviceDestroy, Released, TypeInv, TypeOK
    <2> QED
      BY <2>1, <2>2
  <1> QED
    BY <1>2, <1>3, <1>4, <1>5, <1>6 DEF Next, Library, Quiet

\* Only a device that is wholly set up is listed.
LEMMA ListedNext ==
  ASSUME TypeInv, StageInv, Next
  PROVE  ListedInv'
  <1>1. CASE StreamOn
    <2>1. device' = device \cup {dev} /\ fdtab' = fdtab /\ owners' = owners
          /\ maps' = maps /\ streams' = streams \cup {TheFile}
      BY <1>1 DEF StreamOn
    <2>2. Complete(dev) /\ maps[TheFile] = Index
      BY <1>1 DEF StreamOn, StageInv, HandInv
    <2> QED
      BY <2>1, <2>2 DEF StageInv, ListedInv, Complete, TheFile
  <1>2. CASE ~StreamOn
    <2>1. device' \subseteq device
      BY <1>2, QuietSteps
      DEF Next, Library, Quiet, Create, Open, Select, RequestBuffers,
          TooFewBuffers, MapBuffer, Enqueue, Discard, Find, StreamOff, Unmap,
          CloseDevice, MgDeviceDestroy
    <2> QED
      BY <2>1, OthersFiles DEF StageInv, ListedInv, Complete
  <1> QED
    BY <1>1, <1>2

\* The object at hand goes through its stages.
LEMMA HandNext ==
  ASSUME TypeInv, StageInv, Next
  PROVE  HandInv'
  <1> USE DEF StageInv, HandInv, Early, Goto, Return, EndDeregister
  <1>1. CASE Rename \/ Program
    BY <1>1 DEF Rename, Program, CallRegister, CallDeregister, CallDestroy,
       system, kernel, library, Complete, TheFile
  <1>2. CASE \/ StatFails \/ Duplicate \/ OpenFails \/ SetupFails \/ NotFound
             \/ Unmapped \/ DestroyNext \/ DestroyEnds \/ TooFewBuffers \/ StreamOn
             \/ Discard \/ CloseDevice
    BY <1>2 DEF StatFails, Duplicate, OpenFails, SetupFails, NotFound,
       Unmapped, DestroyNext, DestroyEnds, TooFewBuffers, StreamOn, Discard,
       CloseDevice
  <1>3. CASE \/ TestCapability \/ SetCrop \/ SetFormat
             \/ Select("input", "standard") \/ Select("standard", "crop")
    BY <1>3
    DEF TestCapability, SetCrop, SetFormat, Select, kernel, system, TheFile
  <1>4. CASE Create
    BY <1>4 DEF Create, Created
  <1>5. CASE Open
    <2>1. PICK f \in FreeFds :
            /\ fdtab' = [fdtab EXCEPT ![f] = CHOOSE x \in FreeFiles : TRUE]
            /\ dev' = [dev EXCEPT !.fd = f]
      BY <1>5 DEF Open
    <2>2. dev \in Object /\ f \in Fds
      BY <1>5, <2>1 DEF Open, FreeFds, TypeInv, TypeOK, ControlInv
    <2>3. dev'.number = dev.number /\ dev'.start = dev.start /\ dev'.fd = f
      BY <2>1, <2>2 DEF Object
    <2>4. TheFile' \in FreeFiles
      BY <1>5, <2>1, <2>2, <2>3 DEF Open, TheFile, TypeInv, TypeOK
    <2>5. maps[TheFile'] = {} /\ TheFile' \notin owners
      BY <2>4 DEF FreeFiles, FileInv
    <2> QED
      BY <1>5, <2>3, <2>5 DEF Open
  <1>6. CASE RequestBuffers
    <2>1. dev \in Object /\ TheFile' = TheFile
      BY <1>6, FileAtHand, BufferTypes DEF RequestBuffers, Setup, TheFile
    <2>2. dev'.number = NumBufs /\ dev'.start = {}
      BY <1>6, <2>1 DEF RequestBuffers, Allocated, Object
    <2>3. 0 .. i' - 1 = {}
      BY <1>6 DEF RequestBuffers
    <2> QED
      BY <1>6, <2>1, <2>2, <2>3 DEF RequestBuffers
  <1>7. CASE MapBuffer
    <2>1. /\ dev \in Object /\ TheFile \in File
          /\ i \in 0 .. NumBufs - 1 /\ NumBufs \in Nat
      BY <1>7, FileAtHand, BufsAssumption
      DEF MapBuffer, MapEnds, Setup, TypeInv, TypeOK
    <2>2. TheFile' = TheFile
      BY <1>7, <2>1, BufferTypes DEF MapBuffer, TheFile
    <2>3. (0 .. i - 1) \cup {i} = 0 .. i' - 1
      BY <1>7, <2>1 DEF MapBuffer
    <2>4. dev'.number = NumBufs /\ dev'.start = 0 .. i' - 1
      <3>1. /\ dev.number = NumBufs /\ dev.start = 0 .. i - 1
            /\ dev' = Noted(dev, i)
        BY <1>7 DEF MapBuffer
      <3>2. i < dev.number /\ i \notin dev.start
        BY <2>1, <3>1
      <3> QED
        BY <2>1, <2>3, <3>1, <3>2 DEF Noted, Object
    <2>5. maps'[TheFile] = 0 .. i' - 1 /\ TheFile \in owners'
      BY <1>7, <2>1, <2>3 DEF MapBuffer, TypeInv, TypeOK
    <2> QED
      BY <1>7, <2>2, <2>4, <2>5 DEF MapBuffer
  <1>8. CASE AllMapped \/ Enqueue
    BY <1>8
    DEF AllMapped, MapEnds, Enqueue, Complete, Index, TheFile, kernel, system
  <1>9. CASE Find
    BY <1>9 DEF Find, FoundFd, ListedInv, TheFile, Complete, kernel, system
  <1>10. CASE StreamOff
    BY <1>10 DEF StreamOff, Complete, Index, TheFile
  <1>11. CASE Unmap
    <2>1. /\ TheFile \in File /\ NumBufs \in Nat
          /\ i \in 0 .. NumBufs /\ i # NumBufs /\ i' = i + 1
      BY <1>11, FileAtHand, BufsAssumption
      DEF Unmap, UnmapEnds, Complete, Removal, TypeInv, TypeOK
    <2>2. (i .. NumBufs - 1) \ {i} = i' .. NumBufs - 1
      BY <2>1
    <2>3. maps'[TheFile] = i' .. NumBufs - 1
      BY <1>11, <2>1, <2>2 DEF Unmap, TypeInv, TypeOK
    <2> QED
      BY <1>11, <2>3 DEF Unmap, Complete, TheFile
  <1> QED
    BY <1>1, <1>2, <1>3, <1>4, <1>5, <1>6, <1>7, <1>8, <1>9, <1>10, <1>11
    DEF Next, Library

\* StageInv holds initially, and is kept by every step.
LEMMA StageInit == Init => StageInv
  BY DEF Init, StageInv, FileInv, ListedInv, HandInv, Early

LEMMA StageNext == TypeInv /\ StageInv /\ [Next]_vars => StageInv'
  <1>1. CASE UNCHANGED vars
    BY <1>1 DEF vars, system, kernel, library, StageInv, FileInv, ListedInv,
       HandInv, Complete, TheFile
  <1>2. CASE Next
    BY <1>2, FileNext, ListedNext, HandNext DEF StageInv
  <1> QED
    BY <1>1, <1>2

\* An open file will be left behind by the object at hand.
LeakAhead == pc \in {"discard", "close"} /\ dev.fd # -1 /\ maps[TheFile] # {}

\* Each file that leaks, or is about to, has a failure of its own.
LeakInv == /\ IsFiniteSet(Leaked)
           /\ Cardinality(Leaked) + (IF LeakAhead THEN 1 ELSE 0) <= faults

\* A file leaks when its descriptor is closed before its buffers are unmapped,
\* and in no other way.
LEMMA LeakedNext ==
  ASSUME TypeInv, StageInv, Next
  PROVE  \/ Leaked' = Leaked
         \/ LeakAhead /\ ~LeakAhead' /\ Leaked' = Leaked \cup {TheFile}
  <1> USE DEF StageInv
  <1>1. \A f \in Fds : fdtab[f] \in File \cup {NoFile}
    BY DEF TypeInv, TypeOK
  <1>2. CASE ~(Open \/ Discard \/ CloseDevice)
    <2>1. UNCHANGED <<fdtab, of>>
      BY <1>2, QuietSteps
      DEF Next, Library, Quiet, Create, Select, RequestBuffers, TooFewBuffers,
          MapBuffer, Enqueue, StreamOn, Find, StreamOff, Unmap, kernel, system
    <2> QED
      BY <2>1 DEF Leaked
  <1>3. CASE Open
    <2> DEFINE x == CHOOSE y \in FreeFiles : TRUE
    <2>1. PICK f \in FreeFds : /\ fdtab' = [fdtab EXCEPT ![f] = x]
                               /\ of' = [of EXCEPT ![x] = node[name]]
      BY <1>3 DEF Open
    <2>2. x \in File /\ of[x] = NoDev
      BY <1>3 DEF Open, FreeFiles
    <2> HIDE DEF x
    <2>3. f \in Fds /\ fdtab[f] = NoFile
      BY <2>1 DEF FreeFds
    <2>4. \A g \in Fds : fdtab'[g] = IF g = f THEN x ELSE fdtab[g]
      BY <2>1, <2>3 DEF TypeInv, TypeOK
    <2>5. \A y \in File : of'[y] = IF y = x THEN node[name] ELSE of[y]
      BY <2>1, <2>2 DEF TypeInv, TypeOK
    <2>6. \A y \in File :
            y \in Leaked <=> of[y] # NoDev /\ \A g \in Fds : fdtab[g] # y
      BY DEF Leaked
    <2>7. \A y \in File :
            y \in Leaked' <=> of'[y] # NoDev /\ \A g \in Fds : fdtab'[g] # y
      BY DEF Leaked
    <2>8. \A y \in File : y \in Leaked' <=> y \in Leaked
      BY <2>2, <2>3, <2>4, <2>5, <2>6, <2>7, FileAssumption
    <2> QED
      BY <2>8 DEF Leaked
  <1>4. CASE (Discard \/ CloseDevice) /\ dev.fd = -1
    BY <1>4 DEF Discard, CloseDevice, MgDeviceDestroy, Leaked
  <1>5. CASE (Discard \/ CloseDevice) /\ dev.fd # -1
    <2>1. /\ dev.fd \in Fds /\ TheFile \in File /\ of[TheFile] \in Dev
          /\ fdtab[dev.fd] = TheFile
      BY <1>5, FileAtHand, HandFile DEF Discard, CloseDevice, Removal, TheFile
    <2>2. \A f \in Fds : fdtab'[f] = IF f = dev.fd THEN NoFile ELSE fdtab[f]
      BY <1>5, <2>1 DEF Discard, CloseDevice, MgDeviceDestroy, TypeInv, TypeOK
    <2>3. \A f \in Fds : fdtab[f] = TheFile => f = dev.fd
      BY <2>1, FileAssumption DEF FileInv
    <2>4. \A y \in File :
            y \in Leaked <=> of[y] # NoDev /\ \A g \in Fds : fdtab[g] # y
      BY DEF Leaked
    <2>5. \A y \in File :
            y \in Leaked' <=> of'[y] # NoDev /\ \A g \in Fds : fdtab'[g] # y
      BY DEF Leaked
    <2>6. CASE maps[TheFile] = {}
      <3>1. \A y \in File : of'[y] = IF y = TheFile THEN NoDev ELSE of[y]
        BY <1>5, <2>1, <2>6
        DEF Discard, CloseDevice, MgDeviceDestroy, Released, TypeInv, TypeOK
      <3>2. \A y \in File : y \in Leaked' <=> y \in Leaked
        BY <2>1, <2>2, <2>4, <2>5, <3>1, FileAssumption
      <3> QED
        BY <3>2 DEF Leaked
    <2>7. CASE maps[TheFile] # {}
      <3>1. of' = of
        BY <1>5, <2>7 DEF Discard, CloseDevice, MgDeviceDestroy
      <3>2. \A y \in File : y \in Leaked' <=> y \in Leaked \/ y = TheFile
        BY <2>1, <2>2, <2>3, <2>4, <2>5, <3>1, FileAssumption, DevAssumption
      <3>3. Leaked' = Leaked \cup {TheFile}
        BY <2>1, <3>2 DEF Leaked
      <3>4. LeakAhead /\ ~LeakAhead'
        BY <1>5, <2>7 DEF Discard, CloseDevice, LeakAhead, Return, EndDeregister
      <3> QED
        BY <3>3, <3>4
    <2> QED
      BY <2>6, <2>7
  <1> QED
    BY <1>2, <1>3, <1>4, <1>5

\* The object at hand comes to leave a file behind by a failure.
LEMMA LeakAheadNext ==
  ASSUME TypeInv, StageInv, Next, LeakAhead', ~LeakAhead
  PROVE  faults' = faults + 1
  <1> USE DEF StageInv, Goto, Return, EndDeregister, Fault
  <1>1. CASE Rename \/ Program
    BY <1>1 DEF Rename, Program, CallRegister, CallDeregister, CallDestroy,
       LeakAhead, TheFile, system, kernel, library
  <1>2. CASE OpenFails
    BY <1>2 DEF OpenFails, LeakAhead, TypeInv, ControlInv, kernel, system
  <1>3. CASE TooFewBuffers
    BY <1>3 DEF TooFewBuffers
  <1>4. CASE SetupFails
    BY <1>4 DEF SetupFails, LeakAhead, HandInv, Early, TheFile, kernel, system
  <1>5. CASE Unmapped
    <2>1. CASE i = NumBufs
      <3>1. i .. NumBufs - 1 = {}
        BY <2>1, BufsAssumption
      <3> QED
        BY <1>5, <3>1 DEF Unmapped, LeakAhead, HandInv, TheFile, kernel, system
    <2>2. CASE i # NumBufs
      <3>1. dev.number = NumBufs /\ dev.start = Index /\ i \in Index
        BY <1>5, <2>2, BufsAssumption
        DEF Unmapped, HandInv, Complete, Index, TypeInv, TypeOK
      <3>2. ~UnmapEnds /\ Known(dev, i)
        BY <2>2, <3>1, BufsAssumption DEF UnmapEnds, Known, Index
      <3> QED
        BY <1>5, <3>2 DEF Unmapped
    <2> QED
      BY <2>1, <2>2
  <1>6. CASE ~(Rename \/ Program \/ OpenFails \/ TooFewBuffers \/ SetupFails
               \/ Unmapped)
    BY <1>6 DEF Next, Library, StatFails, Duplicate, Create, Open,
       TestCapability, Select, SetCrop, SetFormat, RequestBuffers, MapBuffer,
       AllMapped, Enqueue, StreamOn, Discard, NotFound, Find, StreamOff, Unmap,
       CloseDevice, DestroyNext, DestroyEnds, LeakAhead
  <1> QED
    BY <1>1, <1>2, <1>3, <1>4, <1>5, <1>6

\* Failures are counted.
LEMMA FaultsNext ==
  ASSUME TypeInv, Next
  PROVE  faults' \in {faults, faults + 1}
  <1> USE DEF Fault, system
  <1>1. CASE Quiet
    BY <1>1 DEF Quiet, Rename, Program, CallRegister, CallDeregister,
       CallDestroy, StatFails, Duplicate, OpenFails, TestCapability, SetCrop,
       SetFormat, AllMapped, SetupFails, NotFound, Unmapped, DestroyNext,
       DestroyEnds
  <1>2. CASE ~Quiet
    BY <1>2 DEF Next, Library, Quiet, Create, Open, Select, RequestBuffers,
       TooFewBuffers, MapBuffer, Enqueue, StreamOn, Discard, MgDeviceDestroy,
       Find, StreamOff, Unmap, CloseDevice
  <1> QED
    BY <1>1, <1>2

\* Every step keeps LeakInv, and so the three invariants always hold.
LEMMA LeakNext == TypeInv /\ StageInv /\ LeakInv /\ [Next]_vars => LeakInv'
  <1> SUFFICES ASSUME TypeInv, StageInv, LeakInv, [Next]_vars PROVE LeakInv'
    OBVIOUS
  <1>1. CASE UNCHANGED vars
    BY <1>1
    DEF vars, system, kernel, library, LeakInv, LeakAhead, Leaked, TheFile
  <1>2. CASE Next
    <2>1. faults \in Nat /\ faults' \in {faults, faults + 1}
      BY <1>2, FaultsNext DEF TypeInv, TypeOK
    <2>2. IsFiniteSet(Leaked) /\ Cardinality(Leaked) \in Nat
      BY FS_CardinalityType DEF LeakInv
    <2>3. CASE Leaked' = Leaked
      BY <1>2, <2>1, <2>2, <2>3, LeakAheadNext DEF LeakInv
    <2>4. CASE LeakAhead /\ ~LeakAhead' /\ Leaked' = Leaked \cup {TheFile}
      <3>1. /\ IsFiniteSet(Leaked \cup {TheFile})
            /\ \/ Cardinality(Leaked \cup {TheFile}) = Cardinality(Leaked)
               \/ Cardinality(Leaked \cup {TheFile}) = Cardinality(Leaked) + 1
        BY <2>2, FS_AddElement
      <3>2. Cardinality(Leaked \cup {TheFile}) <= Cardinality(Leaked) + 1
        BY <2>2, <3>1
      <3> QED
        BY <2>1, <2>2, <2>4, <3>1, <3>2 DEF LeakInv
    <2> QED
      BY <1>2, <2>3, <2>4, LeakedNext
  <1> QED
    BY <1>1, <1>2

LEMMA LeakInvariant == Spec => [](TypeInv /\ StageInv /\ LeakInv)
  <1>1. Init => LeakInv
    <2> SUFFICES ASSUME Init PROVE LeakInv
      OBVIOUS
    <2>1. Leaked = {} /\ ~LeakAhead /\ faults = 0
      BY DEF Init, Leaked, LeakAhead
    <2> QED
      BY <2>1, FS_EmptySet DEF LeakInv
  <1> QED
    BY <1>1, TypeInit, StageInit, TypeNext, StageNext, LeakNext, PTL DEF Spec

\* A system call that fails leaves at most one open file behind, under any
\* names, and however many devices have been registered and failed before.
THEOREM OneLeakPerFailure == Spec => []LeakPerFailure
  <1>1. TypeInv /\ LeakInv => LeakPerFailure
    BY FS_CardinalityType DEF LeakInv, LeakPerFailure, TypeInv, TypeOK
  <1> QED
    BY <1>1, LeakInvariant, PTL

-----------------------------------------------------------------------------
(* Device numbers, as long as a name keeps its meaning during a call.      *)

\* The device of the number that stat() found is the one that is opened, and no
\* other object has that number.
NumberInv ==
  /\ \A o, p \in device : o.devno = p.devno => o = p
  /\ dev # NoObj => \A o \in device : o.devno # dev.devno
  /\ \A o \in Objects : o.fd # -1 => of[fdtab[o.fd]] = o.devno
  /\ pc = "open" => dev.devno = node[name]

\* The input and the standard of a listed device are selected, and stay so.
SelectInv ==
  /\ \A o \in device : selected[o.devno] = Setting
  /\ pc = "standard" => "input" \in selected[dev.devno]
  /\ pc \in {"crop", "format", "request", "map", "enqueue", "streamon"} =>
       selected[dev.devno] = Setting

\* The file of an object of a number is that of the device of the number, and
\* stays so while it is open.
LEMMA NumberNext ==
  ASSUME ~RenameInCall, TypeInv, StageInv, NumberInv, Next
  PROVE  NumberInv'
  <1> USE DEF StageInv
  <1>1. CASE Rename
    BY <1>1 DEF Rename, NumberInv, Objects, library
  <1>2. CASE Quiet /\ ~Rename
    <2>1. UNCHANGED <<fdtab, of, device, dev>> /\ pc' # "open"
      BY <1>2, QuietSteps DEF Quiet, Program, CallRegister, CallDeregister,
         CallDestroy, StatFails, Duplicate, OpenFails, TestCapability, SetCrop,
         SetFormat, AllMapped, SetupFails, NotFound, Unmapped, DestroyNext,
         DestroyEnds, Goto, Return, EndDeregister
    <2> QED
      BY <2>1 DEF NumberInv, Objects
  <1>3. CASE Create
    <2>1. /\ dev = NoObj /\ dev'.fd = -1 /\ dev'.devno = node[name]
          /\ \A o \in device : o.devno # node[name]
          /\ UNCHANGED <<device, fdtab, of, node, name>>
      BY <1>3 DEF Create, Created, Goto, FoundNumber, system, kernel, TypeInv,
         ControlInv, Setup, Removal, Early
    <2> QED
      BY <2>1 DEF NumberInv, Objects
  <1>4. CASE Open
    <2> DEFINE x == CHOOSE y \in FreeFiles : TRUE
    <2>1. PICK f \in FreeFds : /\ fdtab' = [fdtab EXCEPT ![f] = x]
                               /\ of' = [of EXCEPT ![x] = node[name]]
                               /\ dev' = [dev EXCEPT !.fd = f]
      BY <1>4 DEF Open
    <2>2. x \in File /\ of[x] = NoDev
      BY <1>4 DEF Open, FreeFiles
    <2> HIDE DEF x
    <2>3. f \in Fds /\ fdtab[f] = NoFile
      BY <2>1 DEF FreeFds
    <2>4. \A g \in Fds : fdtab'[g] = IF g = f THEN x ELSE fdtab[g]
      BY <2>1, <2>3 DEF TypeInv, TypeOK
    <2>5. \A y \in File : of'[y] = IF y = x THEN node[name] ELSE of[y]
      BY <2>1, <2>2 DEF TypeInv, TypeOK
    <2>6. dev \in Object /\ dev.devno = node[name]
      BY <1>4 DEF Open, TypeInv, TypeOK, ControlInv, NumberInv
    <2>7. dev'.fd = f /\ dev'.devno = dev.devno /\ dev # NoObj
      BY <2>1, <2>6, ObjAssumption DEF Object
    <2>8. ASSUME NEW o \in device PROVE of'[fdtab'[o.fd]] = o.devno
      <3>1. o.fd \in Fds /\ o.fd # -1 /\ fdtab[o.fd] # NoFile
        BY NotAFd DEF TypeInv, FdInv
      <3>2. fdtab[o.fd] \in File /\ of[fdtab[o.fd]] # NoDev
        BY <3>1 DEF FileInv, TypeInv, TypeOK
      <3>3. of[fdtab[o.fd]] = o.devno
        BY <3>1 DEF NumberInv, Objects
      <3> QED
        BY <2>2, <2>3, <2>4, <2>5, <3>1, <3>2, <3>3
    <2>9. of'[fdtab'[dev'.fd]] = dev'.devno
      BY <2>2, <2>3, <2>4, <2>5, <2>6, <2>7
    <2>10. device' = device /\ pc' # "open"
      BY <1>4 DEF Open, Goto
    <2> QED
      BY <2>6, <2>7, <2>8, <2>9, <2>10 DEF NumberInv, Objects
  <1>5. CASE \/ Select("input", "standard") \/ Select("standard", "crop")
             \/ TooFewBuffers \/ Enqueue \/ StreamOff \/ Unmap
    BY <1>5 DEF Select, TooFewBuffers, Enqueue, StreamOff, Unmap, Goto,
       NumberInv, Objects
  <1>6. CASE RequestBuffers \/ MapBuffer
    <2>1. dev \in Object /\ dev # NoObj
      BY <1>6, FileAtHand, ObjAssumption
      DEF RequestBuffers, MapBuffer, Setup, Early
    <2>2. dev' = Allocated(dev) \/ dev' = Noted(dev, i)
      BY <1>6 DEF RequestBuffers, MapBuffer
    <2>3. dev'.fd = dev.fd /\ dev'.devno = dev.devno
      BY <2>1, <2>2 DEF Allocated, Noted, Object
    <2>4. UNCHANGED <<fdtab, of, device>> /\ pc' # "open"
      BY <1>6 DEF RequestBuffers, MapBuffer, Goto
    <2> QED
      BY <2>1, <2>3, <2>4 DEF NumberInv, Objects
  <1>7. CASE StreamOn
    <2>1. dev \in Object /\ dev # NoObj
      BY <1>7, FileAtHand, ObjAssumption DEF StreamOn, Setup
    <2> QED
      BY <1>7, <2>1 DEF StreamOn, Return, NumberInv, Objects
  <1>8. CASE Discard \/ CloseDevice
    <2>1. dev' = NoObj /\ device' = device /\ pc' # "open"
      BY <1>8 DEF Discard, CloseDevice, MgDeviceDestroy, Return, EndDeregister
    <2>2. ASSUME NEW o \in device PROVE of'[fdtab'[o.fd]] = o.devno
      <3>1. o.fd # -1 /\ o.fd \in Fds /\ fdtab[o.fd] \in File
        BY NotAFd, FileAssumption DEF TypeInv, FdInv, TypeOK
      <3>2. of[fdtab[o.fd]] = o.devno /\ fdtab'[o.fd] = fdtab[o.fd]
        BY <3>1, OthersFiles DEF NumberInv, Objects
      <3>3. CASE dev.fd = -1
        BY <1>8, <3>2, <3>3 DEF Discard, CloseDevice, MgDeviceDestroy
      <3>4. CASE dev.fd # -1
        <4>1. fdtab[o.fd] # TheFile
          BY <1>8, <3>4, HandFile DEF Discard, CloseDevice, Removal
        <4> QED
          BY <1>8, <3>1, <3>2, <3>4, <4>1
          DEF Discard, CloseDevice, MgDeviceDestroy, Released, TypeInv, TypeOK
      <3> QED
        BY <3>3, <3>4
    <2> QED
      BY <2>1, <2>2 DEF NumberInv, Objects
  <1>9. CASE Find
    <2>1. /\ dev' \in device /\ dev' # NoObj /\ device' = device \ {dev'}
          /\ UNCHANGED <<fdtab, of>> /\ pc' # "open"
      BY <1>9, ObjAssumption
      DEF Find, FoundFd, Goto, system, kernel, TypeInv, TypeOK
    <2> QED
      BY <2>1 DEF NumberInv, Objects
  <1> QED
    BY <1>1, <1>2, <1>3, <1>4, <1>5, <1>6, <1>7, <1>8, <1>9
    DEF Next, Library, Quiet

\* What is selected of a device, stays so until its object is destroyed.
LEMMA SelectNext ==
  ASSUME ~RenameInCall, TypeInv, StageInv, NumberInv, SelectInv, Next
  PROVE  SelectInv'
  <1> USE DEF StageInv, Goto, Return, EndDeregister
  <1>1. CASE Rename \/ Program
    BY <1>1 DEF Rename, Program, CallRegister, CallDeregister, CallDestroy,
       SelectInv, system, kernel, library
  <1>2. CASE Quiet /\ ~(Rename \/ Program)
    <2>1. /\ UNCHANGED <<selected, device, dev>>
          /\ pc' \notin {"standard", "crop", "map", "streamon"}
          /\ pc' \in {"format", "request", "enqueue"} =>
               pc \in {"crop", "format", "map"}
      BY <1>2, QuietSteps DEF Quiet, StatFails, Duplicate, OpenFails,
         TestCapability, SetCrop, SetFormat, AllMapped, SetupFails, NotFound,
         Unmapped, DestroyNext, DestroyEnds
    <2> QED
      BY <2>1 DEF SelectInv
  <1>3. CASE Create \/ Open \/ TooFewBuffers \/ Find \/ StreamOff \/ Unmap
    <2>1. /\ selected' = selected /\ device' \subseteq device
          /\ pc' \in {"open", "capability", "discard", "streamoff", "unmap"}
      BY <1>3
      DEF Create, Open, TooFewBuffers, Find, StreamOff, Unmap, system, kernel
    <2> QED
      BY <2>1 DEF SelectInv
  <1>4. CASE RequestBuffers \/ MapBuffer
    <2>1. dev \in Object
      BY <1>4, FileAtHand DEF RequestBuffers, MapBuffer, Setup, Early
    <2>2. dev' = Allocated(dev) \/ dev' = Noted(dev, i)
      BY <1>4 DEF RequestBuffers, MapBuffer
    <2>3. dev'.devno = dev.devno
      BY <2>1, <2>2 DEF Allocated, Noted, Object
    <2> QED
      BY <1>4, <2>3 DEF RequestBuffers, MapBuffer, SelectInv
  <1>5. CASE Enqueue \/ StreamOn
    BY <1>5 DEF Enqueue, StreamOn, SelectInv
  <1>6. CASE Select("input", "standard") \/ Select("standard", "crop")
    <2>1. dev \in Object /\ dev # NoObj /\ dev.fd \in Fds
      BY <1>6, FileAtHand, ObjAssumption DEF Select, Setup, Early
    <2>2. of[TheFile] = dev.devno /\ dev.devno \in Dev
      BY <2>1, NotAFd DEF NumberInv, Objects, TheFile, Object
    <2>3. \A o \in device : o.devno # dev.devno /\ o.devno \in Dev
      BY <2>1 DEF NumberInv, TypeInv, TypeOK, Object
    <2>4. CASE Select("input", "standard")
      BY <2>2, <2>3, <2>4 DEF Select, SelectInv, TypeInv, TypeOK
    <2>5. CASE Select("standard", "crop")
      BY <2>2, <2>3, <2>5 DEF Select, SelectInv, TypeInv, TypeOK, Setting
    <2> QED
      BY <1>6, <2>4, <2>5
  <1>7. CASE Discard \/ CloseDevice
    <2>1. device' = device /\ pc' \in {"idle", "destroy"}
      BY <1>7 DEF Discard, CloseDevice, MgDeviceDestroy
    <2>2. CASE dev.fd = -1
      BY <1>7, <2>1, <2>2 DEF Discard, CloseDevice, MgDeviceDestroy, SelectInv
    <2>3. CASE dev.fd # -1
      <3>1. dev \in Object /\ dev # NoObj /\ dev.fd \in Fds
        BY <1>7, <2>3, FileAtHand, ObjAssumption
        DEF Discard, CloseDevice, Removal
      <3>2. of[TheFile] = dev.devno /\ dev.devno \in Dev
        BY <2>3, <3>1 DEF NumberInv, Objects, TheFile, Object
      <3>3. \A o \in device : o.devno # dev.devno /\ o.devno \in Dev
        BY <3>1 DEF NumberInv, TypeInv, TypeOK, Object
      <3>4. selected' = [selected EXCEPT ![dev.devno] = {}]
        BY <1>7, <2>3, <3>2 DEF Discard, CloseDevice, MgDeviceDestroy
      <3> QED
        BY <2>1, <3>2, <3>3, <3>4 DEF SelectInv, TypeInv, TypeOK
    <2> QED
      BY <2>2, <2>3
  <1> QED
    BY <1>1, <1>2, <1>3, <1>4, <1>5, <1>6, <1>7 DEF Next, Library, Quiet

SetupInv == TypeInv /\ StageInv /\ NumberInv /\ SelectInv

\* While names keep their meaning during a call, SetupInv always holds.
LEMMA SetupInvariant ==
  ASSUME ~RenameInCall
  PROVE  Spec => []SetupInv
  <1>1. Init => NumberInv /\ SelectInv
    BY DEF Init, NumberInv, SelectInv, Objects
  <1>2. SetupInv /\ [Next]_vars => SetupInv'
    <2> SUFFICES ASSUME SetupInv, [Next]_vars PROVE SetupInv'
      OBVIOUS
    <2>1. CASE UNCHANGED vars
      BY <2>1, TypeNext, StageNext DEF SetupInv, vars, system, kernel, library,
         NumberInv, SelectInv, Objects
    <2>2. CASE Next
      BY <2>2, TypeNext, StageNext, NumberNext, SelectNext DEF SetupInv
    <2> QED
      BY <2>1, <2>2
  <1>3. Init => SetupInv
    BY <1>1, TypeInit, StageInit DEF SetupInv
  <1> QED
    BY <1>2, <1>3, PTL DEF Spec

\* A listed device is wholly set up, on the device of its number, as long as
\* names keep their meaning during a call.
THEOREM RegisteredAreReady ==
  ASSUME ~RenameInCall
  PROVE  Spec => []RegisteredReady
  <1>1. SetupInv => RegisteredReady
    <2> SUFFICES ASSUME SetupInv, NEW o \in device
                 PROVE  LET x == fdtab[o.fd] IN
                        /\ of[x] = o.devno /\ selected[o.devno] = Setting
                        /\ x \in owners /\ x \in streams
                        /\ o.start = Index /\ maps[x] = Index
      BY DEF RegisteredReady
    <2>1. o \in Objects /\ o.fd # -1
      BY NotAFd, ObjAssumption DEF SetupInv, TypeInv, TypeOK, FdInv, Objects
    <2> QED
      BY <2>1
      DEF SetupInv, StageInv, ListedInv, Complete, NumberInv, SelectInv
  <1> QED
    BY <1>1, SetupInvariant, PTL

\* Two open descriptors are those of two objects, with two numbers.
LEMMA DevicesDiffer == SetupInv => OneOpenPerDevice
  <1> SUFFICES ASSUME SetupInv, NEW f \in Fds, NEW g \in Fds, f # g,
                      fdtab[f] # NoFile, fdtab[g] # NoFile
               PROVE  of[fdtab[f]] # of[fdtab[g]]
    BY DEF OneOpenPerDevice
  <1>1. PICK o \in Objects : o.fd = f
    BY DEF SetupInv, TypeInv, FdInv, Objects
  <1>2. PICK p \in Objects : p.fd = g
    BY DEF SetupInv, TypeInv, FdInv, Objects
  <1>3. of[fdtab[f]] = o.devno /\ of[fdtab[g]] = p.devno
    BY <1>1, <1>2, NotAFd DEF SetupInv, NumberInv
  <1>4. o.devno # p.devno
    BY <1>1, <1>2 DEF SetupInv, NumberInv, Objects
  <1> QED
    BY <1>3, <1>4

\* No device is opened twice, under whatever names it is registered, as long as
\* names keep their meaning during a call.
THEOREM OpenedOnce ==
  ASSUME ~RenameInCall
  PROVE  Spec => []OneOpenPerDevice
  BY SetupInvariant, DevicesDiffer, PTL

\* Under the same condition, only a leaked file can have the buffers of a device
\* that is being registered.
THEOREM BusyByLeaks ==
  ASSUME ~RenameInCall
  PROVE  Spec => []BusyMeansLeaked
  <1>1. SetupInv => BusyMeansLeaked
    <2> SUFFICES ASSUME SetupInv, pc = "request", NEW y \in Holders(TheFile)
                 PROVE  y \in Leaked
      BY DEF BusyMeansLeaked
    <2> USE DEF SetupInv
    <2>1. /\ dev.fd \in Fds /\ TheFile \in File /\ of[TheFile] \in Dev
          /\ TheFile \notin owners
      BY FileAtHand, HandFile DEF StageInv, HandInv, Setup, Early
    <2>2. y \in File /\ y \in owners /\ of[y] = of[TheFile]
      BY DEF Holders, TypeInv, TypeOK
    <2>3. ASSUME NEW g \in Fds PROVE fdtab[g] # y
      BY <2>1, <2>2, DevicesDiffer, FileAssumption DEF OneOpenPerDevice, TheFile
    <2> QED
      BY <2>1, <2>2, <2>3, DevAssumption DEF Leaked
  <1> QED
    BY <1>1, SetupInvariant, PTL

-----------------------------------------------------------------------------
(* DeviceSetup implements Registry, as long as names keep their meaning.   *)

\* The device of the object at hand is the one that the program named.
NameInv == pc \in Setup => dev.devno = node[name]

\* Every step keeps NameInv, under the same condition.
LEMMA NameNext ==
  ASSUME ~RenameInCall, SetupInv, NameInv, Next
  PROVE  NameInv'
  <1> USE DEF NameInv, SetupInv, Setup, Early, Goto, Return, EndDeregister
  <1>1. CASE Rename \/ Program
    BY <1>1 DEF Rename, Program, CallRegister, CallDeregister, CallDestroy,
       system, kernel, library
  <1>2. CASE Quiet /\ ~(Rename \/ Program)
    <2>1. UNCHANGED <<node, dev, name>>
      BY <1>2 DEF Quiet, StatFails, Duplicate, OpenFails,
         TestCapability, SetCrop, SetFormat, AllMapped, SetupFails, NotFound,
         Unmapped, DestroyNext, DestroyEnds, system, kernel
    <2>2. pc' \in Setup => pc \in Setup
      BY <1>2 DEF Quiet, StatFails, Duplicate, OpenFails,
         TestCapability, SetCrop, SetFormat, AllMapped, SetupFails, NotFound,
         Unmapped, DestroyNext, DestroyEnds
    <2> QED
      BY <2>1, <2>2
  <1>3. CASE Open
    <2>1. dev \in Object /\ dev.devno = node[name]
      BY <1>3 DEF Open, TypeInv, TypeOK, ControlInv, NumberInv
    <2> QED
      BY <1>3, <2>1 DEF Open, Object
  <1>4. CASE RequestBuffers \/ MapBuffer
    <2>1. dev \in Object
      BY <1>4, FileAtHand DEF RequestBuffers, MapBuffer
    <2> QED
      BY <1>4, <2>1 DEF RequestBuffers, MapBuffer, Allocated, Noted, Object
  <1>5. CASE \/ Create \/ TooFewBuffers \/ StreamOn \/ Discard \/ Find
             \/ StreamOff \/ Unmap \/ CloseDevice
    BY <1>5
    DEF Create, TooFewBuffers, StreamOn, Discard, Find, StreamOff, Unmap,
       CloseDevice
  <1>6. CASE Select("input", "standard") \/ Select("standard", "crop") \/ Enqueue
    BY <1>6 DEF Select, Enqueue
  <1> QED
    BY <1>1, <1>2, <1>3, <1>4, <1>5, <1>6 DEF Next, Library, Quiet

\* The table is that of the registered objects: a device's entry is the
\* descriptor of its object.
Entries ==
  /\ \A o \in Registered : /\ o \in Object /\ o.fd \in Fds
                           /\ IdTable[o.devno] = o.fd
  /\ \A o, p \in Registered : o.devno = p.devno \/ o.fd = p.fd => o = p
  /\ \A d : d \in DOMAIN IdTable <=> \E o \in Registered : o.devno = d

\* The objects that are registered, the one being removed with them, differ in
\* their numbers and in their descriptors.
LEMMA TableEntries == SetupInv => Entries
  <1> SUFFICES ASSUME SetupInv PROVE Entries
    OBVIOUS
  <1> USE DEF SetupInv
  <1>1. ASSUME NEW o \in Registered
        PROVE  o \in Object /\ o.fd \in Fds
    BY <1>1, FileAtHand DEF Registered, TypeInv, TypeOK, FdInv, Removal
  <1>2. ASSUME NEW o \in Registered, NEW p \in Registered,
               o.devno = p.devno \/ o.fd = p.fd
        PROVE  o = p
    BY <1>1, <1>2, ObjAssumption
    DEF Registered, NumberInv, TypeInv, FdInv, ControlInv, Removal
  <1>3. ASSUME NEW o \in Registered PROVE IdTable[o.devno] = o.fd
    <2>1. (CHOOSE p \in Registered : p.devno = o.devno) = o
      BY <1>2
    <2> QED
      BY <2>1 DEF IdTable, IdOf
  <1>4. ASSUME NEW d
        PROVE  d \in DOMAIN IdTable <=> \E o \in Registered : o.devno = d
    BY DEF IdTable
  <1> QED
    BY <1>1, <1>2, <1>3, <1>4 DEF Entries

\* The same of the table after a step.
LEMMA EntriesNext == SetupInv' => Entries'
  BY TableEntries, PTL

\* Where the registered objects are the same, so is the table.
LEMMA TableSame ==
  ASSUME Registered' = Registered
  PROVE  IdTable' = IdTable
  BY DEF IdTable, IdOf

\* The steps inside a call, which Registry does not see.
LEMMA InnerSteps ==
  ASSUME ~RenameInCall, SetupInv,
         \/ Rename \/ CallDestroy \/ Create \/ Open \/ OpenFails
         \/ TestCapability \/ Select("input", "standard") \/ Select("standard", "crop")
         \/ SetCrop \/ SetFormat \/ RequestBuffers \/ TooFewBuffers
         \/ MapBuffer \/ AllMapped \/ Enqueue \/ SetupFails
         \/ Find \/ StreamOff \/ Unmap \/ Unmapped \/ DestroyEnds
  PROVE  UNCHANGED Table!vars
  <1> USE DEF SetupInv, TypeInv, ControlInv, Setup, Removal, Early, Goto, Return
  <1>1. Registered' = Registered
    <2>1. CASE Find
      BY <2>1 DEF Find, FoundFd, Registered
    <2>2. CASE StreamOff \/ Unmap \/ Unmapped
      BY <2>2 DEF StreamOff, Unmap, Unmapped, Registered
    <2>3. CASE Rename \/ CallDestroy \/ DestroyEnds
      BY <2>3 DEF Rename, CallDestroy, DestroyEnds, Registered, system, library
    <2>4. CASE \/ Create \/ Open \/ OpenFails \/ TestCapability \/ SetCrop
               \/ SetFormat \/ RequestBuffers \/ TooFewBuffers
      BY <2>4 DEF Create, Open, OpenFails, TestCapability, SetCrop, SetFormat,
         RequestBuffers, TooFewBuffers, Registered
    <2>5. CASE \/ Select("input", "standard") \/ Select("standard", "crop")
               \/ MapBuffer \/ AllMapped \/ Enqueue \/ SetupFails
      BY <2>5 DEF Select, MapBuffer, AllMapped, Enqueue, SetupFails, Registered
    <2> QED
      BY <2>1, <2>2, <2>3, <2>4, <2>5
  <1>2. CallOf' = CallOf /\ ret' = ret
    <2>1. CASE Find \/ StreamOff \/ Unmap \/ Unmapped
      BY <2>1 DEF Find, StreamOff, Unmap, Unmapped, CallOf
    <2>2. CASE Rename \/ CallDestroy \/ DestroyEnds
      BY <2>2
      DEF Rename, CallDestroy, DestroyEnds, CallOf, NoCall, system, library
    <2>3. CASE \/ Create \/ Open \/ OpenFails \/ TestCapability \/ SetCrop
               \/ SetFormat \/ RequestBuffers \/ TooFewBuffers
      BY <2>3 DEF Create, Open, OpenFails, TestCapability, SetCrop, SetFormat,
         RequestBuffers, TooFewBuffers, CallOf, system, kernel
    <2>4. CASE \/ Select("input", "standard") \/ Select("standard", "crop")
               \/ MapBuffer \/ AllMapped \/ Enqueue \/ SetupFails
      BY <2>4 DEF Select, MapBuffer, AllMapped, Enqueue, SetupFails, CallOf,
         system, kernel
    <2> QED
      BY <2>1, <2>2, <2>3, <2>4
  <1> QED
    BY <1>1, <1>2, TableSame DEF Table!vars

\* The program's calls, and each call that mg_destroy makes.
LEMMA CallSteps ==
  ASSUME SetupInv, SetupInv',
         (\E x \in Name : CallRegister(x)) \/
         (\E f \in Fds \cup {-1} : CallDeregister(f)) \/ DestroyNext
  PROVE  Table!Call
  <1> USE DEF SetupInv, TypeInv, ControlInv, Setup, Removal, Early
  <1>1. CallOf = NoCall /\ Registered' = Registered /\ ret' = ret
    BY DEF CallRegister, CallDeregister, DestroyNext, CallOf, Registered
  <1>2. CallOf' \in Table!Calls
    <2>1. CASE \E x \in Name : CallRegister(x)
      BY <2>1 DEF CallRegister, CallOf, Table!Calls, TypeOK
    <2>2. CASE (\E f \in Fds \cup {-1} : CallDeregister(f)) \/ DestroyNext
      BY <2>2 DEF CallDeregister, DestroyNext, CallOf, Table!Calls, TypeOK
    <2> QED
      BY <2>1, <2>2
  <1> QED
    BY <1>1, <1>2, TableSame DEF Table!Call

\* A failed registration, and a deregistration that finds no device.
LEMMA RefuseSteps ==
  ASSUME SetupInv, StatFails \/ Discard \/ NotFound
  PROVE  Table!Refuse
  <1> USE DEF SetupInv, TypeInv, ControlInv, Setup, Removal, Early
  <1>1. Registered' = Registered /\ ret' = -1 /\ CallOf' = NoCall
    BY DEF StatFails, Discard, NotFound, MgDeviceDestroy, Return, EndDeregister,
       Registered, CallOf
  <1>2. CASE StatFails \/ Discard
    <2>1. CallOf = [op |-> "register", dev |-> node[name]]
      BY <1>2 DEF StatFails, Discard, CallOf
    <2> QED
      BY <1>1, <2>1, TableSame DEF Table!Refuse, Table!Answer, TypeOK
  <1>3. CASE NotFound
    <2>1. CallOf = [op |-> "deregister", dev |-> NoDev, id |-> id] /\ id \in Int
      BY <1>3 DEF NotFound, CallOf, TypeOK
    <2>2. \A o \in Registered : o.fd # id
      BY <1>3 DEF NotFound, FoundFd, Registered
    <2>3. id \notin Table!Ids
      <3> SUFFICES ASSUME NEW d \in DOMAIN IdTable PROVE IdTable[d] # id
        BY DEF Table!Ids
      <3> QED
        BY <2>2, TableEntries DEF Entries
    <2>4. /\ CallOf \in [op : {"deregister"}, dev : {NoDev}, id : Int]
          /\ CallOf.id = id
      BY <2>1
    <2> QED
      BY <1>1, <2>3, <2>4, TableSame DEF Table!Refuse, Table!Answer
  <1> QED
    BY <1>2, <1>3

\* The registration of a device that is registered already.
LEMMA AgainStep ==
  ASSUME SetupInv, Duplicate
  PROVE  Table!Again
  <1> USE DEF SetupInv, TypeInv, ControlInv, Setup, Removal, Early
  <1>1. PICK o \in device : o.devno = node[name] /\ Return(o.fd)
    BY DEF Duplicate, FoundNumber
  <1>2. /\ Registered = device /\ Registered' = Registered
        /\ CallOf = [op |-> "register", dev |-> o.devno] /\ CallOf' = NoCall
        /\ ret' = o.fd
    BY <1>1 DEF Duplicate, Return, Registered, CallOf
  <1>3. o.devno \in DOMAIN IdTable /\ IdTable[o.devno] = o.fd
    BY <1>2, TableEntries DEF Entries
  <1> QED
    BY <1>2, <1>3, TableSame DEF Table!Again, Table!Answer

\* A registration that succeeds: the device was not registered, and the
\* descriptor was nobody's.
LEMMA RegisterStep ==
  ASSUME SetupInv, SetupInv', NameInv, StreamOn
  PROVE  Table!Register
  <1> USE DEF SetupInv, TypeInv, ControlInv, Setup, Removal, Early
  <1> DEFINE d == dev.devno
             f == dev.fd
  <1>1. dev \in Object /\ dev # NoObj /\ f \in Fds /\ d \in Dev /\ d = node[name]
    BY FileAtHand DEF StreamOn, NameInv, Object
  <1>2. /\ Registered = device /\ Registered' = device \cup {dev}
        /\ CallOf = [op |-> "register", dev |-> d] /\ CallOf' = NoCall
        /\ ret' = f
    BY <1>1 DEF StreamOn, Return, Registered, CallOf
  <1>3. \A o \in device : o.devno # d /\ o.fd # f
    BY <1>1 DEF NumberInv, FdInv
  <1>4. d \notin DOMAIN IdTable
    BY <1>2, <1>3, TableEntries DEF Entries
  <1>5. f \notin Table!Ids
    <2> SUFFICES ASSUME NEW e \in DOMAIN IdTable PROVE IdTable[e] # f
      BY DEF Table!Ids
    <2> QED
      BY <1>2, <1>3, TableEntries DEF Entries
  <1>6. IdTable' = [e \in DOMAIN IdTable \cup {d} |->
                      IF e = d THEN f ELSE IdTable[e]]
    <2>1. \A o \in Registered' : IdTable'[o.devno] = o.fd
      BY EntriesNext DEF Entries
    <2>2. DOMAIN IdTable' = DOMAIN IdTable \cup {d}
      BY <1>2, TableEntries, EntriesNext DEF Entries
    <2>3. ASSUME NEW e \in DOMAIN IdTable \cup {d}
          PROVE  IdTable'[e] = IF e = d THEN f ELSE IdTable[e]
      <3>1. CASE e = d
        BY <1>2, <2>1, <3>1
      <3>2. CASE e # d
        <4>1. PICK o \in Registered : o.devno = e
          BY <2>3, <3>2, TableEntries DEF Entries
        <4> QED
          BY <1>2, <2>1, <3>2, <4>1, TableEntries DEF Entries
      <3> QED
        BY <3>1, <3>2
    <2> QED
      BY <2>2, <2>3 DEF IdTable
  <1> HIDE DEF d, f
  <1> QED
    BY <1>1, <1>2, <1>4, <1>5, <1>6 DEF Table!Register, Table!Answer

\* A deregistration that finds its device, however much of it fails.
LEMMA DeregisterStep ==
  ASSUME SetupInv, SetupInv', CloseDevice
  PROVE  Table!Deregister
  <1> USE DEF SetupInv, TypeInv, ControlInv, Setup, Removal, Early
  <1> DEFINE d == dev.devno
  <1>1. dev \in Object /\ dev # NoObj /\ dev.fd = id
    BY FileAtHand DEF CloseDevice
  <1>2. /\ Registered = device \cup {dev} /\ Registered' = device
        /\ CallOf = [op |-> "deregister", dev |-> NoDev, id |-> id]
        /\ CallOf' = NoCall /\ ret' = id
    BY <1>1 DEF CloseDevice, MgDeviceDestroy, EndDeregister, Return, Registered,
       CallOf
  <1>3. \A o \in device : o.devno # d
    BY <1>1 DEF NumberInv
  <1>4. d \in DOMAIN IdTable /\ IdTable[d] = id
    BY <1>1, <1>2, TableEntries DEF Entries
  <1>5. IdTable' = [e \in DOMAIN IdTable \ {d} |-> IdTable[e]]
    <2>1. DOMAIN IdTable' = DOMAIN IdTable \ {d}
      <3> SUFFICES ASSUME NEW e
                   PROVE  e \in DOMAIN IdTable' <=> e \in DOMAIN IdTable /\ e # d
        OBVIOUS
      <3> HIDE DEF SetupInv, TypeInv, ControlInv
      <3>1. e \in DOMAIN IdTable' <=> \E o \in device : o.devno = e
        BY <1>2, EntriesNext DEF Entries
      <3>2. e \in DOMAIN IdTable <=> \E o \in device \cup {dev} : o.devno = e
        BY <1>2, TableEntries DEF Entries
      <3> QED
        BY <1>3, <3>1, <3>2
    <2>2. ASSUME NEW e \in DOMAIN IdTable \ {d} PROVE IdTable'[e] = IdTable[e]
      <3>1. PICK o \in Registered' : o.devno = e
        BY <2>1, <2>2, EntriesNext DEF Entries
      <3> QED
        BY <1>2, <3>1, TableEntries, EntriesNext DEF Entries
    <2> QED
      BY <2>1, <2>2 DEF IdTable
  <1> HIDE DEF d
  <1> QED
    BY <1>2, <1>4, <1>5 DEF Table!Deregister, Table!Answer

\* Registration and deregistration keep the promises of Registry, whatever
\* fails, as long as names keep their meaning during a call.
THEOREM SetupImplementsRegistry ==
  ASSUME ~RenameInCall
  PROVE  Spec => ImplementsRegistry
  <1>1. Init => Table!Init /\ NameInv
    <2> SUFFICES ASSUME Init PROVE Table!Init /\ NameInv
      OBVIOUS
    <2>1. Registered = {} /\ CallOf = NoCall /\ ret = -1 /\ NameInv
      BY DEF Init, Registered, CallOf, NameInv, Setup, Early
    <2>2. IdTable = [d \in {} |-> 0]
      BY <2>1 DEF IdTable
    <2> QED
      BY <2>1, <2>2 DEF Table!Init
  <1>2. SetupInv /\ SetupInv' /\ NameInv /\ [Next]_vars
          => NameInv' /\ [Table!Next]_(Table!vars)
    <2> SUFFICES ASSUME SetupInv, SetupInv', NameInv, [Next]_vars
                 PROVE  NameInv' /\ [Table!Next]_(Table!vars)
      OBVIOUS
    <2>1. CASE UNCHANGED vars
      <3>1. UNCHANGED <<Registered, CallOf, ret, NameInv>>
        BY <2>1 DEF vars, system, kernel, library, Registered, CallOf, NameInv
      <3> QED
        BY <3>1, TableSame DEF Table!vars
    <2>2. CASE Next
      <3>1. Table!Next \/ UNCHANGED Table!vars
        BY <2>2, CallSteps, RefuseSteps, AgainStep, RegisterStep,
           DeregisterStep, InnerSteps DEF Next, Program, Library, Table!Next
      <3> QED
        BY <2>2, <3>1, NameNext
    <2> QED
      BY <2>1, <2>2
  <1> QED
    BY <1>1, <1>2, SetupInvariant, PTL DEF Spec, ImplementsRegistry, Table!Spec
=============================================================================
