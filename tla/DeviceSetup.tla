---------------------------- MODULE DeviceSetup ----------------------------
(***************************************************************************)
(* mg_register_device, mg_deregister_device and mg_destroy of               *)
(* multi-gee/multi-gee.c system call by system call, with what they call    *)
(* of mg_device.c, mg_buffer.c and fg_util.c: how a device is found, opened,*)
(* set up and mapped, and what each failure on the way leaves behind.       *)
(* MultiGee has each of these calls in one step.                            *)
(*                                                                         *)
(* The library is sequential and advances through the program counter `pc'. *)
(* Between its system calls the administrator may make a device name mean   *)
(* another device.                                                         *)
(*                                                                         *)
(* Of the system it models what these calls depend on.  An open file lives  *)
(* for as long as a descriptor or a memory mapping refers to it, and while  *)
(* it lives it keeps the buffers that it has requested from the driver,     *)
(* which then grants none to another file of the same device.              *)
(***************************************************************************)
EXTENDS Integers, FiniteSets

CONSTANTS
  Name,         \* device names
  Dev,          \* device numbers
  NoDev,        \* what a name means that means no character device
  Capable,      \* the video devices that can capture and stream
  Fds,          \* descriptor numbers of the process
  File,         \* open files of the system
  NoFile,       \* no open file
  NoObj,        \* no device object
  NumBufs,      \* buffers for each device (num_bufs)
  RenameInCall, \* may a name change its meaning during a call?
  MaxFaults     \* bound: number of system calls that fail

ASSUME DevAssumption == NoDev \notin Dev /\ Capable \subseteq Dev
ASSUME FdAssumption == Fds \subseteq Nat
ASSUME FileAssumption == NoFile \notin File
ASSUME BufsAssumption == NumBufs \in Nat \ {0}
ASSUME BoundAssumption == RenameInCall \in BOOLEAN /\ MaxFaults \in Nat

Index == 0 .. NumBufs - 1

VARIABLES
  \* the system
  node,     \* the device that a name means
  fdtab,    \* the process's descriptors
  of,       \* the device that an open file is of
  owners,   \* the files that have been granted the buffers of their device
  queued,   \* the buffers of a file that were given to the driver
  streams,  \* the files that are streaming
  maps,     \* the buffers of a file that are mapped into the process
  selected, \* what the library has selected of a device: input, standard
  faults,   \* system calls that have failed so far
  \* the library
  device,   \* the device list
  dev,      \* the device object being set up or torn down
  pc,
  op,       \* the interface function that was called
  name, id, \* its argument
  i,        \* the loop variable of init_mmap and fg_uninit_device
  ret       \* the last answer of a call

kernel  == <<node, fdtab, of, owners, queued, streams, maps, selected>>
system  == <<kernel, faults>>
library == <<device, dev, pc, op, name, id, i, ret>>
vars    == <<system, library>>

-----------------------------------------------------------------------------
(* The objects mg_device and mg_buffer.                                    *)

\* number and start: the buffers that mg_buffer has room for, and those whose
\* address and length it knows.
Object == [devno : Dev, fd : Fds \cup {-1},
           number : {0, NumBufs}, start : SUBSET Index]

ASSUME ObjAssumption == NoObj \notin Object

\* mg_device_create, for a name that is a device.
Created(d) == [devno |-> d, fd |-> -1, number |-> 0, start |-> {}]

\* mg_buffer_alloc: room for all the buffers, once.
Allocated(o) == IF o.number = 0 THEN [o EXCEPT !.number = NumBufs] ELSE o

\* mg_buffer_set: the address of a buffer is noted where there is room, once.
Noted(o, b) ==
  IF b < o.number /\ b \notin o.start THEN [o EXCEPT !.start = @ \cup {b}] ELSE o

\* mg_buffer_get_start and mg_buffer_get_length have something to tell.
Known(o, b) == b < o.number /\ b \in o.start

\* Mutants: no duplicate is ever found; the search falls off the end of the list
\* with the last device in hand; the wrong search is made.
FoundNumberNever(d) == {}
FoundFdAnyway(f) == device
FoundFdByNumber(f) == {o \in device : o.devno = f}

\* find_device_number and find_device_fd.
FoundNumber(d) == {o \in device : o.devno = d}
FoundFd(f) == {o \in device : o.fd = f}

Setting == {"input", "standard"}

PC == {"idle", "create", "open", "capability", "input", "standard", "crop",
       "format", "request", "map", "enqueue", "streamon",
       "discard", "find", "streamoff", "unmap", "close", "destroy"}

\* Every variable has its type; an object past mg_device_open has a descriptor,
\* and the descriptor a file.
TypeOK ==
  /\ node \in [Name -> Dev \cup {NoDev}]
  /\ fdtab \in [Fds -> File \cup {NoFile}]
  /\ of \in [File -> Dev \cup {NoDev}]
  /\ owners \subseteq File /\ streams \subseteq File
  /\ queued \in [File -> SUBSET Index] /\ maps \in [File -> SUBSET Index]
  /\ selected \in [Dev -> SUBSET Setting]
  /\ faults \in Nat
  /\ device \subseteq Object
  /\ dev \in Object \cup {NoObj}
  /\ pc \in PC /\ op \in {"none", "register", "deregister", "destroy"}
  /\ name \in Name /\ id \in Int /\ i \in 0 .. NumBufs
  /\ ret \in Fds \cup {-1}

Init ==
  /\ node \in [Name -> Dev \cup {NoDev}]
  /\ fdtab = [f \in Fds |-> NoFile]
  /\ of = [x \in File |-> NoDev]
  /\ owners = {} /\ streams = {}
  /\ queued = [x \in File |-> {}] /\ maps = [x \in File |-> {}]
  /\ selected = [d \in Dev |-> {}]
  /\ faults = 0
  /\ device = {} /\ dev = NoObj
  /\ pc = "idle" /\ op = "none"
  /\ name \in Name /\ id = -1 /\ i = 0 /\ ret = -1

Fault == faults < MaxFaults /\ faults' = faults + 1

\* The call goes on at p, or ends with the answer a.
Goto(p) == pc' = p /\ UNCHANGED <<op, name, id, ret>>
Return(a) == pc' = "idle" /\ op' = "none" /\ ret' = a /\ UNCHANGED <<name, id>>

-----------------------------------------------------------------------------
(* The administrator, and the program's calls.                             *)

Rename ==
  /\ pc = "idle" \/ RenameInCall
  /\ \E x \in Name, d \in Dev \cup {NoDev} : node' = [node EXCEPT ![x] = d]
  /\ UNCHANGED <<fdtab, of, owners, queued, streams, maps, selected, faults,
                 library>>

CallRegister(x) ==
  /\ pc = "idle" /\ pc' = "create"
  /\ op' = "register" /\ name' = x
  /\ UNCHANGED <<system, device, dev, id, i, ret>>

CallDeregister(f) ==
  /\ pc = "idle" /\ pc' = "find"
  /\ op' = "deregister" /\ id' = f
  /\ UNCHANGED <<system, device, dev, name, i, ret>>

CallDestroy ==
  /\ pc = "idle" /\ pc' = "destroy"
  /\ op' = "destroy"
  /\ UNCHANGED <<system, device, dev, name, id, i, ret>>

-----------------------------------------------------------------------------
(* mg_register_device.                                                     *)

\* stat() finds no character device, or fails.
StatFails ==
  /\ pc = "create"
  /\ \/ node[name] = NoDev /\ UNCHANGED faults
     \/ Fault
  /\ Return(-1)
  /\ UNCHANGED <<kernel, device, dev, i>>

\* The device is registered already: the answer is its identifier.
Duplicate ==
  /\ pc = "create"
  /\ \E o \in FoundNumber(node[name]) : Return(o.fd)
  /\ UNCHANGED <<system, device, dev, i>>

Create ==
  /\ pc = "create"
  /\ node[name] # NoDev /\ FoundNumber(node[name]) = {}
  /\ dev' = Created(node[name])
  /\ Goto("open")
  /\ UNCHANGED <<system, device, i>>

FreeFds == {f \in Fds : fdtab[f] = NoFile}
FreeFiles == {x \in File : of[x] = NoDev}

\* open() takes the lowest descriptor that is free.
Open ==
  /\ pc = "open"
  /\ node[name] # NoDev
  /\ FreeFiles # {}
  /\ \E f \in FreeFds : LET x == CHOOSE x \in FreeFiles : TRUE IN
       /\ \A g \in FreeFds : f <= g
       /\ fdtab' = [fdtab EXCEPT ![f] = x]
       /\ of' = [of EXCEPT ![x] = node[name]]
       /\ dev' = [dev EXCEPT !.fd = f]
  /\ Goto("capability")
  /\ UNCHANGED <<node, owners, queued, streams, maps, selected, faults, device, i>>

OpenFails ==
  /\ pc = "open"
  /\ \/ /\ node[name] = NoDev \/ FreeFds = {} \/ FreeFiles = {}
        /\ UNCHANGED faults
     \/ Fault
  /\ Goto("discard")
  /\ UNCHANGED <<kernel, device, dev, i>>

\* The open file of the object at hand.
TheFile == fdtab[dev.fd]

\* test_capability: of the three ways it refuses a device, a device that is not
\* Capable stands for two, and a failing VIDIOC_QUERYCAP is in SetupFails.
TestCapability ==
  /\ pc = "capability"
  /\ of[TheFile] \in Capable
  /\ Goto("input")
  /\ UNCHANGED <<system, device, dev, i>>

\* select_input: first the video input, then the video standard.
Select(s, next) ==
  /\ pc = s
  /\ selected' = [selected EXCEPT ![of[TheFile]] = @ \cup {s}]
  /\ Goto(next)
  /\ UNCHANGED <<node, fdtab, of, owners, queued, streams, maps, faults,
                 device, dev, i>>

\* set_crop, whose errors are ignored: where VIDIOC_CROPCAP fails, it asks for
\* whatever rectangle was on the stack, and the driver takes it or refuses.
SetCrop ==
  /\ pc = "crop"
  /\ UNCHANGED faults \/ Fault
  /\ Goto("format")
  /\ UNCHANGED <<kernel, device, dev, i>>

\* set_format takes any format that the driver answers with.  What it then
\* corrects in the answer, it does not tell the driver.
SetFormat ==
  /\ pc = "format"
  /\ Goto("request")
  /\ UNCHANGED <<system, device, dev, i>>

\* The files that have the buffers of the device x is of.
Holders(x) == {y \in owners : of[y] = of[x]}

\* request_buffers and mg_buffer_alloc.
RequestBuffers ==
  /\ pc = "request"
  /\ Holders(TheFile) = {}
  /\ owners' = owners \cup {TheFile}
  /\ dev' = Allocated(dev)
  /\ i' = 0
  /\ Goto("map")
  /\ UNCHANGED <<node, fdtab, of, queued, streams, maps, selected, faults, device>>

\* The device has been granted, but fewer buffers than asked for.
TooFewBuffers ==
  /\ pc = "request"
  /\ Holders(TheFile) = {}
  /\ Fault
  /\ owners' = owners \cup {TheFile}
  /\ Goto("discard")
  /\ UNCHANGED <<node, fdtab, of, queued, streams, maps, selected, device, dev, i>>

\* Mutants: one buffer too few, and one too many.
MapEndsEarly == i = NumBufs - 1
MapEndsLate == i > NumBufs

\* The loop of init_mmap has been through all the buffers.
MapEnds == i = NumBufs

\* query_buffer: the buffer is mapped, and mg_buffer_set notes it.
MapBuffer ==
  /\ pc = "map"
  /\ ~MapEnds
  /\ maps' = [maps EXCEPT ![TheFile] = @ \cup {i}]
  /\ dev' = Noted(dev, i)
  /\ i' = i + 1
  /\ Goto("map")
  /\ UNCHANGED <<node, fdtab, of, owners, queued, streams, selected, faults, device>>

AllMapped ==
  /\ pc = "map"
  /\ MapEnds
  /\ Goto("enqueue")
  /\ UNCHANGED <<system, device, dev, i>>

\* The loop of fg_start_capture, which ignores what it fails to enqueue.
Enqueue ==
  /\ pc = "enqueue"
  /\ \E Q \in SUBSET (0 .. dev.number - 1) :
       /\ queued' = [queued EXCEPT ![TheFile] = Q]
       /\ \/ Q = 0 .. dev.number - 1 /\ UNCHANGED faults
          \/ Q # 0 .. dev.number - 1 /\ Fault
  /\ Goto("streamon")
  /\ UNCHANGED <<node, fdtab, of, owners, streams, maps, selected, device, dev, i>>

\* The device streams, and joins the device list.
StreamOn ==
  /\ pc = "streamon"
  /\ streams' = streams \cup {TheFile}
  /\ device' = device \cup {dev}
  /\ dev' = NoObj
  /\ Return(dev.fd)
  /\ UNCHANGED <<node, fdtab, of, owners, queued, maps, selected, faults, i>>

\* fg_init_device or fg_start_capture fails: the device cannot be used, its
\* buffers are with another file (EBUSY), or a system call fails.
SetupFails ==
  /\ \/ pc = "capability" /\ of[TheFile] \notin Capable /\ UNCHANGED faults
     \/ pc = "request" /\ Holders(TheFile) # {} /\ UNCHANGED faults
     \/ /\ pc \in {"capability", "input", "standard", "format",
                    "request", "streamon"}
        /\ Fault
     \/ pc = "map" /\ ~MapEnds /\ Fault
  /\ Goto("discard")
  /\ UNCHANGED <<kernel, device, dev, i>>

-----------------------------------------------------------------------------
(* mg_device_destroy, which closes the descriptor and unmaps nothing.  From *)
(* then on another program may have the device, and select what it likes.   *)

\* The last reference to the open file x is gone, and the driver releases it.
Released(x) == /\ of' = [of EXCEPT ![x] = NoDev]
               /\ owners' = owners \ {x}
               /\ streams' = streams \ {x}
               /\ queued' = [queued EXCEPT ![x] = {}]

MgDeviceDestroy ==
  /\ dev' = NoObj
  /\ IF dev.fd = -1
     THEN UNCHANGED <<fdtab, of, owners, queued, streams, selected>>
     ELSE /\ fdtab' = [fdtab EXCEPT ![dev.fd] = NoFile]
          /\ selected' = [selected EXCEPT ![of[TheFile]] = {}]
          /\ IF maps[TheFile] = {}
             THEN Released(TheFile)
             ELSE UNCHANGED <<of, owners, queued, streams>>
  /\ UNCHANGED <<node, maps, faults, device, i>>

\* Mutant: the object is dropped, and not destroyed.
DiscardWithoutDestroy == /\ pc = "discard"
                         /\ dev' = NoObj
                         /\ Return(-1)
                         /\ UNCHANGED <<system, device, i>>

\* A device object whose set-up has failed.
Discard == pc = "discard" /\ MgDeviceDestroy /\ Return(-1)

-----------------------------------------------------------------------------
(* mg_deregister_device, and its loop in mg_destroy.                       *)

\* The call of mg_deregister_device is over.
EndDeregister(a) ==
  IF op = "destroy"
  THEN pc' = "destroy" /\ ret' = a /\ UNCHANGED <<op, name, id>>
  ELSE Return(a)

NotFound ==
  /\ pc = "find"
  /\ FoundFd(id) = {}
  /\ EndDeregister(-1)
  /\ UNCHANGED <<system, device, dev, i>>

\* The device leaves the device list.
Find ==
  /\ pc = "find"
  /\ \E o \in FoundFd(id) : dev' = o /\ device' = device \ {o}
  /\ Goto("streamoff")
  /\ UNCHANGED <<system, i>>

\* fg_stop_capture, whose failure is ignored.
StreamOff ==
  /\ pc = "streamoff"
  /\ \/ /\ streams' = streams \ {TheFile}
        /\ queued' = [queued EXCEPT ![TheFile] = {}]
        /\ UNCHANGED faults
     \/ Fault /\ UNCHANGED <<streams, queued>>
  /\ i' = 0
  /\ Goto("unmap")
  /\ UNCHANGED <<node, fdtab, of, owners, maps, selected, device, dev>>

\* Mutant: the last buffer is forgotten.
UnmapEndsEarly == i = dev.number - 1

\* The loop of fg_uninit_device has been through all the buffers.
UnmapEnds == i = dev.number

\* munmap of an address that mg_buffer knows.
Unmap ==
  /\ pc = "unmap"
  /\ ~UnmapEnds /\ Known(dev, i)
  /\ maps' = [maps EXCEPT ![TheFile] = @ \ {i}]
  /\ i' = i + 1
  /\ Goto("unmap")
  /\ UNCHANGED <<node, fdtab, of, owners, queued, streams, selected, faults,
                 device, dev>>

\* The loop ends: after the last buffer, at an address that is not known
\* (mg_buffer_get_start returns 0), or at a munmap that fails otherwise.
Unmapped ==
  /\ pc = "unmap"
  /\ \/ UnmapEnds /\ UNCHANGED faults
     \/ ~UnmapEnds /\ ~Known(dev, i) /\ UNCHANGED faults
     \/ ~UnmapEnds /\ Fault
  /\ Goto("close")
  /\ UNCHANGED <<kernel, device, dev, i>>

CloseDevice == pc = "close" /\ MgDeviceDestroy /\ EndDeregister(id)

\* mg_destroy: the head of the device list, which can be any of them, is next.
DestroyNext ==
  /\ pc = "destroy" /\ pc' = "find"
  /\ \E o \in device : id' = o.fd
  /\ UNCHANGED <<system, device, dev, op, name, i, ret>>

\* The object is gone, and the program may create another one.
DestroyEnds ==
  /\ pc = "destroy"
  /\ device = {}
  /\ Return(ret)
  /\ UNCHANGED <<system, device, dev, i>>

-----------------------------------------------------------------------------
Program == \/ \E x \in Name : CallRegister(x)
           \/ \E f \in Fds \cup {-1} : CallDeregister(f)
           \/ CallDestroy

Library ==
  \/ StatFails \/ Duplicate \/ Create
  \/ Open \/ OpenFails
  \/ TestCapability \/ Select("input", "standard") \/ Select("standard", "crop")
  \/ SetCrop \/ SetFormat \/ RequestBuffers \/ TooFewBuffers
  \/ MapBuffer \/ AllMapped \/ Enqueue \/ StreamOn \/ SetupFails \/ Discard
  \/ NotFound \/ Find \/ StreamOff \/ Unmap \/ Unmapped \/ CloseDevice
  \/ DestroyNext \/ DestroyEnds

Next == Rename \/ Program \/ Library

\* A call that is in progress goes on.
Spec == Init /\ [][Next]_vars /\ WF_vars(Library)

-----------------------------------------------------------------------------
(* Properties.                                                             *)

Objects == device \cup ({dev} \ {NoObj})

\* Open files that no descriptor of the process refers to: only their mappings
\* keep them open, and nothing will ever remove those.
Leaked == {x \in File : of[x] # NoDev} \ {fdtab[f] : f \in Fds}

\* Whatever fails on the way, every descriptor in use is that of exactly one
\* device object, and the descriptor of every listed device is in use.
DescriptorsOwned ==
  /\ \A f \in Fds :
       fdtab[f] # NoFile => Cardinality({o \in Objects : o.fd = f}) = 1
  /\ \A o \in device : o.fd # -1 /\ fdtab[o.fd] # NoFile

\* A device in the device list is wholly set up: its descriptor is open on the
\* device with its number, its input and standard are selected, it streams, and
\* mg_buffer knows exactly the mapped buffers, and all of them.
RegisteredReady ==
  \A o \in device :
    LET x == fdtab[o.fd] IN
    /\ of[x] = o.devno /\ selected[o.devno] = Setting
    /\ x \in owners /\ x \in streams
    /\ o.start = Index /\ maps[x] = Index

\* A system call that fails leaves at most one open file behind: a registration
\* that fails after some buffers were mapped, or a munmap that fails.
LeakPerFailure == Cardinality(Leaked) <= faults

\* When the driver refuses its buffers to a device being registered, then only
\* because a leaked file has them: a device that has been deregistered, or that
\* failed early enough, can be registered again.
BusyMeansLeaked == pc = "request" => Holders(TheFile) \subseteq Leaked

\* No device is open twice, under whatever names it was registered.
OneOpenPerDevice ==
  \A f, g \in Fds : f # g /\ fdtab[f] # NoFile /\ fdtab[g] # NoFile
                     => of[fdtab[f]] # of[fdtab[g]]

\* Every call returns, whatever fails; mg_destroy in particular, whose loop
\* counts on finding the head of the device list by its descriptor each time.
CallsReturn == pc # "idle" ~> pc = "idle"

(* The abstract specification.                                             *)

\* The device that is being deregistered is registered until the call is over.
Registered ==
  device \cup IF pc \in {"streamoff", "unmap", "close"} THEN {dev} ELSE {}

IdOf(d) == (CHOOSE o \in Registered : o.devno = d).fd
IdTable == [d \in {o.devno : o \in Registered} |-> IdOf(d)]

\* mg_destroy makes one call of mg_deregister_device for each device.
NoCall == NoFile
CallOf ==
  IF op = "register" THEN [op |-> "register", dev |-> node[name]]
  ELSE IF pc \in {"find", "streamoff", "unmap", "close"}
  THEN [op |-> "deregister", dev |-> NoDev, id |-> id]
  ELSE NoCall

Table == INSTANCE Registry
  WITH Id <- Fds,
       id <- IdTable,
       call <- CallOf,
       answer <- ret

\* Registration and deregistration keep the promises of Registry, whatever
\* fails, as long as no name changes its meaning during a call.
ImplementsRegistry == Table!Spec

=============================================================================
