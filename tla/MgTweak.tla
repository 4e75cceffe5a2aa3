------------------------------ MODULE MgTweak ------------------------------
(***************************************************************************)
(* examples/mg-tweak.c: the program that captures with criteria and numbers*)
(* taken from its command line, and writes a log of what it captures.       *)
(*                                                                         *)
(* The library is its environment here: a registration answers with the     *)
(* device behind the number, and a capture makes its callbacks and returns  *)
(* their number, or ends with RET_SYNC after fewer.  The callback is        *)
(* registered, never halts and captures nothing itself, and a device is     *)
(* registered before the first capture: the other answers do not occur.     *)
(*                                                                         *)
(* A line of the log stands for all the lines that are always written       *)
(* together.  Standard output is buffered: lines reach the log when the     *)
(* buffer is full, at fflush, at exit, and whenever the library logs, which *)
(* flushes; what is in the buffer when the user interrupts the program is   *)
(* lost.  The library logs errors of the system, also those that it then    *)
(* ignores, and so its messages may be in the log of a program that ends    *)
(* well.                                                                    *)
(***************************************************************************)
EXTENDS TimeVal, Sequences, FiniteSets, SequencesExt

CONSTANTS
  CommandLines,  \* [options, operands]: the options in order, and whether
                 \* there are arguments that are none
  Bad,           \* an option's argument that is no number
  Machines,      \* what the device numbers of a machine are: a device, or none
  Moments,       \* times at which callbacks are made
  Stamps,        \* time stamps of images
  MaxSets        \* bound: number of sets captured

\* What getopt returns: an option, and the number that is its argument, if any;
\* that of a criterion is a float, as the microseconds of TimeVal.
Options == [opt : STRING, arg : {Bad} \cup Int]

\* The numbers that an int can hold, with room for the six devices that are
\* added to the first one at most: with others the code overflows.
INT_MAX == 2147483647
Ints == -INT_MAX .. INT_MAX - 6

ASSUME CommandLineAssumption ==
  \A line \in CommandLines :
    /\ line.options \in Seq(Options)
    /\ \A option \in ToSet(line.options) :
         option.opt \notin {"i", "o"} /\ option.arg # Bad => option.arg \in Ints

\* A machine's device numbers have one digit or two (the kernel has 64).
ASSUME MachineAssumption == \A m \in Machines : DOMAIN m \subseteq 0 .. 99

\* What gettimeofday and the drivers return is normalised.
ASSUME MomentAssumption ==
  Moments \cup Stamps \subseteq [sec : Nat, usec : 0 .. Second - 1]

VARIABLES
  options,   \* what getopt has yet to return
  operands,  \* are there arguments that are no options?
  settings,  \* the variables of main
  node,      \* the device that a device number means
  pc,
  devices,   \* the variable devices of multi_gee()
  number,    \* its loop variable i, while it registers
  numbers,   \* the device numbers registered so far
  rep,       \* captures so far
  given,     \* callbacks of the capture in progress
  buffer,    \* stdio's buffer
  log,       \* what has been written to standard output
  status,    \* of the program
  \* history
  sets,      \* age in microseconds of every image, by device number, of the
             \* sets that the callback was given
  asked      \* the frame times that were asked for

vars == <<options, operands, settings, node, pc, devices, number, numbers, rep,
          given, buffer, log, status, sets, asked>>

-----------------------------------------------------------------------------
(* The lines of the log.                                                   *)

Startup  == [kind |-> "startup"]
Id       == [kind |-> "id"]
Now      == [kind |-> "now"]       \* now, then now diff, count
Times    == [kind |-> "times"]     \* start, end, diff, overhead
Captured == [kind |-> "captured"]
Message  == [kind |-> "message"]   \* text that is for people
DevLine(name, age) == [kind |-> "dev", name |-> name, age |-> age]

Write(lines) == buffer' = buffer \o lines /\ UNCHANGED log
\* Mutant: the buffer is not emptied.
WriteOutTwice(lines) == /\ log' = log \o buffer \o lines
                        /\ buffer' = buffer \o lines

WriteOut(lines) == log' = log \o buffer \o lines /\ buffer' = <<>>

\* exit() flushes standard output.
Exit(s, lines) == /\ pc' = "exited" /\ status' = s
                  /\ WriteOut(lines)

If(condition, line) == IF condition THEN <<line>> ELSE <<>>

-----------------------------------------------------------------------------
(* main.                                                                   *)

Defaults == [buffers |-> 3, count |-> 5, devices |-> 3, frames |-> 5,
             masterdev |-> -1, percent |-> 5, sleeptime |-> 1000000,
             startdev |-> 0, verbose |-> FALSE,
             in_sync |-> frame_time(FRAME \div 2, 5),
             no_sync |-> frame_time(25 * FRAME, 5)]

NumberOption == [b |-> "buffers", c |-> "count", d |-> "devices",
                 m |-> "masterdev", n |-> "frames", p |-> "percent",
                 s |-> "sleeptime", S |-> "startdev"]
CriterionOption == [i |-> "in_sync", o |-> "no_sync"]

Init ==
  /\ \E line \in CommandLines : /\ options = line.options
                                /\ operands = line.operands
  /\ settings = Defaults
  /\ node \in Machines
  /\ pc = "options"
  /\ devices = 0 /\ number = 0 /\ numbers = <<>>
  /\ rep = 0 /\ given = 0
  /\ buffer = <<>> /\ log = <<>> /\ status = "running"
  /\ sets = <<>>
  /\ asked = [in_sync |-> FRAME \div 2, no_sync |-> 25 * FRAME]

Option == Head(options)
NextOption == /\ pc = "options" /\ options # <<>>
              /\ options' = Tail(options)

\* An option with a number: arg_to_l, and the assignment.
SetNumber ==
  /\ NextOption
  /\ Option.opt \in DOMAIN NumberOption /\ Option.arg # Bad
  /\ settings' = [settings EXCEPT ![NumberOption[Option.opt]] = Option.arg]
  /\ UNCHANGED <<operands, node, pc, devices, number, numbers, rep, given,
                 buffer, log, status, sets, asked>>

\* A criterion: arg_to_f, and frame_time with the percentage in force.
SetCriterion ==
  /\ NextOption
  /\ Option.opt \in DOMAIN CriterionOption /\ Option.arg # Bad
  /\ LET c == CriterionOption[Option.opt] IN
       /\ settings' =
            [settings EXCEPT ![c] = frame_time(Option.arg, settings.percent)]
       /\ asked' = [asked EXCEPT ![c] = Option.arg]
  /\ UNCHANGED <<operands, node, pc, devices, number, numbers, rep, given,
                 buffer, log, status, sets>>

ToggleVerbose ==
  /\ NextOption
  /\ Option.opt = "v"
  /\ settings' = [settings EXCEPT !.verbose = ~@]
  /\ UNCHANGED <<operands, node, pc, devices, number, numbers, rep, given,
                 buffer, log, status, sets, asked>>

\* Help is asked for, or the argument of an option is no number.
Usage ==
  /\ NextOption
  /\ Option.opt \in {"h", "?"} \/ Option.arg = Bad
  /\ Exit("failure", <<Message>>)
  /\ UNCHANGED <<operands, settings, node, devices, number, numbers, rep, given,
                 sets, asked>>

Supported == settings.buffers > 1 /\ settings.devices \in 1 .. 6

NotSupported ==
  /\ pc = "options" /\ options = <<>>
  /\ ~Supported
  /\ Exit("failure", <<Message>>)
  /\ UNCHANGED <<options, operands, settings, node, devices, number, numbers,
                 rep, given, sets, asked>>

\* The rest of main, and multi_gee() up to the registration of devices: the
\* library logs its start to standard output.
Begin ==
  /\ pc = "options" /\ options = <<>> /\ pc' = "master"
  /\ Supported
  /\ devices' = settings.devices
  /\ WriteOut(If(operands, Message) \o If(settings.verbose, Message)
              \o <<Startup>>)
  /\ UNCHANGED <<options, operands, settings, node, number, numbers, rep, given,
                 status, sets, asked>>

-----------------------------------------------------------------------------
(* multi_gee(): registration.                                              *)

Exists(k) == k \in DOMAIN node

\* register_device of a number that is a device; it may be registered already,
\* under another number.  If it is not, the library logs the buffers that it
\* fails to enqueue, and registers the device all the same.
RegisterDevice(k) ==
  /\ Exists(k)
  /\ numbers' = Append(numbers, k)
  /\ \/ Write(<<Id>>)
     \/ /\ \A j \in DOMAIN numbers : node[numbers[j]] # node[k]
        /\ log' = log \o Append(buffer, Message)
        /\ buffer' = <<Id>>
  /\ UNCHANGED <<options, operands, settings, node, rep, given, status, sets,
                 asked>>

Master == pc = "master" /\ settings.masterdev >= 0

RegisterMaster ==
  /\ Master
  /\ RegisterDevice(settings.masterdev)
  /\ devices' = devices - 1
  /\ pc' = "register" /\ number' = settings.startdev

NoMaster ==
  /\ pc = "master" /\ settings.masterdev < 0
  /\ pc' = "register" /\ number' = settings.startdev
  /\ UNCHANGED <<options, operands, settings, node, devices, numbers, rep,
                 given, buffer, log, status, sets, asked>>

\* The loop registers the next number, unless it is the master's.
Registers == pc = "register" /\ number < settings.startdev + devices

RegisterNext ==
  /\ Registers
  /\ number # settings.masterdev
  /\ RegisterDevice(number)
  /\ number' = number + 1
  /\ UNCHANGED <<pc, devices>>

\* Mutant: the loop goes no further for the master it skips.
SkipMasterUncounted ==
  /\ Registers
  /\ number = settings.masterdev
  /\ number' = number + 1
  /\ UNCHANGED <<options, operands, settings, node, pc, devices, numbers, rep,
                 given, buffer, log, status, sets, asked>>

SkipMaster ==
  /\ Registers
  /\ number = settings.masterdev
  /\ devices' = devices + 1
  /\ number' = number + 1
  /\ UNCHANGED <<options, operands, settings, node, pc, numbers, rep,
                 given, buffer, log, status, sets, asked>>

\* A registration fails, and so does the program.  The library may have logged
\* the reason to standard output.
RegistrationFails ==
  /\ \/ Master /\ ~Exists(settings.masterdev)
     \/ Registers /\ number # settings.masterdev /\ ~Exists(number)
  /\ \E logged \in BOOLEAN : Exit("failure", If(logged, Message) \o <<Id>>)
  /\ UNCHANGED <<options, operands, settings, node, devices, number, numbers,
                 rep, given, sets, asked>>

RegistrationEnds ==
  /\ pc = "register" /\ number >= settings.startdev + devices
  /\ pc' = "repeat"
  /\ UNCHANGED <<options, operands, settings, node, devices, number, numbers,
                 rep, given, buffer, log, status, sets, asked>>

-----------------------------------------------------------------------------
(* multi_gee(): the captures, and the callback process_images.             *)

\* The numbers under which the devices were registered first: the device list.
Names ==
  {numbers[j] : j \in {j \in DOMAIN numbers :
                         \A k \in 1 .. j - 1 : node[numbers[k]] # node[numbers[j]]}}

Capture ==
  /\ pc = "repeat" /\ rep < settings.count
  /\ pc' = "capture" /\ given' = 0
  /\ Write(If(settings.verbose, Message))
  /\ UNCHANGED <<options, operands, settings, node, devices, number, numbers,
                 rep, status, sets, asked>>

Endless == settings.frames < 0

\* process_images up to its fflush.  An image is older than the callback.
ProcessImages ==
  /\ pc = "capture" /\ pc' = "callback"
  /\ Endless \/ given < settings.frames
  /\ Len(sets) < MaxSets
  /\ \E now \in Moments, list \in SetToSeqs(Names) :
     \E tv \in [Names -> {t \in Stamps : Micro(t) <= Micro(now)}] :
       /\ Write(<<Now>> \o [j \in DOMAIN list |->
            DevLine(list[j], Shown(timersub(now, tv[list[j]])))])
       /\ sets' = Append(sets, [d \in Names |-> Micro(now) - Micro(tv[d])])
  /\ UNCHANGED <<options, operands, settings, node, devices, number, numbers,
                 rep, given, status, asked>>

CallbackReturns ==
  /\ pc = "callback" /\ pc' = "capture"
  /\ given' = given + 1
  /\ WriteOut(<<>>)
  /\ UNCHANGED <<options, operands, settings, node, devices, number, numbers,
                 rep, status, sets, asked>>

\* In capture_frameset the library logs a select or a swap of frames that fails,
\* a select that times out, and a test that comes too late.  The capture may go on
\* all the same, or have given all the sets.  Messages in a row count as one.
LibraryLogs ==
  /\ pc = "capture" /\ settings.frames # 0
  /\ Last(log \o buffer) # Message
  /\ WriteOut(<<Message>>)
  /\ UNCHANGED <<options, operands, settings, node, pc, devices, number,
                 numbers, rep, given, status, sets, asked>>

\* mg_capture has given all the sets, or has lost the synchronisation.
CaptureEnds ==
  /\ pc = "capture" /\ pc' = "repeat"
  /\ rep' = rep + 1
  /\ \/ /\ ~Endless /\ given = settings.frames
        /\ Write(If(settings.verbose, Message) \o <<Times, Captured>>)
     \/ /\ Endless \/ given < settings.frames
        /\ Write(If(settings.verbose, Message) \o <<Times, Message>>)
  /\ UNCHANGED <<options, operands, settings, node, devices, number, numbers,
                 given, status, sets, asked>>

\* mg_destroy, which logs and ignores what fails.
End ==
  /\ pc = "repeat" /\ rep >= settings.count
  /\ \E logged \in BOOLEAN : Exit("success", If(logged, Message))
  /\ UNCHANGED <<options, operands, settings, node, devices, number, numbers,
                 rep, given, sets, asked>>

-----------------------------------------------------------------------------
(* Standard output, and the user.                                          *)

\* The buffer is full: lines of it go to the log.
BufferFull ==
  /\ pc # "exited"
  /\ \E k \in 1 .. Len(buffer) :
       /\ log' = log \o SubSeq(buffer, 1, k)
       /\ buffer' = SubSeq(buffer, k + 1, Len(buffer))
  /\ UNCHANGED <<options, operands, settings, node, pc, devices, number,
                 numbers, rep, given, status, sets, asked>>

\* SIGINT, for which there is no handler.
Interrupt ==
  /\ pc # "exited" /\ pc' = "exited"
  /\ status' = "killed"
  /\ buffer' = <<>>
  /\ UNCHANGED <<options, operands, settings, node, devices, number, numbers,
                 rep, given, log, sets, asked>>

Main == SetNumber \/ SetCriterion \/ ToggleVerbose \/ Usage \/ NotSupported
        \/ Begin

Registration == RegisterMaster \/ NoMaster \/ RegisterNext \/ SkipMaster
                \/ RegistrationFails \/ RegistrationEnds

Captures == Capture \/ ProcessImages \/ CallbackReturns \/ LibraryLogs
            \/ CaptureEnds \/ End

Next == Main \/ Registration \/ Captures \/ BufferFull \/ Interrupt

Spec == Init /\ [][Next]_vars

-----------------------------------------------------------------------------
(* Properties.                                                             *)

Lines == {Startup, Id, Now, Times, Captured, Message}
         \cup [kind : {"dev"}, name : Nat,
               age : [minus : {FALSE}, sec : Nat, usec : 0 .. Second - 1]]

\* Every variable has its type: criteria are normal times, ages in the log are
\* normal and not negative, and registered numbers are those of devices.
TypeOK ==
  /\ pc \in {"options", "master", "register", "repeat", "capture", "callback",
             "exited"}
  /\ DOMAIN settings = DOMAIN Defaults
  /\ {settings.in_sync, settings.no_sync} \subseteq [sec : Int, usec : 0 .. Second]
  /\ devices \in Int /\ number \in Int
  /\ \A j \in DOMAIN numbers : numbers[j] \in DOMAIN node
  /\ rep \in Nat /\ given \in Nat
  /\ \A l \in ToSet(buffer \o log) : l \in Lines
  /\ status \in {"running", "success", "failure", "killed"}
  /\ pc = "exited" <=> status # "running"
  /\ pc = "exited" => buffer = <<>>

\* The first capture starts with as many device numbers registered as were
\* asked for, the master's among them, and the others as low as can be from the
\* first number on: the loop's bound moves with the master it skips.
RegistersWanted ==
  pc \in {"repeat", "capture", "callback"} =>
    LET others == ToSet(numbers) \ {settings.masterdev} IN
    /\ IsInjective(numbers) /\ Len(numbers) = settings.devices
    /\ settings.masterdev >= 0 => Head(numbers) = settings.masterdev
    /\ \A k \in others : /\ k >= settings.startdev
                         /\ \A l \in settings.startdev .. k :
                              l \in others \cup {settings.masterdev}

\* The percentage is added to the frame times (the usage text of -p).
PercentAdded ==
  pc = "repeat" =>
    /\ Micro(settings.in_sync) = Scaled(asked.in_sync, settings.percent)
    /\ Micro(settings.no_sync) = Scaled(asked.no_sync, settings.percent)

=============================================================================
