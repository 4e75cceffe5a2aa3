# A TLA+ development of multi-gee

multi-gee is a C library that captures images from several video4linux2
devices at once and hands them to a callback in sets: one image of every
registered device, all captured within `TV_IN_SYNC` of each other.  This
directory holds its formal model: TLA+ modules translated from the source, TLC
configurations that check them on small instances, and proofs that TLAPS
checks for every instance.

    tlc -config Capture.cfg MCMultiGee.tla      # one of the runs below
    tlapm MultiGeeProofs.tla                    # some of the theorems

## 1. Inventory

| component | source | state | operations |
|---|---|---|---|
| multi_gee object | `multi-gee/multi-gee.c` | device list, frame list, `last_sync`, `busy`, `halt`, callback, the two criteria | create, destroy, register and deregister a device, register a callback, capture, halt |
| capture loop | `multi-gee.c`: `mg_capture`, `capture_frameset`, `sync_select`, `swap_frame` | the locals `n`, `count`, `sync`, the `fd_set`, the position in the device list | select, swap a frame, call the callback |
| synchronisation test | `multi-gee.c`: `sync_test` | `used` flags and time stamps of the frames, `last_sync` | decide: in sync, not yet, fatal |
| frame | `mg_frame.c` | device, buffer index (-1 for a dummy), time stamp, `used` | create, mark as used |
| device | `mg_device.c` | descriptor, name, device number, number of buffers | create (stat), open, destroy (close) |
| buffers | `mg_buffer.c` | start and length of each mapped buffer | alloc, set, get |
| frame grabber | `fg_util.c` | none; the driver's queues | initialise, map, enqueue, dequeue, start, stop |
| log | `log.c` | stream, name, `close` flag | create, log, destroy |
| time arithmetic | `tv_util.h` | none | `timerset`, `timerabs`, `timernorm` |
| test program | end of `multi-gee.c` | the identifier of the device to replace, which device is next | five captures with five objects; replaces a device in every callback |
| mg-tweak | `examples/mg-tweak.c` | settings, device numbers registered, captures made | options, registration, captures, a log on standard output |
| sync-check | `examples/sync-check.c`, `device.c`, `sync-grammar.y`, `sync-scanner.l` | state of the parser, devices of the set being read | parse a log, show a row for each set |
| other examples | `examples/multi-gee.c`, `process_util.c`, `pgm_util.c`, `check-rate.c`, `sllist.c` | none | |
| sllist, cclass | not in the repository | linked list, object macros | |

Interaction.  The library has one thread.  The user's program calls it, and it
calls the program back, from the middle of the loop over the device list; in
the callback the program may call every function of the interface again.  The
library talks to the drivers through `select` and ioctls on the descriptors
of the devices; the drivers run concurrently, fill the buffers that are queued
and stamp each image with the time of its capture.  Time matters: frames are
compared with each other, with `last_sync` and with `gettimeofday`.
`mg-tweak` is a user of the library that makes the library log to standard
output too; `sync-check` reads what it writes, from a file or through a pipe
while it is written.

What is hard.

- *Re-entrancy*: the callback changes the lists that the loop is walking, the
  flags that end it, and may start a capture within the capture.
- *Staleness*: images wait in the driver from before the capture; an image,
  or the dummy frame of a new device, may stay in the frame list for any time;
  a bit in the `fd_set` may outlive its descriptor, whose number is reused.
- *Partial failure*: every ioctl may fail, and `swap_frame` and
  `fg_start_capture` go on, or give up, half way.
- *Timing*: two criteria, a timeout that starts over on a signal, a callback
  that takes as long as it likes.

What makes each component correct.

- multi_gee object: one frame for each device; a capture is exclusive; a halt
  ends the capture in progress and only that one.
- capture loop: at most one callback in a pass; exactly `n` callbacks for
  `mg_capture(n)`; none after a halt; the position in the list stays valid.
- synchronisation test: a set is complete, in sync, recent, and made of images
  that have not been shown; a fatal loss of sync is declared when, and only
  when, there has been no set for `TV_NO_SYNC`.
- frames and buffers: the image behind a frame is the one it is stamped with;
  every buffer is with the driver, or is the one of the device's frame.
- devices: a listed device is open and streaming; no device is listed twice;
  a registration that fails leaves nothing behind.
- log: a log can be written to until it is destroyed, and closes what it opened.
- mg-tweak: it captures from the devices that it was asked to use, with the
  criteria that it was asked to use, and logs every set.
- sync-check: a row for every set up to where the log stops to be one of
  captures that succeed, the devices in order, each at the place of its own
  image's age; success for a whole log and for no other; it ends.

`PROJECT.json` lists the components again with their state, and under
`hazards` everything in the code that is hard to reach with a test, each with
the properties that watch it.

## 2. Modules

| module | what it is |
|---|---|
| `V4L2` | the buffer queue of one streaming device, as operators: the part of the driver that `fg_util.c` relies on |
| `Session` | abstract: what the library promises a program that captures |
| `MultiGee` | the multi_gee object, its capture loop and its synchronisation test; the drivers, the clock and the user's program as the environment; implements `Session` |
| `MultiGeeProofs` | theorems about `MultiGee` |
| `SessionProofs` | that `MultiGee` implements `Session` |
| `SelfTest`, `SelfTestProofs` | `MultiGee` with the library's own test program for its user, and that it is a user that `MultiGee` allows |
| `CaptureTiming` | the capture loop in time without end, with cameras that may fall silent and signals |
| `CaptureTimingProofs` | theorems about `CaptureTiming` |
| `Registry` | abstract: a table of devices and identifiers, what registration and deregistration promise |
| `DeviceSetup` | registration, deregistration and destruction system call by system call; implements `Registry` |
| `DeviceSetupProofs` | theorems about `DeviceSetup`, and that it implements `Registry` |
| `Log`, `LogProofs` | log objects that share streams, and theorems about them |
| `TimeVal` | `struct timeval` arithmetic: `timernorm`, `frame_time`, `print_tv` |
| `MgTweak` | the program mg-tweak, with the library as its environment |
| `SyncCheck` | the program sync-check, for a log that may be growing |
| `TweakCheck` | mg-tweak and sync-check composed through the log |
| `MgTweakProofs` | theorems about `TimeVal` and `MgTweak`: the arithmetic, the types, which devices are registered, and what the log says of the sets |
| `TweakCheckProofs` | theorems about the composition: the types, which logs are accepted, that the rows are the first sets, and which sets have rows |
| `MC...` | instances for TLC: of `MultiGee`, `SelfTest`, `CaptureTiming`, `DeviceSetup`, `Log` and `TweakCheck` |

`MultiGee` and `DeviceSetup` are two views of the same functions.  `MultiGee` has
a registration in one step, because what matters to the capture is its outcome:
the device in the lists, its descriptor, the buffers that were enqueued.
`DeviceSetup` has the steps, and no capture.  `MultiGee` and `CaptureTiming` are
two views of the same loop: the first has everything that a program may do and
every failure, in a bounded time, the second has a fixed set of devices and no
failure, in unbounded time, and so can say what must happen in the end.

### How MultiGee corresponds to the code

State.  `device` and `frame` are the two lists, as a set and as a function on
it (`add_frame` maintains exactly that).  `fd`, `last_sync`, `busy`, `halt` and
`callback` are the fields of the structures, `n`, `count`, `sync`, `ret`, `fds`
the locals.  `pc` says where the library is:

| `pc` | position in the code |
|---|---|
| none, idle | no object; no call in progress |
| loop | head of the `while` of `mg_capture` |
| select | blocked in `select` |
| scan | head of the `for` of `capture_frameset` |
| test | `swap_frame` has succeeded, `sync_test` is next |
| callback | the callback is running |

`todo` is the rest of the device list ahead of the `for`, `cur` the device it
stands on.  `bufs` is the drivers' state, `now` the clock, `faults` counts the
system calls that have failed.  `seen`, `lost`, `calls` and `dangled` are
history variables: no action's guard depends on them, except that a loop
standing on a freed node (`dangled`) may do what the memory makes it do.

Actions.  One for each interface function, for each way out of `sync_select`,
`swap_frame` and `sync_test`, and for the head and the end of each loop.  Time,
the drivers and (at `idle` and `callback`) the program may act between any
two of them.  `swap_frame` is one step: between its ioctls only the driver
acts, on buffers that neither ioctl concerns.

Abstractions, each of them on purpose.

- An image is its time stamp.  A device makes at most one image per unit of
  time, and its first one after the unit in which streaming started.
- The order of the lists.  `sllist` is not in the repository, and the
  documentation says the order is no particular one.  Two facts about it matter:
  which frame `sync_test` meets first, and whether a device that the callback
  registers is still ahead of the loop.  Both follow from the end at which
  `sllist_insert_data` inserts, the constant `InsertAtHead`; the runs use both
  values.  With three or more devices and insertion at the end, any frame but
  the newest may be first: more than the code can do, never less.  The order in
  which the loop visits devices is left open.
- Use of freed memory has three outcomes: the rest of the list is found, its
  end is found, or the program dies.
- A second `mg_capture` in the callback is modelled when it is refused, with
  the two assignments it makes all the same.  The one after it, which is
  accepted because of them, is not.  `mg_destroy` in the callback is not.
- A failed or duplicate registration does not change this state and is not a
  step.
- `mg_deregister_device` takes the device, not the descriptor number.

`Session` has the same interface and none of the loop: between two callbacks
there is one state, `waiting`, and one step, `Deliver`, which may be taken with
any images that make a set.  `seen` and `dangled` of `MultiGee`, which are
history there, are state in it.  The mapping is the identity on everything the
program can observe, and takes `loop`, `select`, `scan` and `test` to `waiting`.

### How SelfTest corresponds to the code

The program at the end of `multi-gee.c` calls the library in a fixed order.  `step`
is its place in `multi_gee()` and `process_images`, `k` the variable of its
loops, `dev_id` and `flag` the static variables of the callback, which outlive
captures and objects.  `Base` stands for the devices 0, 1, 2 and `Extra` for 3
and 4.  A registration may fail, and the program does not look.  `Dies` is the
end that `MultiGee` leaves to a loop on a freed node; the program is started anew.

### How CaptureTiming corresponds to the code

`pending` is the driver's queue of each device and `frame` the frame list; both
hold ages instead of time stamps, which stop growing at `Oldest`, where no
comparison of the code can tell them apart any more.  `since` is the time since
`last_sync`, up to where it exceeds `TV_NO_SYNC`.  `Delivers`, `GivesUp` and `GoesOn`
are `swap_frame` and the three results of `sync_test` for one device.  Only the
program and a `select` without images take time.

### How DeviceSetup corresponds to the code

`pc` is the next system call of the function in progress, `dev` the object that
it is setting up or tearing down (`mg_device` and its `mg_buffer` in one
record), `i` the index of the loop of `init_mmap` or `fg_uninit_device`.  The
rest is the system: the names, the descriptor table, the open files with the
buffers that the driver has granted them, and the mappings.  An open file lives
for as long as a descriptor or a mapping refers to it; this is why an
`mg_device_destroy` that closes the descriptor without unmapping leaves the
device busy.  `selected` says what of a device's input and standard has been
selected since its last destruction.  `set_crop` ignores all errors, and when
`VIDIOC_CROPCAP` fails it passes on what was on the stack; nothing is known of
the crop afterwards.  `set_format` accepts any format that the driver makes of
the one asked for, and the corrections it makes to the answer stay in its local
variable.  `xioctl` repeats interrupted calls; that is no step.  `NumBufs` is at least 1: with no buffers `VIDIOC_REQBUFS` means
something else.

The mapping to `Registry` takes the table from the device list, with the device
that is being deregistered still in it, and the call from `op` and its argument;
`mg_destroy` appears as one deregistration for each device.  `Registry` answers a
deregistration as `multi-gee.h:166-168` says, with the identifier, and not as
`doc/api.txt:235-237` does.  An identifier means one
device while that is registered; afterwards another device may get it.

### How Log corresponds to the code

One action for each way through `lg_create` and `open_log`, and two for
`lg_destroy`.  `opened` is the set of streams that are open, `Target` where
`lg_log` and `lg_errno` write.

### How MgTweak, SyncCheck and TweakCheck correspond to the code

`options` is what `getopt` has yet to return, `settings` are the variables of
`main`, `devices` and `number` those of `multi_gee()`; the rest of `MgTweak` is the
log.  A line of the model stands for the lines that are always written together
(`Now` for three, `Times` for four, `DevLine` for the four of a device, with
the age of its image as `print_tv` shows it).  `buffer` is stdio's: its lines
reach the log when it fills up, at the `fflush` of the callback, when the library
logs, and at `exit`; an interrupted program loses it.  The library logs failures,
also those that it ignores or that come too late to matter: in a registration
that succeeds (a buffer that cannot be enqueued), during a capture that may still
give all its sets (`LibraryLogs`), and in `mg_destroy`.  Several messages in a row
count as one.  `node` says which device a device number means, since two may mean
one.  The numbers of the command line are those that an `int` holds, with room for
the loop's bound (`CommandLineAssumption`): with others the code overflows.

`SyncCheck` is the LALR(1) parser of the grammar, with its place between two lines as
`at`.  What the generated parser does early is modelled early: the devices of a
set are shown and destroyed at the first token that is not `dev`, even if that
token is an error.  `YYACCEPT` ends one call of `yyparse`, and `main` makes
the next, which is why several captures follow each other in a log, and why an
end of file is good only where a run could begin.  A row is what `render_device`
makes of each device: a digit behind so many spaces.

In `TweakCheck` the `input` of sync-check is the log as far as it has been written,
and its end is known once mg-tweak has ended.  With a file instead of a pipe,
sync-check begins afterwards, which is one of the interleavings.  Device numbers have
one digit or two, and `Place` gives them the order that `strcmp` gives the names: 10
comes after 1 and before 2.

`TimeVal` computes with whole microseconds.  The number of frames is a `float` in
the code; here it is the time that the float stands for, in microseconds of 40000
to the frame, truncated: 0.7 frames are 27999, as 0.7f is less than 0.7.  A
percentage is scaled exactly and truncated as C does; in single precision some
percentages are a little more than they say (five), which truncation hides, and
some a little less (one), which may take a microsecond.  The loops of `timernorm`
and `frame_time` are the recursive functions `borrowed`, `carried` and `summed`.

## 3. Runs

| run | instance | question | result |
|---|---|---|---|
| capture | 2 devices, 2 buffers, 4 units of time, insertion at the end, `mg_capture` of -1, 0, 1, 2, one failing or interrupted system call | are the buffers, the deliveries, the halt, the count and the answers right, whatever the program does, and when it goes on after a failure? | pass |
| timing | 2 devices, 2 buffers, time without end, signals at least 3 apart | how long can a capture keep the program waiting, and does it always go on, and end after a halt? | pass |
| setup | 1 name that comes to mean any of 3 device numbers, of which 2 can capture, 2 buffers, 2 failing system calls, names fixed during a call | is nothing half registered or left behind but for the known leaks, are the answers those of `Registry`, does every call return? | pass |
| logs | 3 logs, 3 streams | are shared streams left alone and own streams closed? | pass |
| tweak | 18 command lines, 4 machines, up to 2 sets, interrupted anywhere | are the right devices registered, are the rows of sync-check the first sets of mg-tweak, is none missing before the log is spoilt, is exactly a whole log accepted, does sync-check end? | pass |
| spurious_fatal | 2 devices | is a fatal loss of sync always preceded by `TV_NO_SYNC` without a set? | violated |
| dangling_node | the library's test program with 3 devices, one of them registered at the start | does the loop stand on a list node when the callback returns? | violated |
| busy_cleared | 2 devices | is `busy` set throughout a capture? | violated |
| halt_latched | 2 devices | does a capture start without a halt? | violated |
| renamed_in_call | as setup, names changing at any time | is no device opened twice? | violated |
| log_without_file | as logs | can a log without a file be destroyed? | violated |
| percent_lost | mg-tweak with one criterion before and one after the percentage | is the percentage added to the frame times? | violated |

Bounds.  `MaxTime` is the last value of the clock, `MaxFaults` the number of
failing calls.  With `TV_IN_SYNC` = 2 a spread of 0 or 1 is in sync and 2
is not; with `TV_NO_SYNC` = 2 and four units of time there is room to
register at 1, to capture a set, to fail after more than 2 units without one,
and to capture again.  Two buffers are the least with which a driver fills
one while the library holds the other, and let old images queue up behind new
ones.  Two devices give every order of images, and a device that joins the loop
from the callback.  The clock is the only bound on the length of a behaviour: a
device makes one image per unit of time, so the counters are bounded with it.
Devices and buffers are symmetric: no definition tells one from another.  The lists
insert at the end in *capture* and *spurious_fatal*, where any frame but the newest
may be first, and at the head in *dangling_node*, *busy_cleared* and
*halt_latched*; the proofs leave it open.

In *setup* one name is enough, because it may come to mean another device between
two calls: two devices get registered under it, and a duplicate is found or
missed by the number and not by the name.  Four open files are enough for the two
registered devices and two leaked files, one for each failure; the third
device number is a character device that is no frame grabber.

*timing* needs no bound on time: the ages saturate.  Its instance has the least
criteria with a difference between "in sync" (0 and 1), "not yet" (2) and "lost" (3).

In *tweak* the command lines are chosen for the cases of the code: the master in the
range of numbers, at its beginning, outside it; several sets in a capture, several
captures (of one device), none; a capture until it is interrupted; every way to be rejected.
`MaxSets` bounds the sets.  There are machines with all the numbers, with one
missing, with two that mean the same device, and one whose numbers have one digit and
two, where the order of the names is not that of the numbers.  Stamps are two, on both
sides of a full second, and an image is older than the callback that gets it.

`EndOfTime` lets a `select` that waits for a clock that has stopped stand
still.  Deadlock is checked: everywhere else the library or the program can go
on, even when time has stopped.

The properties are commented in `MultiGee.tla`.  In short: `BufferAccounting`
and `FrameHoldsImage` tie the frame list to the driver's queues;
`DeliverySynced` and `DeliveryFresh` say what the user may rely on when
the callback is called; `OneCallbackPerPass`, `ReturnsCount` and `HaltIsFinal`
say how often it is called.  The last three hold as long as the callback has
not freed the list node that the loop stands on (`dangled`): after that the
code promises nothing.

What the violated properties show.

- *spurious_fatal.*  `sync_test` skips frames older than `last_sync`, but not
  the first one of the list, with which it initialises both extremes.  A device
  registered (dummy frame) or last captured from long ago, at the head of the
  list, and a fresh image of another device are more than `TV_NO_SYNC` apart:
  the capture ends at its first image, although no time has passed.
- *dangling_node.*  The test program's callback replaces one extra device by the
  other.  When the image of the extra device completed the set, the loop stands on
  it.  Deregistering all devices in the callback is also the documented way to
  end an endless capture.
- *busy_cleared.*  The refused call resets `busy` (and `last_sync`).
- *halt_latched.*  `halt` is set and never cleared.
- *renamed_in_call.*  The number that is compared is that of the device the
  name meant at `stat`; `open` looks the name up again.  `OneOpenPerDevice`
  holds in *setup*, where names stay the same during a call, and
  `ImplementsRegistry` rests on the same assumption.
- *percent_lost.*  The two criteria of the state that TLC finds are wrong for two
  reasons.  The percentage counts only for criteria that come after it on the command
  line: one frame before `-p 10` becomes 42 milliseconds, with the five per cent of
  the defaults, and not 44.  Seconds and microseconds are enlarged separately, and
  truncated: 25 frames after it become 1.000000 seconds and not 1.1, as they do
  with the five per cent of the defaults.
- *log_without_file.*  `close` stays true, and `lg_destroy` calls `fclose(0)`.

More differences between documents and code that need no run to be seen.

- `doc/api.txt:235-237` makes the answer of a successful `mg_deregister_device` the
  number of devices that remain registered.  It is the identifier that was given
  (`multi-gee.c:433`), as `multi-gee.h:166-168` says, and that is what `Registry`
  promises.
- `doc/api.txt:232` lets the identifier -1 deregister all devices: no device has
  that descriptor, so `mg_deregister_device(-1)` fails.
- The comment at `log.c:37` sends the messages of a log without a file to
  `/dev/null`: `lg_log` writes them to stderr (`Target`).
- `print_tv` shows times below -1 second with two seconds too many (`Shown`): its
  comment at `mg-tweak.c:33` explains the representation that the middle case
  then mistakes.
- `pgm_append` compares the number of rows written with the width of the image, and
  so reports failure when all is well; its caller does not look.

`LeakPerFailure` and `BusyMeansLeaked` say how bad the leaks of `DeviceSetup`
are: a failing call leaves at most one open file behind, and a device is refused
by its driver only on account of such a file.  It stays refused until the
process ends.

`SilenceBounded` is exact: without signals a capture keeps the program waiting for
at most twice `TV_NO_SYNC` (a test that is just in time, then a `select` that times
out), with signals for one `TV_NO_SYNC` more, as an interrupted `select` starts
over.  `SignalAssumption` is the condition under which this is so: signals that
come faster than `TV_NO_SYNC` keep a capture waiting for ever.

`AcceptsWhole` says of sync-check what its exit status is worth: success means that
every capture in the log succeeded and that the log does not end within one.
`RowsShowSets` says that no set is mixed up with another: the rows are the first sets,
whatever stdio holds back.  `RowsComplete` says which sets have rows: all that the log
tells of before a line that `Spoils` it, also where sync-check ends with an error at
that line.  Sets behind such a line have none, even if mg-tweak went on and ended well:
a capture that fails, or a message, stops sync-check.  Without such a line, and without an
interruption, all sets have rows.

Fairness.  `MultiGee`, `Log` and the program mg-tweak have none: their properties are
safety properties, and the user may leave a program waiting.  `DeviceSetup` has weak
fairness of the library's next step: a sequential program that is not blocked goes
on, and none of these system calls blocks for ever.  `CaptureTiming` has it
of the library's steps, of time, and of the return of the callback, which is
what a program that uses the library must see to; none of the cameras, and none
of the signals.  `TweakCheck` has it of sync-check, which reads what there is.

## 4. Proofs

Every theorem holds for every value of the constants that satisfies the
assumptions of its module: any devices, buffers and descriptors, any criteria,
any number of failures, any length of time.  The bounds of the runs are
parameters too, and nothing in the proofs depends on them.  Each inductive invariant
was checked with TLC before it was proved.

| theorem | property | run |
|---|---|---|
| `TypeCorrect`, `BuffersAccounted`, `FramesHoldImages`, `OneCallback`, `HaltFinal`, `CountReturned`, `SyncedDelivery`, `FreshDelivery` | `TypeOK`, `BufferAccounting`, `FrameHoldsImage`, `OneCallbackPerPass`, `HaltIsFinal`, `ReturnsCount`, `DeliverySynced`, `DeliveryFresh` | capture |
| `LibraryKeepsPromise` | `ImplementsSession` | capture |
| `SetupTypes`, `DescriptorOwners`, `OneLeakPerFailure` | `TypeOK`, `DescriptorsOwned`, `LeakPerFailure` | setup |
| `RegisteredAreReady`, `OpenedOnce`, `BusyByLeaks`, `SetupImplementsRegistry` (names fixed during a call) | `RegisteredReady`, `OneOpenPerDevice`, `BusyMeansLeaked`, `ImplementsRegistry` | setup |
| `TimingTypes`, `SilenceIsBounded` | `TypeOK`, `SilenceBounded` | timing |
| `LogsWritable`, `NoStreamLeaks` | `WritableWhileLive`, `StreamsOwned` | logs |
| `WantedRegistered` | `RegistersWanted` | tweak |
| `NormalTimes`, `FrameTimes`, `TweakTypes` | about `timernorm`, `frame_time`, and `TypeOK` of `MgTweak` | (part of tweak) |
| `WholeLogsAccepted` | `AcceptsWhole` | tweak |
| `SelfTestAllowed`, `SelfTestAnswers` (of `SelfTest`) | `Spec` of `MultiGee`; the answers of `mg_capture` | (system of dangling_node) |
| `PipelineTypes`, `RowsAreTheSets`, `RowsAreComplete` | `PipelineTypeOK`, `RowsShowSets`, `RowsComplete` | tweak |

### MultiGeeProofs

The assumptions say that `NoBuf` and `NoDev` are not a buffer and a device, and that
the numbers are numbers.  The argument has four inductive invariants, each proved
with one lemma per group of actions.

1. `TypeInv`: `TypeOK`, and listed devices are open (`OpenFds`), without which
   the bits that `select` leaves would not be descriptors.
2. `BufferInv`: for each device, the buffers with the process are the one of its
   frame and the lost ones, and the frame's buffer carries the frame's
   time stamp.  The lemmas `FilledBuffers`, `StartedBuffers`, `SwappedBuffers`
   and `LostBuffers` treat one device and one operation of the driver each.
   It is `BufferAccounting` and `FrameHoldsImage` (`BufferInvMeaning`), which
   are inductive together.
3. `LoopInv`: `PassInv`, `HaltInv` and `CountInv`.  "At most one callback per
   pass" is not inductive.  What carries it is `SomeServed`: once the callback
   has been called in a pass, some listed device is behind the loop and has a
   used frame, so that `sync_test` cannot find all frames ready.  Right after
   the callback that device is the one the loop stands on, which is why
   deregistering it breaks the promise.  `HaltInv` and `CountInv` add that a
   halt during a pass comes from its callback, and that a pass starts at least
   one set short of `n`.
4. `FreshInv`: for each device, shown, current and waiting images are in the
   order of their time stamps, waiting ones differ, dummy frames count as used.
   It rests on `BufferInv`: a new image differs from the one in the frame list
   because the driver's buffer still carries that time stamp.

### SessionProofs

The initial states map to initial states, and a step of `MultiGee` is a step of
`Session` or a stutter.  `HiddenSteps` are those of the drivers and of the loop
between two callbacks; `ProgramSteps` the calls of the program, `DeliverStep` the
callback, `AnswerStep` and `ReturnSteps` the ways out of `mg_capture`.  What `Deliver` and
`Answer` require is in `LoopInv` and `FreshInv`, and in one invariant more:
`PlaceInv` says that there is a callback wherever the loop is past the check for one,
and that `sync_test` is called for a listed device.

### SelfTestProofs

The test program's calls are of the kind that `MultiGee`'s user makes (`ProgramCalls`), so
that all its behaviours are behaviours of `MultiGee`, for any devices in its lists
(`ProgramConstants`).  `CallerInv` ties the two together: while a capture is in
progress it is the program's, with its number of sets and its callback, and nobody
halts it.  From this and `CountReturned`, each of its captures gives all its sets or fails for
the devices or their synchronisation.  As *dangling_node* shows, the condition that the loop
stands on a living node is not idle here.

### DeviceSetupProofs

The invariants follow the life of an object.  `ControlInv` says what there is
at each system call: the object at hand, its descriptor, whether it is listed.
`FdInv` gives every open descriptor its object; with `TypeOK` they are `TypeInv`.
`FileInv`, `ListedInv` and `HandInv` (`StageInv`) say that no two descriptors share an open
file, that those of listed devices have all their buffers and stream, and how far the one at hand
has got.  `LeakInv` counts: the files that have leaked, and one more if the object at
hand is about to leave one behind, are at most as many as the calls that have failed.

The rest needs that a name keeps its meaning during a call (`~RenameInCall`), without
which it is false (*renamed_in_call*).  `NumberInv`: the device number of an object is
that of its open file, and no two objects have the same.  `SelectInv`: the input and the
standard of a listed device are selected.  `NameInv`: the object at hand is of the device
that the program named.  Then each answer is one that `Registry` allows, and the
table changes when it does (`RegisterStep`, `DeregisterStep`, `RefuseSteps`,
`AgainStep`, `CallSteps`); all other steps stutter (`InnerSteps`).
The refinement is about the safety part of `DeviceSetup`, which is all that `Registry` has.
`ObjAssumption` says that no object is the absence of one.

### CaptureTimingProofs

`SilenceBounded` is not inductive: how long a capture may still be silent depends on
where it is.  `SilenceInv` says that the program has not waited longer than since
`last_sync` while that is recent, that a capture enters `select` after at most
`TV_NO_SYNC`, and that in `select` it has waited as much longer as the timeout has run,
and another `TV_NO_SYNC` only after a signal, since which the timeout has run.  `SignalAssumption` is what the bound rests on: there are no
signals, or they are further apart than `TV_NO_SYNC`.

### LogProofs

The invariant adds to the properties that a log that will close its stream has
a stream of its own, that is open, and one that will not has a standard stream;
then no destruction closes a stream that another log writes to.

### MgTweakProofs and TweakCheckProofs

Three assumptions.  `CommandLineAssumption` says what `getopt` returns: options, with
numbers or `Bad`, and that the numbers are far enough from `INT_MAX`.  `MachineAssumption`: device numbers have one digit or two, since
`render_device` shows one digit and `Place` orders two (the kernel has 64 numbers).
`MomentAssumption`: what `gettimeofday` and the drivers return is normalised.

*Arithmetic.*  `NormalTimes` and `FrameTimes` are about recursive functions, whose
definitions are choices: that there is a function to choose has to be proved by
showing one (`Unborrowed`, `Uncarried`, `Value`).  That it is the only one is an
argument by the least counterexample (`LeastNumber`), with the number of seconds
still to borrow or carry as the measure.  `timernorm` leaves a full second in the
microseconds where it is, and so the range includes `Second`.

*Registration.*  `CountInv` relates the bound of the registration loop to the master
that it skipped or has yet to meet, `NumbersInv` says which numbers are registered
while it runs.  `TypeInv` adds the types: the criteria are normal times
(`CriteriaInv`, by `FrameTimes`), and there are devices behind the numbers
that are registered (`NodeInv`).

*Accepted logs.*  `AcceptsWhole` is about two programs that do not know each other.
`WriterInv` says of mg-tweak which kinds of lines follow each other in what it has
printed (`Follows`, with messages anywhere), and which one was printed last, at each
place of the program; it needs `RegistrationInv`, because a set without devices would
be a line that nothing follows.  Lines are printed with `Write` or `WriteOut`, and
sequences of lines fit together at the seam (`Concatenation`), so that what stdio
holds back and what an interruption loses is an end of what fits.  `ParserInv` says of
sync-check what it has read: where the parser is follows from the last line
(`Places`), and when it ended, it did so for a reason that more lines do not take
away.  Any line that `Follows` allows and the parser does not is the end of a
capture without a set; that, or a message, spoils the log (`ErrorSpoils`), and then
it is not whole.

*Rows.*  `RowsShowSets` compares what one program showed with what the callback of
the other was given, and neither knows the other's data.  Between them stands the log,
and the argument goes through it.

1. `SetsInv` says what the log tells, as a property of the lines alone
   (`SetsShown`): the k-th block of `dev` lines is about the k-th set, each line has
   the age of its own image, no device is in a block twice, and a block that is followed by
   another line is whole.  Unless the program was killed, all the sets are told of
   (`AllShown`).  It is inductive for what is printed, the log with stdio's
   buffer, and holds of the log because cutting lines off the end leaves it
   true (`CutLog`).  A set that is added (`OneMoreSet`) needs that no device
   number is registered twice, which is `RegistrationInv` again.
2. `ReaderInv` says that the rows show the sets that were read, and that the list has
   the objects of the set that is being read, in the order of `strcmp`
   (`Lists`).  That `g_slist_insert_sorted` keeps the order is `SomePlace`, `Inserting`,
   `Placed` and `Sorted`: there is a place for a new device, everything before it
   comes before it, and everything from there on comes after it.  `RowMade` turns the list into
   a row.  The last row may lack devices only where the log is `CutShort`.  When
   mg-tweak writes more, nothing that was read changes (`ReaderWaits`).
3. `RowsComplete`: the parser stops at the end of the log or at a line that spoils it
   (`ErrorSpoils`), and nothing before spoils it (`NothingSpoiled`).  So the sets that
   the log tells of up to there are those that were read (`ToldWasRead`), but for one
   of which no device was written, and `ReaderInv` counts the rows with them.  When
   both programs have ended well, all lines were read (`ParserInv`), all sets were
   told of (`AllShown`), and so there is a row for each.

### What stays with TLC

- Liveness (`CallsReturn`, `CaptureGoesOn`, `HaltEnds`, `Finishes`), which is out of the
  prover's reach, as is `ENABLED`.  It is checked on the instances of the runs.
- The violated properties are what TLC finds.

Every safety and action property that a passing run checks, and both refinements, are
theorems.

## 5. Plan

What is left is the capture within the callback that is accepted (see below), with a
stack of captures in place of `n`, `count` and `sync`, and the frame lists below.

## 6. Not modelled

- A capture within the callback that is accepted, after one that was refused: it
  needs a stack of captures, each with its loop, and the frame lists of the callbacks
  below.  *busy_cleared* shows the state in which it would begin.
- The example program `multi-gee.c` and its helpers: a linear use of the library
  whose calls are among those of `MultiGee`'s user; image and terminal output.
- The tests of `mg_device`, `mg_buffer`, `mg_frame` and `log`, which make single calls.
- `linux/videodev2.h`, the kernel's interface, beyond the states of a buffer.
- The contents and lengths of images, log wording, `DEBUG_SELECT` output,
  `ENABLE_SYNC_HACK`, frame sequence numbers, descriptors beyond `FD_SETSIZE`.
- That mg-tweak dies of SIGPIPE when sync-check has left; sync-check's memory; the
  scanner's treatment of characters that are in no log.
- `sllist` and `cclass`, which are not in the repository.
