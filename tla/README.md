# Verification of QDiag Band Lock

TLA+ models of the program in `src/` (an Android app that controls a Qualcomm
modem through a root process), their TLC configurations, and TLAPS proofs.
C files named without a path are in `src/app/src/main/cpp`, Kotlin files in
`src/app/src/main/java/com/qdiag/bandlock`.

## The system

The **UI process** holds the Compose screens, `MainViewModel`, the telephony
`CellObserver` and `RootClient`. The **root process** (`DiagRootService`, a
libsu RootService) holds the JNI library. The UI process calls the root process
by AIDL; each call runs in a binder thread there, and several can run at once.

| Component | State | Operations | Correct means |
|---|---|---|---|
| Frame store (`sniffer.c:19-87, 172-193`) | `g_ring`, head, tail, `g_total`, `g_dropped`, under `g_ring_mtx` (the total is not) | push, drop oldest, drain, reset | no record lost or damaged unless dropped and counted; FIFO; bounded |
| Sniffer control (`sniffer.c:91-170, 195-210`) | `g_running`, `g_thread`, the worker's accumulator | start, stop, worker loop, save | one worker at most; flag, thread and counters agree; stop returns; save flushes |
| DIAG channel (`diag.c`, `jni_bridge.c:42-86`) | `g_diag_fd`, what waits in the device | open, close, write, read, `send_and_recv` | no leaked descriptor; a call returns, in time, the answer to its request |
| Message builders (`qmi_nas.c`, `efs2.c`) | transaction and sequence counters | build, parse | the result reported is the modem's for this request |
| HDLC codec (`hdlc.c`) | none | encode, decode | round trip; a corrupt frame decodes to nothing |
| QRTR (`qrtr.c`, `jni_bridge.c:392-551, 1015-1057`) | `g_sock`, node, port, `g_txn`, effective ids | open, lookup, enumerate, transact, close | responses matched, sockets closed, credentials restored, partial success reported |
| QMUX (`qmux.c`, `jni_bridge.c:560-687, 689-1013`) | `g_sock`, transaction counters, allocated clients, effective ids | open, alloc, release, transact, close | frame sync, client ids released, timeouts kept |
| Vendor probe (`helper_main.c`, `jni_bridge.c:1066-1232`) | a child process | fork, dlopen, log | a diagnostic, no state of its own |
| Root session (`RootClient.kt`, `DiagRootService.kt`) | connection, api, status | checkRoot, bind, unbind, callbacks | after a crash the api comes back or the user is told |
| View model (`MainViewModel.kt`) | one `UiState`, `busy`, the poll loop | `withApi` operations, poll | flags follow the root process; no update lost |
| Cell observer (`CellObserver.kt`) | snapshots, push callback | push, refresh, publish | the latest snapshot is shown; tables name the right band |
| Band mask (`BandMask.kt`) | two 64-bit words | with, union, contains | a 128-bit set |

How they interact: the app sets `busy` while an operation started by `withApi`
runs, and most buttons are disabled meanwhile. That is the only thing that
serialises calls into the root process, and it is imperfect: "Open /dev/diag"
(`MainScreen.kt:723`) is never disabled, and whichever operation ends first
clears `busy` for the other. The C code has one mutex, around the ring. The
capture worker, `drainLog` and every `send_and_recv` read the same descriptor.

The hard behaviours are listed, each at its line and with the properties that
watch it, in `PROJECT.json` under `hazards`.

## Modules

| Module | Models | Checked in |
|---|---|---|
| `FrameQueue` | what the frame store promises: a FIFO bounded in bytes | `FrameQueue`, proved |
| `FrameRing` | the store as bytes and indices; implements `FrameQueue` | `FrameRing`, proved |
| `Sniffer` | worker, starts, stops, drains and saves over a `FrameQueue` | `Sniffer`, proved |
| `Accumulator` | how the worker cuts what it reads into frames | `Transports` |
| `DiagChannel` | `g_diag_fd`, `send_and_recv` and the other readers | `Transports`, `Transports_returns`, proved |
| `Qmux` | the stream to qmuxd, client ids, transactions, the band preference | `Transports`, `Transports_returns`, proved |
| `QmuxProbe` | the reachability probe with its handmade frames | `Transports`, proved |
| `Qrtr` | lookup, transactions, and the three operations over QRTR | `Transports`, `Transports_returns`, proved |
| `QrtrEnumerate` | the listing of services | `Transports`, proved |
| `Credentials` | ids dropped and restored around a connect | `Transports`, proved |
| `VendorProbe` | the helper process and its verdict | `Transports`, `Transports_returns`, proved |
| `TlvWalk` | the four loops that walk the TLVs of a response | `Operations`, `Operations_returns`, proved |
| `BandRequest` | a selection of bands from the check boxes to the modem | `Operations`, proved |
| `DiagCalls` | what a call over DIAG makes of the frame it gets | `Operations`, proved |
| `ViewModel` | UI state, `withApi`, the poll of the capture | `Operations`, `Operations_returns`, proved |
| `RootSession` | binding and death of the root process | `Operations`, `Operations_returns`, proved |
| `Transports`, `Operations` | sums of the above | |
| `MCTransports`, `MCOperations` | frames for TLC | |
| `*_proofs` | theorems | |

Definitions marked "Faulty" in the modules are the forms that a plausible
mistake would give the definition that follows. `PROJECT.json` pairs one with
each property of a run; those that it does not list break one of the conjuncts
of a property that has several. They belong to no specification.

### Sums of components

`Transports` (native code) and `Operations` (what the user asks for and is
told) INSTANCE components that share no variable and no resource of the code:
each C file keeps its own static variables, and what two of them have in common
(the thread, the modem) is in the one that it matters to. A step of one
commutes with every step of another, so a property of one holds of all running
together exactly if it holds of that one alone. The variable `part` therefore
picks, in the initial state, the component that moves in a behaviour; the
others stay at one of their initial states. Nothing is lost by that for the
properties here, each of which speaks of one component, and TLC is spared the
product. What does cross a border is inside one module: the capture worker and
the calls that read the same descriptor in `DiagChannel`, the poll, the
operations and the main thread in `ViewModel`, the process and its client in
`RootSession`, the boxes and the four request builders in `BandRequest`, and
the worker over the store in `Sniffer`, whose store `FrameRing` implements.

### FrameQueue and FrameRing

A frame is its number in the stream of frames accepted, and the interval of
bytes its record takes in the stream of bytes ever written. `Offer`,
`DropOldest`, `Accept` are a push: lock, each turn of the loop that makes room,
write and unlock. `Deliver(k)` is a drain, `Reset` the reset in `sniffer_start`.

`FrameRing` has the array, `head` and `tail` as in the code. Loops under the
mutex are taken turn by turn, and boundaries between records are found only in
the header bytes, wherever the end of the array cuts them. A payload is a mark
that tells its frame from the others. `frames`, `wrote` and `delivered` are
history variables; the refinement mapping `FQ` takes `queue` from `frames`, and
`accepted` from `g_total` plus the frame that is in the ring and not counted
yet: `PushCount` is a stutter of `FrameQueue`.

### Sniffer and Accumulator

`sniffer_start` and `sniffer_stop` are cut at their atomic steps: the
compare-and-swap or exchange of `g_running`, the locked reset,
`pthread_create` (which may fail), the read of `g_thread`, and `pthread_join`.
The worker's steps are the check of `g_running`, the read, and the steps of a
push. In `Sniffer` a read completes any number of frames; which ones is the
subject of `Accumulator`: bytes are known by their frame and place, a read
brings up to a chunk, the oldest bytes go when `acc` is full, every flag ends a
candidate, and `hdlc_decode` accepts exactly a whole frame that fits its
buffer (it is mapped by what it accepts; its CRC is taken not to collide).
`tail`, `whole` and `inPlace` are history. A drain is one step, because the
mutex makes it one. A save is a sequence of drains and writes, between which
anyone may run. `Controllers` is the set of binder threads that may be inside a
start or a stop: one as the app intends, two for what happens when `busy` does
not keep them apart.

### DiagChannel and DiagCalls

What comes from the modem is a sequence of pieces: an HDLC frame arrives whole
or as a head and a tail that a read may part. `OpenCheck`, `OpenAssign` and
`OpenSwitchFails` are `diag_open` cut at the window between the test and the
assignment of `g_diag_fd`; `CloseDescriptor` and `CloseForget` are
`diag_close`. `SendWrite`, `SendPoll`, `SendRead`, `SendReadFails` and
`SendTimeout` are `send_and_recv`. Decoding succeeds at a terminator exactly
when everything from the start of `rx` to it is one frame. A pending EAGAIN is
the same as an empty poll. What the modem sends, and that the driver forgets
what waits when the last descriptor is closed, is external; so is the data-type
prefix that some drivers put before what is read, which is not modelled.

`DiagCalls` starts from the frame that `send_and_recv` returns: the seven calls,
the guards of `NotOpen`, `BuildFails`, `WriteFails`, the folding of errno into
the result codes, the checks of the parsers, and `decodeRc` as the user reads
it. The QMI parser does not look at the header, so that a foreign frame yields
any result (`QmiCodes`); the EFS2 parsers compare command and subsystem, and
`efsGetItemFile` the operation.

### Qmux and QmuxProbe

One call runs at a time. The inbox holds frames in the order of the stream; a
frame larger than the caller's buffer leaves `Body` in it, behind which
`RecvGarbage` reads a header of any shape. A frame for another client, an
indication or a late answer is skipped and charged one unit of the budget
(`Skip`), or, when its number is that of the request, taken (`Matches`).
`requests`, `clients` are the daemon's. `Release` is the release at the end of
`qmuxSetBandPref`, whose write may fail in the middle (`torn`). Transaction
numbers count to `MaxTxn` and do not wrap: the byte of the CTL counter would
have to wrap within one connection and meet an answer 255 requests late.

`QmuxProbe` connects to every candidate, keeps the first, and counts the bytes
of its two frames, against a daemon that waits for as many as the header says.

### Qrtr and QrtrEnumerate

An operation reopens the socket, looks up its service (instance 1, then any),
and sends its requests one after the other; `qrtr_transact` takes the first
datagram of the right port. The loops look at the clock only when they have
emptied the socket, which `draining` says. `After` is what each operation does
with the outcome of a request. Replies carry the operation and the request they
answer, so that `credit` can say what was taken for what.

`QrtrEnumerate` has the passes, the budget of polls, the search for
duplicates, and the count that goes on when the array is full.

### Credentials

The eight steps from saving the ids to restoring them, with a refusal possible
at each that calls the kernel. `qmux.c` and `qrtr.c` are the same here;
`probe_connect` lacks their recovery (`site = "probe"`).

### VendorProbe

The caller (copy, exec, read lines, pclose) beside the helper, which loads
libraries in any order, prints its two lines, and may crash at any point.

### TlvWalk and BandRequest

`TlvWalk` walks the bytes of any frame with the checks of each of the four
parsers; `touched` is how far it has read. `BandRequest` has a word as the set
of its bits and a byte likewise, the requests of the four paths as sequences of
items with their bytes, and a modem that takes or rejects each.

### ViewModel and RootSession

Every update of the UI state reads, copies and writes; the body of an operation
does so on an IO thread (`IoReads`, `Ask`, `IoWrites`), all else on the main
thread, one update at a time (`main`). The poll blocks the main thread while it
asks. `Throws` is an AIDL call that ends in an exception. `RootSession` has the
root check, `bind` with its test of `connection`, libsu's two callbacks posted
to the main thread, and the death of the process.

## Runs

| Run | Shows | Bounds |
|---|---|---|
| `FrameQueue` | capacity, accounting, no gaps, contiguity, over all orders of the operations | capacity 15 with records of 5, 6 and 15 bytes: one fills the store exactly, up to three fit; six frames between resets give every pattern of drops in a store of three |
| `FrameRing` | bytes against frames, what a drain copies, the refinement of `FrameQueue` | ring of 16 bytes, base-2 "bytes" so that length 11 fills all four bytes of the header; four frames go round the array twice; drain buffers that take one record, or any |
| `Sniffer` | one worker, flag and thread agree, the reset meets no push, counters, saves flush, stops return | one controller, two worker identities, four frames, two per read, a save buffer that a record fills exactly |
| `Transports` | the safety of the native code, see below | see below |
| `Transports_returns` | every call returns | as `Transports`, with two binder threads, so that one may close the device under the other's call, and an `rx` that fills up before the timeout |
| `Operations` | selections, results, walks, busy, connection | see below |
| `Operations_returns` | walks end, the buttons come back, the app gets connected | an operation that starts while others run; no deaths |

`Transports` checks, one component each:

- `DescriptorsKnown`, `HiddenOnlyByTorn` (`DiagChannel`): one binder thread with
  a capture and log drains beside it, two requests and a log: enough for a late
  answer to meet the next call and for a log to tear a frame.
- `WholeIsPushed` (`Accumulator`): `acc` of 8 bytes, chunks of 2, a decoder of 3,
  in the proportion of the code (16384, 4096, 4096): with a smaller `acc` of 7,
  where a chunk behind a frame with every byte stuffed overflows it, TLC finds the
  property violated. Three frames of four kinds (a flag alone, the shortest, all
  stuffed, too long for the decoder and for `acc`), one read of others.
- `AnswerIsOwn`, `OrphansExplained` (`Qmux`): a budget of two frames,
  transaction numbers up to four, two frames waiting: a late answer, an indication and
  the answer of the call can all meet.
- `OkMeansAccepted`, `RejectedMeansUnread` (`Qrtr`): two operations, up to three
  writes, two datagrams of noise in each.
- `ListsWhatWasHeard` (`QrtrEnumerate`): three services for an array of two, two
  passes of two polls, four announcements.
- `OneConnection` (`QmuxProbe`): three candidates, two unasked frames.
- `Restored` (`Credentials`): `qmux.c` and `qrtr.c`; any number of calls.
- `VerdictIsOfThisRun` (`VendorProbe`): two libraries, three symbols, one of which has no
  bit in the mask, two calls.

`Operations` checks:

- `InBounds`, `FindsResult` (`TlvWalk`): all sequences of up to three TLVs out of six
  (two results, one too short, a client id, an empty one, one longer than any
  frame), and of up to two cut at every byte, each with every declared length.
- `SelectionArrives` (`BandRequest`): words of four bits and bytes of two, so that
  a word has two bytes and the NR item of EFS eight; boxes in both words.
- `FsResultIsModems`, `SidesToldApart` (`DiagCalls`): two calls, one log, four
  operations; two calls are what a late answer needs.
- `BusyClears` (`ViewModel`): three operations at once with a poll and another
  update.
- `SessionFollowsProcess` (`RootSession`): two deaths, three taps.

Runs that must find a violation, each a disagreement between the code and what
the repository says of it (`findings` in `PROJECT.json` quotes both):

| Run | Property | What it shows |
|---|---|---|
| `Sniffer_overlap` | `OneWorker` | a start during a stop's join makes two workers |
| `DiagChannel_late` | `AnswersRequest` | a late answer is credited to the next call |
| `Qmux_overflow` | `AtFrameBoundary` | a frame longer than the buffer leaves its body in the stream, with the socket open |
| `Qrtr_nr` | `OkMeansAll` | 0 is returned though the NR request failed |
| `RootSession_retry` | `RetryConnects` | after the root process died the user is told to retry, and no bind is ever made |

### Further disagreements

Each of these properties is what a comment or a document of the repository says;
each is stated in its module, quotes its line there, and is found violated by
`tlc -config <cfg> <module>`. Where a cfg serves several, its first line
says which to put in the place of the one it names.

| Module, cfg | Property | What TLC shows |
|---|---|---|
| `FrameRing_count` | `TotalCoversAll` | the total lags what was drained or dropped |
| `Sniffer_longframe` | `SaveFlushes` | a record of 4097 or 4098 bytes at the head of the ring ends the save with success |
| `DiagChannel_leak` | `ClosedMeansClosed` | two opens at once leave a descriptor behind |
| `DiagChannel_torn` | `FirstCompleteFrame` | garbage before an answer hides it |
| | `WithinTimeout` | time in reads that brought bytes is not counted |
| `Qmux_documented` | `ResponseMatches` | an indication with the request's number is taken for its response |
| | `NegativeMeansNone` | an allocation that failed has left a client id in the daemon |
| | `WithinTimeout` | the wait for a frame of another is not counted |
| `Qrtr_late` | `CreditsOwn` | in a clear or a probe a late reply is taken for the reply to the next write |
| `Qrtr_probe` | `StopsAtSuccess` | a probe writes on after its first success |
| | `RejectedMeansNone` | "not supported" is reported though a write was carried out |
| `Qrtr_flood` | `LookupEnds` | the clock is not looked at while datagrams keep coming |
| `QrtrEnumerate_count` | `ShowsOnlyWritten` | the count returned passes the entries written, and the text reads them |
| `QmuxProbe_documented` | `WrittenIsComplete` | `total_len` is one more than what follows |
| | `ZeroMeansAllocated` | a transaction id of 1 is taken for the response flag |
| `Credentials_probe` | `Restored` | `probe_connect` leaves the group of radio when the user id cannot be dropped |
| `BandRequest_documented` | `QrtrAppliesLte` | LTE bands above 64 are not sent over QRTR |
| | `EfsAppliesNr` | NR bands above 64 are not written over EFS |
| | `SameLayout` | the QRTR request has items of its own |
| `DiagCalls_documented` | `FailureIsNamed` | a failed read with its errno reads as a failed write |
| | `OkMeansSameOp` | the answer to another operation counts for a put |
| | `ShortAnswerIsRead` | a response of the ten bytes documented is refused |
| `VendorProbe_documented` | `MaskTellsResolved` | a crash between the two lines gives an empty mask |
| | `ZeroMeansNotLoaded` | 0x10000 is returned with no library loaded |
| | `BitsAsDocumented` | symbols were put between those documented |
| `ViewModel_stop` | `StopIsShown` | a poll that overlaps a stop shows the capture as running for good |
| `ViewModel_start` | `StartIsShown` | an update of another field shows it as idle for good |

### Bounds

`MaxFrames`, `MaxBatch`, `MaxTaken`, `MaxCalls`, `MaxLogs`, `MaxQueue`,
`MaxNoise`, `MaxOps`, `MaxSent`, `MaxOther`, `MaxProbes`, `MaxDeaths`, `MaxTaps`
bound what the environment does; they are guards of the actions that stand for
the modem, the daemon, the user or a new call, never of a step within a call.
`MaxTxn` is the exception: it bounds the transaction counters of `Qmux`, which
do not wrap. The other counters of the code are far wider and are not modelled
with their width.

### Fairness

- `Sniffer`: a worker and a thread inside a start or a stop take their next
  step; `diag_read` polls for at most 200 ms, and the mutex is held for bounded
  loops. Calls themselves, and frames, are never promised.
- `DiagChannel`, `Qmux`, `Qrtr`: a thread inside a call takes its next step, as
  every wait in it is a poll with a timeout. The modem is never assumed to
  answer. `Qrtr` returns under the assumption that the announcements during a
  call are finitely many (`Flood = FALSE`).
- `VendorProbe`: both processes run; a library's loading returns or crashes.
- `TlvWalk`: the loop goes on.
- `ViewModel`: weak fairness for the write of an update in progress; strong
  fairness for the threads, the poll and the screen, since each waits for the
  main thread, which serves its queue in order and is free again and again.
- `RootSession`: the shell answers, the main thread runs collectors and
  callbacks, libsu launches. Neither the user nor a death is promised.

## Proofs

Every theorem holds for all values of the constants that its module assumes
(the ASSUMEs, which TLC evaluates in the runs) and of what the theorem itself
assumes, named below. `PROJECT.json` lists them with the property of a run that
each states.

### The capture

`FrameQueue_proofs`: `TypeTheorem`, `CapacityTheorem`, `AccountingTheorem`,
`NoGapsTheorem`, `ContiguityTheorem`. All follow from `Invariance`,
`Spec => []IInv`. The invariants the run checks are not inductive together:
`Contiguous` speaks of neighbours, and after a drain of `k` frames the store's
use must be compared across the `k` frames that left. `IInv` adds `Ordered` (an
older record lies entirely before a younger one) and `EndsWritten` (all lie
before the next write). The lemma `TakingOldest` does the work for `DropOldest`
and `Deliver` together, taking the `k` oldest frames; `Rest`, `RestOfOne` and
`Added` are what `SubSeq`, `Tail` and `Append` do.

`FrameRing_proofs`: `RingTypeTheorem`, `RingHoldsFramesTheorem`,
`DrainsOldestWholeTheorem` and `RefinementTheorem` (every step of the array with
its indices is one of `FrameQueue` or a stutter, so that what is proved of the
queue holds of the array). `IInv` relates three views of the same bytes: the
indices, which are positions in the stream of bytes ever written modulo the size
of the ring; the frames of the history, which take consecutive intervals of that
stream; and the bytes of the array, which are those of the frames wherever the
end of the array cuts them. Half of the proof is arithmetic: that two positions less than a ring
apart have different remainders, and that the header's bytes give back the
length (`%`, `\div`).

`Sniffer_proofs`: `OneWorkerTheorem`, `RunningTellsWorkerTheorem`,
`TotalIsAcceptedTheorem` and `ResetWhenQuietTheorem` for any set of thread
identities, any store, frames and buffers, under `Alone`: no two binder threads
are in a start or a stop. With two of them `OneWorker` is false, which is the run
`Sniffer_overlap`. The inductive invariant is `Phases`: only the thread in
`g_thread` is one, and where the binder thread is tells whether it lives and what
it was told; `Counts` adds that the frame that `g_total` lacks is the one that
this thread has written and not counted. For any number of binder threads:
`SnifferTypeTheorem`; `StoreTheorem`, the threads use the store as `FrameQueue`
has it, whatever their interleaving; and `SaveFlushesTheorem`, a save that
succeeds has flushed the ring, if a record of the longest frame fits its buffer
(it need not, see `Sniffer_longframe`).

### The native code

`Transports_proofs` has one inductive invariant for each part. The lemma
`...Steps` of a part says that a step of `TransportsNext` is one of its own or
leaves its variables alone, which carries what is proved of the part to the
whole.

- ids: `RestoredTheorem` and `WholeDropTheorem`, for every set of sites without
  `probe_connect`, of which `Restored` is not true. `IdsInv` says which ids the
  thread has at each place of a call, as long as nothing that puts an id back
  was refused (`IdsAt`).
- `QmuxProbe`: `OneConnectionTheorem`, which is inductive with the types.
- `QrtrEnumerate`: `ListsWhatWasHeardTheorem`, for any services, array, passes
  and polls. `ListInv` adds what of the announced services is still in the
  inbox, heard, or written.
- `VendorProbe`: `VerdictIsOfThisRunTheorem`, for any libraries and symbols.
  `VendorInv` relates the lines in the pipe, the libraries loaded and still to
  load, and what the caller has read, at each place of the two processes.
- `DiagChannel`: `HiddenOnlyByTornTheorem` for any number of threads, and
  `DescriptorsKnownTheorem` under `OneThread`, since two opens at once leave a
  descriptor behind (`DiagChannel_leak`). `DiagInv` says what `rx` can be at each
  place of a call: the bytes of whole frames and what a torn one leaves.
- `Qmux`: `AnswerIsOwnTheorem`, `OrphansExplainedTheorem`, for any budget, clients
  and number of transactions. `QmuxInv` says that a transaction number is in one
  place only, a request or a frame of the inbox (`TxnsOnce`), and a client id
  with one owner (`OwnersOnce`); where a call is and what it has sent (`CallAt`);
  that an answer is one to a request sent (`FromDaemon`), and which of them the
  call may accept (`Answered`).
- `Qrtr`: `OkMeansAcceptedTheorem`, `RejectedMeansUnreadTheorem`, for any items,
  operations and noise. `QrtrInv`: requests that wait for an answer are those
  of this operation (`OpenAreOwn`) with one reply at most (`RepliesOnce`); where
  an operation is tells what it has written (`OperationAt`); for the band
  preference, a reply is credited to its own request (`BandCreditsOwn`), and what
  the modem accepted and the operation read is what it returns
  (`AcceptedIsTold`).
- `Accumulator`: `WholeIsPushedTheorem`, for any frames, chunks and reads of
  others, if `2 * DecodeCap + Chunk <= AccCap`. The code has 2 * 4096 + 4096 <=
  16384, and the run takes the least `acc` that satisfies it. `GatherInv` has the
  bytes in the order of the frames (`StreamInv`); `acc` as the end of all that was
  read behind the last flag, short of its start only if that alone would not fit
  (`AccInv`); what is still to come later than the frames read whole
  (`WholeInv`); and what was pushed (`PushedInv`). A read then compares the pieces
  of `acc` with those of what it is the end of: between flags they are the same
  (`SuffixCut`, `CutOfSuffix`), and where `acc` has lost the beginning of the
  first piece, that piece is longer than what decodes. The flags of a sequence
  in order are an enumeration of a finite set of numbers; that there is one is an
  induction, made by a least counterexample (`Least`, `EnumerationExists`).
- `TransportsTypeTheorem`: the types of all parts, from these invariants.

### The operations

`Operations_proofs` carries what is proved of a component in a module of its own
to the sum (`SessionFollowsProcessTheorem`, `BusyClearsTheorem`,
`FsResultIsModemsTheorem`, `SidesToldApartTheorem`); the lemmas `Same...` say
that the instance of a component with its proofs has the actions of the instance
without. It also has

- `TlvTypeTheorem`, `InBoundsTheorem`, `WalksStayInBounds`, for every set of
  frames of any length and every radix: no walk reads outside of its frame. The
  strengthening is that the offset never passes the end of the walk.
- `FindsResultTheorem`, `WalksFindResult`, for the same frames, with any number of
  TLVs: a walk has the first result there is (alloc: the last), or none when there
  is none. The TLVs of a frame are a recursive function of the offset; that it
  exists (`TlvsEquation`) and holds offsets from there on (`TlvsBehind`) is proved
  by a least counterexample. `FoundInv` says that, while a walk runs, the TLVs are
  those behind its offset and those the equation still has, and that what is found
  is what the former hold.
- `SelectionArrivesTheorem`, for every width of words and bytes and all boxes.
  The lemmas `WordArrives`, `MaskArrives`, `NrPayloadArrives` are about the
  operators: a word cut into bytes and put together again is the word, and the
  bands of a payload are those of the mask. `BandsInv` has the masks against the
  boxes (`MaskShowsBoxes`) and, in a call, the part of the plan that is left
  against what the modem has taken or rejected (`Progress`).
- `OperationsTypeTheorem`, the types of all parts.

`DiagCalls_proofs`: `FsOkTheorem` and `GetReturnsItemTheorem` for any calls,
answers and log frames; `CallsTypeTheorem`, where `Room` counts the frames in the
device against the calls and logs, under `LinuxErrnos` (numbers up to 133);
`SidesTheorem` under `SmallErrnos`, error numbers from 4 to 100. Outside of them it
is not true: -1002 minus ESRCH is the code of the decoder, and numbers above 100
leave the range that `decodeRc` knows.

`RootSession_proofs`: `SessionTypeTheorem`, `ApiIsAliveTheorem` and
`ConnectedOnceTheorem` for any number of taps and deaths. Because `connection` is
never cleared, the app binds once; `Stages` lists the states of process, api and
posted callbacks that are left. That no other process is ever born is the
reason why `RetryConnects` fails (run `RootSession_retry`).

`ViewModel_proofs`: `ViewTypeTheorem` and `BusyClearsTheorem` for any operations
and any number of updates. `BusyClears` speaks of states in which no update is in
progress; `NothingBusy` says that while no operation is in progress the copy that
the main thread may still write is not busy either. A copy of an operation needs
no such clause: an operation that has one to write is in progress.

### Model-checked only

- All liveness (`StopReturns`, `EveryCallReturns`, and the properties of
  `Operations_returns`): it rests on fairness, whose ENABLED the prover does not
  reach.

## Not modelled

- The bytes of HDLC stuffing and the CRC (`hdlc.c`), beyond what decodes.
- The layout of the cell lock and EFS2 requests; their fields go to the modem
  and nothing in the program depends on them.
- `CellObserver.kt`: snapshots of cells for the screen, and tables from channel
  numbers to bands. No operation reads them.
- The NV inspector, the log lines and the wording of toasts in the view model.
- The wrap of the transaction counters; a collision of checksums.
- The Compose UI, except for which buttons are enabled; the build.

## Plan

`CellObserver`: order of publication and permission.
