# Secure-Voice-Calls: formal models

TLA+ models of the voice-call client and its directory server, the TLC
configurations that check them on small instances, and TLAPS proofs of what
holds for any number of calls, sessions, names, processes and threads and for
rings and files of any size. Paths are relative to the repository; `src/` is its
source tree.

## 1. The system

| Part | Source | State | Operations |
|---|---|---|---|
| Call engine | `Client/Sources/peertopeer.cpp` | atomic flags `mIsInConversation`, `mIsCanceledStream`; two timer counters; `mClientStream`; the locals of each call's thread | `HandShake` (incoming call, gRPC thread), `sendCallRequest` (outgoing call, detached thread), the two races, four voice threads, `declineCall` |
| Displayed state | `Client/Sources/qmlclientstate.cpp`, `Client/Design/main.qml` | `mClientState`, the loader that is active | `setState` from any thread; the loaders follow `stateChanged` on the GUI thread |
| Client session | `Client/Sources/client.cpp` | `mstream`, `mContext`, `mHasConnection` | authorize, refresh, look up and call, exit; handlers of the GUI's buttons |
| Directory server | `Server/server.cpp`, `Server/main.cpp` | `m_clientOnline`; each handler's `name` | one `Authorization` handler per client stream, with three kinds of request |
| Protocol | `Common/client-server.proto` | - | two bidirectional streams: client-server, client-client |
| Screens | `Client/Design/**.qml` | - | which button is offered where |
| List models | `qmlmissedcallsmodel.cpp`, `qmlclientsonlinemodel.cpp` | two vectors, and the rows the views know of | add, clear, replace, read |
| Audio buffers | `Tools/Sources/recorder.cpp`, `player.cpp`, `audioreader.cpp`, `audiowriter.cpp` | two rings with free-running positions, one packet | fill, take, push, play |
| Audio control | `Client/Sources/audiomodule.cpp` | two worker threads with their queues, two devices | queued start and stop |
| Command line, addresses | `Tools/Sources/commandArgsParser.cpp`, `utils.cpp` | host and three ports | parse; take a host or a port out of an address |
| Start-up | `Server/main.cpp`, `Client/Sources/main.cpp` | log directory, logger, listening thread, port | the sequence of `main`, `runServer` |
| Logging | `plog/include/plog/` | the file's descriptor, its counted size, the files on disk | one `LOG` statement of any thread, rolling, opening, writing |
| Build, tests, rest of plog | CMake, conan, `Tests/`, `plog/` | - | - |

How they interact. `main` makes the logger, parses the command line and
constructs the client, whose call engine starts a thread that listens. The GUI
thread calls `Client`, which talks to the server in blocking reads and, for a
call, starts a thread in the call engine with the address that the server knows,
its port replaced. The peer's call arrives as a gRPC handler in the same engine.
Each call runs a *race*: an event loop that a signal of the engine object must
end. The signal may come from the GUI (a button), a detached 12 s timer, or a
helper thread that watches the stream. The signal's lambdas are connected
without a context object, so they run on the emitting thread, and one emission
reaches the race of every call. Afterwards two voice threads per call read and
write until the shared flag falls, the displayed state changes, or the stream
fails. They turn the one recorder and the one player on and off by signals
queued to those objects' threads and move packets through their rings. All
threads log.

What is hard here: nearly all of the state is shared by all calls; a flag is
tested in one thread and set in another; timers outlive their calls; emissions
are lost if no loop is running; streams die at any time; the order in which
two calls end decides what the user sees; the rings have two threads at each end
and no lock; pages are turned behind the back of a GUI thread that waits for the
server. `PROJECT.json` lists the hazards at their lines.

What makes each part correct:

- *Call engine*: the client never stays on a call screen, or busy, without a
  call; every race ends; a cancel or an answer decides the race, once; hanging
  up reaches the peer; calls do not use each other's stream.
- *Directory*: a name belongs to one session, a served session is found under
  its name, a session that ended is not listed.
- *Session*: one question at a time; a lost server is noticed; no session is
  left behind; who is dialled is who was asked for; the GUI comes back.
- *Audio*: what is heard is what was spoken, in order, each sample once, or
  whole laps are lost; nothing is read outside a ring; devices are on while
  someone talks and off afterwards.
- *Start-up*: a command line means what it says; nobody logs too early; defaults
  of the two programs fit together; a start ends in waiting or in the end.
- *Logging*: what was written last is on disk as long as more than one file is kept,
  in order, each line in one stretch, whatever fails.

## 2. Modules

| Module | What it is |
|---|---|
| `PeerToPeer` | the call engine of one client with the GUI's handlers; its environment is the user, the peers and the directory |
| `NameRegistry` | abstract: names granted to one session at a time |
| `Directory` | the server's handlers and the client's end of their streams; implements `NameRegistry` |
| `Addresses` | the functions of `utils.cpp` on addresses |
| `ClientSession` | the clients' GUI threads, composed with `Directory` (which it extends) and with `Addresses` |
| `Conversations` | what the two rings share: calls, packets, samples |
| `Recorder`, `Player` | the microphone's and the loudspeaker's ring, step by step |
| `VoicePath` | both rings, the calls' streams between them, and the two device threads: one direction of the voice from end to end |
| `CommandArgs` | the parser of the command line |
| `Startup` | both programs from `main` to the first `Wait`; extends `CommandArgs` |
| `RollingLog` | one `LOG` statement after the other, from several threads to one file that rolls |
| `MC*` | bounds, symmetry and restricted environments for TLC |
| `*Proofs` | the inductive invariants and the theorems |

Operators whose comment begins with "Mutant" are altered copies of the
definition that follows them. They are used by no specification; each one is a
plausible mistake that some property has to notice.

### PeerToPeer

`In` and `Out` are the incoming and the outgoing calls, each used once.

| Variable | Code |
|---|---|
| `clientState`, `screen` | `QMLClientState::mClientState`; the state that the active loader shows |
| `isInConversation`, `isCanceledStream`, `timersCount` | the atomics of `peertopeer.h:64-67` |
| `clientStream` | the call to which `mClientStream` belongs |
| `missedCalls` | the calls passed to `addMissedCall` |
| `pc[c]` | the place of the call's thread in `HandShake` or `sendCallRequest` |
| `voice[c]["rd"]`, `voice[c]["wr"]` | its two voice threads |
| `timer[c]` | its detached timer and the number it took |
| `helper[c]`, `response[c]` | `readThread` or `checkCanceledThread`; what the read left in `response` |
| `success[c]`, `outgoingState[c]` | the locals of the race |
| `closed[c]` | the stream was cancelled on this side or has ended on the other |
| `slots` | lambdas of a signal that passed their guard and are still running |

Granularity. One action is one access to shared state together with the thread's
private work around it. Where the code tests and then acts, the two are separate:
`PassBusyCheck`, then `Ring`; `AnswerYes`, then `BeginIncomingVoice`; a reader tests the
loop's condition (`ReadVoiceBlocks`), then its `Read` returns (`ReadVoiceHears`,
`ReadVoiceFails`); a voice thread leaves its loop (`ReadVoiceFails`, `ReadVoiceEnds`, `WriteVoiceEnds`), tests and marks
`mIsCanceledStream` (`VoiceThreadTests`, `VoiceThreadMarks`), cancels the stream
(`VoiceThreadCancels`), and clears the busy flag (`VoiceThreadQuits`). An emission
evaluates the guards of the connected lambdas and puts one slot per lambda that
passed; each slot acts in a step of its own (`IncomingSlot`, `OutgoingSlot`), and
the emitter waits for its slots. So two
emissions can pass the test of `outgoingState` before one of them sets it.
`exit` before `exec` has no effect, as in Qt (`ExitLoop`). The slot of a race that
has returned does nothing; in C++ it would use a dangling reference. A race's
locals are reset when the function returns.

The GUI thread handles one event at a time and offers the buttons of the screen
that is *shown*, which lags behind `setState` calls of other threads (`SetState`
and `ShowState`) but follows its own at once (`SetStateOnGui`). During a lookup
it blocks.

Assumptions about time and surroundings:

- twelve seconds are enough for a race to connect its lambda and enter its loop
  (`RaceIsSetUp`); any number of other things may happen in them. When a timer wakes,
  its own race is set up, and so is every race of its side whose timer had counted
  before (`CountedBefore` in `TimerWakes`). Before is read off the numbers, which a
  firing timer sets back; for two calls of a side this is exact, for more it
  may hold back a timer a little longer than the clock would;
- the microphone delivers data, so a writer on a dead stream finds out
  (`WriteVoiceFails`), and keepalive ends a dead stream (`RemoteEnds`);
- a call that lost its stream object to a second one (`Replaced`) reads, writes and
  finishes on the other's: there it may fail at any time and need not fail when
  its own stream is dead (`Dead`, `MayFail`); the data race on the pointer itself is
  not modelled.

### Directory and NameRegistry

`Streams` are the authorization streams, each opened at most once; an address
(`context->peer()`) is the stream. `handler` is the state of the handler,
`name` its local, `link` the client's end, `request` and `answer` the message
under way in each direction. The client authorizes first and then asks one question at a time. It may leave
properly (`Leave`) or drop out (`Drop`) between any two messages, with or without
the message under way. Each operation on the map is one step, although the code
has no lock around it.

`EmptyName` is the initial value of the handler's `name`. The authorization
screen accepts an empty name, so a user may have it. A stream that ends before it
authorized then erases that user's entry (`server.cpp:64`): the user stays online, is
listed no more and cannot be called. The properties therefore speak of the other
names, and `EndOfStream` does what the code does.

`NameRegistry` keeps only who holds which name: `Grant`, `Release`, and `Lose`
for a session that goes away with its name. The refinement maps an entry whose
handler is no longer reading to `Lost`.

### ClientSession and Addresses

One client is one process. `gui` is where its GUI thread waits (`authorizing`,
`listing`, `lookup`, `finishing`), `question` the request it waits with, `mstream`
and `hasConnection` the members, `owner` the client that opened a stream, and
`response` what the handler's local `response` holds. `listed` are the users in the
client's list; it keeps them when the connection is lost, as the model of the code
does. `clientState` and `screen`
are as in `PeerToPeer`, with one state `Call` for the four call screens.
`callThreads` keeps of an incoming and an outgoing call only that it is there:
it turns the page when it rings and when it ends (`SetStateBehind`), also while
the GUI thread is blocked. `dialled` are the addresses given to call threads.
`missed` is the vector of missed calls, `missedRows` how many rows the view
was told of; leaving the Online screen destroys the page and clears the
vector (`Show`).

Each button is one action up to the blocking call (`PressSignIn`, `PressRefresh`,
`PressCall`, `PressExit`, `PressClear`); each way it comes back is another one:
`SignInSucceeds`, `SignInRefused`, `ReadClients`, `ReadAddress`, `FinishReturns`,
`ReadFails`. `ReadFails` stands for every failing `Write`, `Read` and `Finish`. The
server's steps are those of `Directory` with the response filled in (`ServerStep`);
`LoseConnection` and `Crash` happen at any time. `NewStream` takes some unused
stream; which one makes no difference.

An address is a host and a port. `Captured` is what the regular expression of
`utils.cpp` captures: all of an IPv4 address, nothing of another one. A client that
gRPC reports as `ipv6:[...]` is therefore dialled without a host
(`DialsTheUser` says so).

### Recorder, Player and VoicePath

The unit is the 16-bit sample; samples are numbered as they are recorded, so
what is in a ring, a packet or a stream tells which sample it is. `recBuff`,
`writePos`, `sendPos`, `packet` and `playBuff`, `readyToRead`, `readPos` are the
members. Positions run freely, as in the code, where they are 64 bits wide; the
difference of two positions is unsigned in the code, and `Available` says what
this comes to.

Nothing is locked, so each access is a step: storing a sample and advancing
(`StoreSample`, `AdvanceWrite`); testing, copying sample by sample and advancing
in `getDataFromBuff`, which reads `mBufSendPos` once for the test and once more for the
`memcpy` (`TestAvailable`, `ReadSendPos`, `CopySample`, `AdvanceSend`); copying a part
and advancing in `pushDataToBuff` (`StorePart`, `AdvanceReady`), which calls itself
for what is behind the ring's end. `+=` on a position that two calls share may
lose either update. `memcpy` does not wrap around; past the ring's end it reads
`Noise`. `mPacket` belongs to all writers: what it holds when the message is made
is sent (`SetAudioBytes`).

`VoicePath` adds the writing voice threads of one client (`talk`) and the reading
ones of the other (`listen`), the calls' streams, and the slots queued to the two
device threads (`recQueue`, `playQueue`). A device is created by the first `run`;
`stop` before that calls through a null pointer (`crashed`). When conversations
begin and end is left to the environment, which contains all that `PeerToPeer`
does. `overlapped` and `overrun` are history.

Odd numbers of bytes do not occur: packets are 16 bytes, and Qt asks for and
delivers whole samples.

### CommandArgs and Startup

A text of the command line is what the parser can tell of it: which option it
is, whether it is a host, and the number `strtol` reads (`ReadNumber`), which
`ToInt` truncates to the width of `int`. `argv[argc]` is `Null`: an odd number of
texts makes the parser take it for a value. An empty `QString` is not a host and
throws; `strtol` of it ends the process. `parsing` is `before`, `loop`, `done`,
`thrown` or `crashed`; `NextPair` advances `index` and `argc` by two.

`stage` is how far `main` is: the client makes the directory, the file appender, the
console appender and then parses; the server parses first. `Construct` starts the
listening thread (`listener`). `BuildAndStart` binds the port or, if the port is
taken or is none, may return null; which of the two happens to a port that is
taken depends on `SO_REUSEPORT`, so both are possible. `Wait` logs that it listens
and then waits, or ends the process on the null pointer. Nobody catches what
the parser throws (`Terminate`).

### RollingLog

`at` is where a thread is in its `LOG` statement, `mutex` who holds the file
appender's mutex. The roll is one action per call of the file system
(`UnlinkLast`, `RenameNext`, `OpenLogFile`), each of which may fail; `Kill` ends the
process between any two of them and only `disk` remains. `file` is the offset of
the descriptor: the file is not opened for appending, so a second client that was
started in the same directory writes at an offset of its own (`OtherOpens`,
`OtherWrites`).

A file is a sequence of *pieces*, a piece being a stretch of the bytes of one line.
`::write` takes the line piece by piece and may stop after any (`WritePiece`,
`EndWrite`): the line is then in the file as a whole, in part, or not at all. A second
process overwrites pieces, so it may tear a line. The byte order mark at the start
of a file is as long as a piece; a mark or what another process wrote is not a piece
of this one's lines (`LineAssumption`). `written` and `stuck` are history.

The two programs never roll (`maxFiles` is 0); plog's samples do, and the
class is meant to. Both are checked.

## 3. Runs

| Run | Instance | States | What it shows |
|---|---|---|---|
| `p2p_safety` | 1 incoming, 2 outgoing calls | 1,488,000 | the six safety invariants of the call engine; no deadlock |
| `p2p_timers` | 2 incoming calls that are not taken, or 2 outgoing | 76,000 | `RingingEnds`, `RemoteEndEndsIncoming`, `WaitingEnds` |
| `p2p_talk` | 1 incoming, 1 outgoing, overlapping, no timer runs | 40,000 | `DeadConversationEnds`, `HangUpEnds` |
| `p2p_cancel_loses` | 1 outgoing | - | violated: `CancelBeatsAnswer` |
| `p2p_lost_exit` | 1 outgoing | - | violated: `WaitingIsUndecided` |
| `p2p_unwatched` | 1 incoming | - | violated: `RingingIsWatched` |
| `directory` | 3 streams; names alice, bob and the empty one | 131,000 | names are exclusive, kept and given back; `ImplementsRegistry` |
| `directory_ghost` | the same | - | violated: `ListedUsersAreOnline` |
| `session` | 2 clients, one on IPv4 and one not; 2 streams; names alice and the empty one | 284,000 | no session is leaked, client and handler never both wait, the right host is dialled, the lists hold what the views read, the GUI comes back |
| `voice_path` | 2 calls, packets of 2, rings of 4 and 3 samples | 1,288,000 | devices on and off, packets inside the ring, what is heard is what was spoken |
| `startup` | 1 server, 2 clients, some 300 command lines | 338,000 | the command line means what it says, nobody logs too early, defaults meet, starts end |
| `rolling_log` | 2 threads, lines of 2 pieces; no roll, or 1, 2 or 3 files of 2 pieces | 444,000 | what was written last is kept, in order, once; no thread tears another's line; the size is true; `LOG` returns |

Bounds.

- `p2p_safety`: two calls of different kinds exercise every pair of threads that
  meet on a flag; the second outgoing call is what it takes to replace
  `mClientStream`. While two outgoing calls overlap, no timer has woken yet
  (`OverlapWithinTimeout`): timers only end races, and one outgoing call has them with
  everything else.
- `p2p_timers`: two incoming calls that overlap or follow one another are what it
  takes for a stale timer, an outdated number, a checker that ends another's ringing,
  and a counter that is reset; so are two outgoing calls in turn, where the timer of
  the first may wake at any moment of the second. A run has calls of one kind
  (`OneKind`): the two kinds have counters and signals of their own. The user
  leaves incoming calls alone (`LeftAlone`): declining one emits what a checker emits,
  and calls that are taken, with their voice threads, are in `p2p_talk`. While the user
  presses nothing, nothing depends on how far the screen lags, so it does not. A
  call of an overtaken timer rings on and the user is silent: there the run stops, so
  deadlock is not checked.
- `p2p_talk` has calls that overlap and no timer.
- `directory`: three streams let two users compete for a name while a third
  looks one of them up.
- `session`: two streams let one client sign in twice, or two clients meet. Calls
  come in at one client, one at a time, and one of them is missed (`MCClientSession`).
- `voice_path`: rings of two packets, and of a size that packets do not divide,
  wrap around within six samples (`MaxSamples`); both can be overrun. Once
  conversations have overlapped no order is promised, and two samples are
  enough for what still is (`MaxOverlapping`; the send position may by then be
  advanced twice for one test, hence its bound of two packets).
- `startup`: an `int` of 6 bits and ports up to 15, so that a small number can be a
  port, out of range, negative, or zero after truncation. At most two pairs and
  one text too many; one of the processes has arguments at all.
- `rolling_log`: a single file, which a roll removes; two, where the one rename
  moves the newest; three, of which a roll renames two and the first rename can fail where the
  second succeeds. Three lines of two pieces fill a file of two pieces and a header more
  than once. The other process writes beyond the end of the file (`MaxForeign`).

Every safety property of the passing runs but `LinesAreWhole` is also proved for all
instances (section 5). Streams, calls and processes are used up in `directory`,
`session`, `voice_path`, `startup` and `rolling_log`, which then stop, so deadlock
is not checked there.

### Fairness

In `PeerToPeer`, `Fairness` asks weak fairness of every thread: the GUI's event
loop, each call thread, helper, timer and voice thread. That is the operating
system's scheduler; the lambdas of an emission count for the emitting thread,
which runs them. `Read` and `Finish` may block for ever: they surely return only on the
call's own stream when that is dead (`Dead` in `HelperThread`, `VoiceThread` and
`CallThread`). A reader that is blocked in `Read` on a living, silent peer when the user
hangs up leaves its loop only after the writer has cancelled the stream, as in the code;
it tests the loop's condition only between two reads. Nothing is asked of the user, of
peers, or of callers. `TimersSpec` asks fairness of the call, helper and timer threads
only, as the end of a race needs no other. `TalkSpec` drops the timers, so it asks no
fairness of them.

In `Directory`, gRPC starts a handler for an opened stream and the handler's
thread runs; clients owe nothing. `ClientSession` adds that a GUI thread goes on
once what it waits for is there (`GuiGoesOn`); users, callers and the network owe
nothing. In `Startup` the main and the listening thread run, in `RollingLog` each
thread within its `LOG` statement; nobody has to log, to quit or to be killed.

## 4. What the code does not keep

- **A cancel can lose** (`p2p_cancel_loses`). The lambda tests and sets
  `outgoingState` without protection in the GUI, timer and reader threads. A
  cancel and an answer that pass the test together leave a cancelled stream and
  `success` set; the caller enters the conversation it cancelled.
- **An early answer is forgotten** (`p2p_lost_exit`). An answer or a failure
  between `connect` and `loop.exec()` decides the race, but its `loop.exit()` is
  lost; afterwards the guard of the lambda ignores everything, the timer and the
  cancel button included. The call waits for ever.
- **An early cancel of the caller is missed** (`p2p_unwatched`). The checker
  thread emits once, and the lambda drops it while the loop does not run. The
  phone rings on until the timer or the user ends it.
- **Ghosts on the list** (`directory_ghost`). Looking up a user who has just left
  ends the caller's own session without erasing its name, which stays listed and
  cannot be used again.

Shown by the qualifications in the properties rather than by a run of their own:
an incoming call that comes to its `setState(Online)` while an outgoing one is
still up opens the call button for a second outgoing call, which replaces the
stream under the first (`StreamIsOwn` and `HangUpReachesPeer` hold only until an
incoming call rang); every call that ends clears the busy flag of all; and the user
with the empty name can be erased by anybody's failed connection. A timer
that has passed its test resets the counter a moment later; a timer of another call
that counts in between finds its own number nowhere when it wakes
(`peertopeer.cpp:245-249`, `304-309`). Its call then rings or waits until the peer or the
user ends it. `RingingEnds`, `WaitingEnds` and `RemoteEndEndsIncoming` hold of the behaviours
in which this does not happen (`NeverOvertaken`). Likewise the timer of a finished call
that passes its test just before a new one counts ends the new call early.

The same holds of the other modules; each of these is behaviour of the model,
and a property says where its promise stops:

- *Voice.* Overlapping conversations share one packet, one recorder and one player.
  They mix their packets, lose updates of a position, and may push `sendPos`
  past `writePos`; the unsigned difference then lets every later test succeed
  (`SendBehindWrite`). The end of one turns the devices of the other off
  (`LoneCallHasDevices`). Samples left in the ring at the end of a conversation are
  sent first in the next one (`HeardInOrder` promises order across conversations, and
  completeness only in the first).
- *Ring size.* A packet never reaches past the ring because the ring is a multiple
  of the packet (`WholePackets`; 0x10000 and 16 bytes in the program). A test of the
  recorder uses a ring of 18 bytes (`Tests/RecorderTests.cpp`,
  `testBufferMaxWritingPos`), where `memcpy` does read past the end.
- *Start-up.* A server whose port is taken or out of range logs that it listens and
  then crashes. Ports are not checked; a missing value or an unknown option ends
  the process by an exception that nobody catches, or in `strtol`.
- *Log.* Two clients in one directory overwrite and tear each other's lines; what is
  left of a line is in order (`LinesInOrder`), and nothing more is promised then. With
  `maxFiles` 1 a roll removes the only file and every line in it
  (`RollingFileAppender.h:57-70`), so `NewestLinesAreKept` asks for the newest lines only
  of logs that never roll or keep two files. A write that stops early leaves a
  line without its end. A file that
  cannot be opened turns the log off without a trace. If a file cannot be removed or
  renamed, the next rename replaces it, and a roll loses lines in the middle
  (`stuck`), never the newest. A file is never rolled by the first write of a run.
- *Missed calls.* The list is emptied whenever the Online screen goes away, so a
  call that was missed during a conversation is there only from the call's end on,
  and is lost with the next call.

## 5. Proofs

Everything below is checked by tlapm for arbitrary constants, from the named
assumptions of the modules only: the two kinds of call are disjoint and finite,
special values are not calls, streams, hosts or files, the empty name is a name,
each client has a host of its own, sizes are positive, the recorder's ring is a
multiple of the packet, default ports are not 0, and a command line has at least
the program's name.

`PeerToPeerProofs`

- `TypeCorrect`: the type invariant, action by action.
- `CallScreenCorrect`: while the state is a call screen, some call's thread is
  between its first `setState` and the one that puts the state back. Inductive with
  `TypeOK`: the thread that leaves this range sets the state to `Online` in the
  same step.
- `BusyFlagCorrect`: a flag that is set has a call that has not yet cleared it.
  Inductive with `TypeOK`: a call stops holding the flag only in a step that
  clears it.
- `CancelFlagCorrect`: needs `VoiceThreadsJoined` (a voice thread is alive only
  under `pc = "voice"`, so a call past the join has both done); the flag is set by a
  voice thread that comes down and reset after both are joined.
- `StreamCorrect`, `HangUpCorrect`: `AloneCorrect` first. As long as no incoming
  call has rung, calls turned away as busy are over at once, and at most one
  outgoing call is past the button, because the screen leaves `Online` with
  the button and comes back only with that call's last step. So `mClientStream`
  is its own, and so is `mIsCanceledStream`. `HangUpCorrect` adds
  `CancelIsUnderWay`: once the flag is set, or a thread is past the cancel, the
  stream is closed or a thread is about to close it. A thread that skips the cancel
  because it finds the flag set therefore leaves it to a thread that does cancel.

`DirectoryProofs`

- `TypeCorrect`: `TypeOK`, which the run `session` checks within `SessionTypeOK`.
- `SessionKeepsItsNameCorrect` and `NoEntryLeftBehind` from `DirectoryInv`: a
  stream that has yet to authorize has the empty name, and an entry carries the
  name of its own session, which is served or was cancelled. The first part
  keeps a stream from being authorized twice; the second makes the erase at the
  end hit the session's own entry.
- `RegistryImplemented`: `Spec => Registry!Spec`. Each step is a grant, a
  release, a loss or a stutter of the registry; the inductive invariant supplies that
  at most one entry leads to a session.

`ClientSessionProofs`

- The lemma `DirectoryImplemented` is bookkeeping: client and server steps are
  `Directory`'s by composition, so `SessionSpec => Spec`, and what is proved of
  `Directory` may be used here.
- `SessionTypeCorrect`, `ViewStaysInListCorrect`: action by action; `ShownInv` ties
  the rows of the view to the page that is shown.
- `NoSessionIsLeakedCorrect`: `CurrentInv`, with `OwnerInv` (a stream is used by the
  client that opened it only, so one client's step leaves the others' streams).
- `AuthorizationMeansSignedOutCorrect`: `SignedInShown`. Call threads turn pages to a
  call screen or to Online, never to Authorization.
- `NoMutualWaitCorrect`: the safety half of `GuiComesBack`: a GUI thread that waits has
  the answer, a failure, or a message on its way to a handler that reads. `AnswerInv` adds
  that a client which is signed in and idle has its last answer (so that it can ask
  again or leave), and that a handler which gave one other than a refusal reads on;
  that the answer is of the kind waited for takes `QuestionInv`.
- `DialsTheUserCorrect`: `QuestionInv` (what a GUI thread reads answers its own
  question), `AddressInv` (an address in an answer is the stream that was
  authorized under the name asked for) and `CallsInv` (what was dialled stays true,
  because the name of such a stream is settled).

`VoicePathProofs`

- `TypeCorrect`: with `PlayType`, that nobody pushes more than a packet.
- `StopFindsDeviceCorrect`, `SilentAfterLastCallCorrect`, `LoneCallHasDevicesCorrect`:
  `DevicesFollow` says of a queue and a device together that a queued stop has a run
  before it, that whoever is in its loop has run the device, and what the last slot
  in the queue will make of it. `OneAtATime` is needed for lone calls.
- `PacketInsideRingCorrect`: `WholePositions`: every send position, and every one
  that a call has read, is a multiple of the packet, lost updates included.
- `SendBehindWriteCorrect`: `CopiesRecorded`: without overlaps, the position that was
  tested is the one copied from and still the send position.

`VoiceOrderProofs`

- `HeardInOrderCorrect`, for as long as no conversations overlapped and no ring was
  overrun. One call at most is between the rings (`OneIsBusy`), so packet, stream and
  loudspeaker hold consecutive stretches of what was recorded. The proof goes from the
  microphone to the loudspeaker: the recorder's ring holds at each position the sample
  of that number, and so does what is copied into the packet (`RecorderInv`); all that
  reached the player, played or still in its ring, is written down by position
  (`Sound`) and is increasing (`PlayerInv`, `OrderInv`); what is sent next is greater
  than all of it. Then the steps that hand nothing on leave `Sound` as it is, and the
  three that do (`SendPacket`, `Receive`, `AdvanceReady`) are looked at one by one.
  `CompleteInv` says of the first conversation that `Sound` is 0, 1, 2, ... without a
  gap, from which the last part of the property follows.

`StartupProofs`

- `ReadsWithinArgvCorrect`: `PlaceInv`: `index` and `argc` move together, so the
  parser stands at the first text of a pair or at the end.
- `SettingsCorrect`: `TakenInv`: the settings are those given before `index`. The
  step needs that a pair is the latest of its option so far.
- `LoggerIsReadyFirstCorrect`: `MainInv`: what main has behind it at each stage.
- `DefaultsMeetCorrect`: from `TakenInv` and `BoundInv` (a process listens at the port
  of its settings, and waits only if it does).
- `StartTypeCorrect`: the types.

`RollingLogProofs`

- `LogTypeCorrect` and `SizeIsTrueCorrect` from `LogInv`: the thread inside the
  appender holds the mutex (`HolderInv`); an open descriptor stands at the end of
  file 0, of which the other process writes only where no file is renamed
  (`FileInv`).

`LogOrderProofs`

- What an action does to the files is stated first, for any disk: a file that is
  removed or overwritten only loses pieces (`LosingKeepsOrder`), a renamed one moves
  to the next number (`RenamingKeepsOrder`), and a piece that is written is behind the
  others of file 0 (`WritingKeepsOrder`).
- `LinesInOrderCorrect`: `LineInv` (a thread's piece is written at most once, and its
  record shown at most once, so written pieces differ), `PlaceInv` (no piece of the
  process is behind its descriptor, also if another process writes the file) and
  `OrderInv`. It says of a torn line only that what is left of it is in order.
- `NewestLinesAreKeptCorrect`, while no other process writes: `EndInv`: file 0 is a
  header and the newest pieces. A file that is rolled is full (`RollInv`), so it alone
  holds as many pieces as must be kept, and if there is a second file a roll only moves
  it; a single file is removed, and nothing is claimed of it. `KeepInv` adds that
  nothing is missing in between. Its step for the oldest file needs `OrderInv`: what is
  removed is older than all that remains. Its step for a rename needs that the new name
  is free, which is so only if nothing failed before. That removals succeed is not
  enough: with four files a failed rename leaves a file in the way of the next one,
  which then replaces it. The run has three files at most, so this case is the
  proof's alone.

Model-checked only: `LinesAreWhole`, and liveness, which rests on fairness (`RingingEnds`, `WaitingEnds`,
`RemoteEndEndsIncoming`, `DeadConversationEnds`, `HangUpEnds`, `DepartedUserIsRemoved`,
`GuiComesBack`, `StartEnds`, `LogReturns`).

## 6. Not modelled

- The caller's and the callee's process are not composed: `PeerToPeer` is one
  client whose peers do anything. `VoicePath` joins two clients for the voice.
- Data races below the level of one access: a torn `std::map` of users, a row of
  missed calls that is read while `push_back` moves the entries, the stream pointer
  while it is replaced, references to a race that has returned.
- Names of callers, status texts, layout, the look of log lines.
- Threads that still log while the static logger is destroyed at the end of a
  process.
- The Windows and Android parts, other appenders, and the samples of plog: no
  program of the repository reaches them.
- `Tools/recorder` and `Tools/player`, earlier copies of the two rings that are
  built only into the tests. Their `stop` releases the device, so that a second
  one is a call through a null pointer (`StoppedAndReleased` in `VoicePath` is this).
- The tests, which were read for what they promise, and the build.

What would come next: two call engines joined by one stream, to relate what the
two users see, with the abstract specification that a call is answered on both
sides or on none.
