# Verification of the EDA run-control core (`src/eda/device.c`)

This directory holds TLA+ models of the C library in `src/eda/`, the TLC
configurations that model-check them, and TLAPS proofs about them.
`PROJECT.json` lists the components, runs, mutants, the map from every
definition to the lines it models, the findings, the hazards and the theorems.

## 1. The system

`device.c` drives one EDA readout board. A caller (the Go side of go-lpc/mim,
not in this repository) calls the API in this order:

1. `new_device`.
2. The configuration calls, in any order: `device_boot_rfm` once per module,
   `device_configure_dif` once per DIF network binding, and
   `device_configure` for the run settings and base tables.
3. `device_initialize`: mmap, FPGA reset and PLL lock, RFM lanes, Hardroc
   slow control, then one TCP socket per booted module.
4. `device_start`: open the run file, then either wait for the DCC
   reset-BCID command (dcc mode) or start acquisition (soft, "noise" mode).
5. `device_loop`, which runs until cancelled.
6. `device_stop`, then `device_free`.

Besides the control thread there are three actors:

- **The cancellation flag `g_state`.** It is set to 0 by `handle_sigint` or
  `device_stop_loop`, and it is polled by every wait.
- **The FPGA status registers.** These are readout started, ramfull, FIFO
  ready, PLL lock and the DCC command word. The loop busy-waits on them.
- **One downstream DIF peer per module.** It receives each cycle's segment of
  that module over the module's socket (8-byte header, "ACK", payload, "ACK").

### Inventory

| Component | Code | State | Operations | Model |
|---|---|---|---|---|
| Run controller | `new_device` … `device_free` | rshaper, trig_mode, rfm_on, cfg_mode, task[].dif/rshaper/addr/sck, mem_fd, daq_file | boot, configure_dif, configure, initialize (4 stages), start, stop, free | `EdaRunControl` |
| Readout loop | `device_loop_dcc`, `device_loop_noise` | cycle_id, the cycle buffer, task[].beg/end, task[].rc | wait for readout/ramfull, wait for FIFO ready, buffer each active module, ack, write file, send each active module, next cycle | `EdaReadout` |
| DIF streaming | `device_daq_send_dif` | the socket's byte streams, the consumer | header, ACK, payload, ACK | `EdaReadout` (one atomic step), `DifProtocol` (byte level, with the consumer from spec 4.3), `DifChannel` (what it promises) |
| Local run store | `device_init_run`, `DAQ_write_buffer`, `device_stop`, `device_free` | `daq_file` | open, append cycle, close | both modules |
| Cancellation | `g_state`, `handle_sigint`, `device_stop_loop` | `g_state` | clear | both modules |
| Hardware registers | `SYNC_*`, `DAQ_*`, `CNT_*` (not in `src/`) | status flags, buffer | polled, armed, reset | nondeterministic actors (spec-modelled) |
| Slow control / tables | `device_init_hrsc_*`, csv readers, `scp` | chip config | push, verify | success or failure only |
| Logging, `give_file_to_server` | | | | not modelled: no control effect; dead code |

### Hard behaviours

- **Cancellation at any point.** A cancel can arrive in the middle of a wait,
  between two modules of the buffering loop, or during start's reset-BCID wait.
- **The order of the caller's configuration calls.** `device_configure`
  overwrites `rshaper` and `rfm_on`. `device_boot_rfm` treats a stored shaper
  of 0 as unset.
- **Partial failure of a multi-step operation.** In socket setup, an error
  return leaves earlier side effects in place.
- **State carried across cycles.** A module's buffer window persists into the
  next cycle and is read even when the module was not re-buffered in that
  cycle.
- **Boundaries.** The cycle buffer's capacity, and the PLL retry budget of 100.

## 2. Modules

| Module | Models | Notes |
|---|---|---|
| `EdaReadout` | the readout loop, dcc and soft (`TrigMode`), from the state right after `device_start` returned 0 | core module |
| `MC_EdaReadout` | 2 slots, 1 byte per module and cycle, 3 cycles | TLC instance |
| `EdaReadout_proofs` | TLAPS proofs about `EdaReadout` | |
| `EdaRunControl` | the device life cycle; the loop is abstracted to "returns once `g_state` = 0" | |
| `MC_EdaRunControl` | 2 slots, DIF ids {1,2}, one address, shapers {0,3}, PLL budget 2 | TLC instance |
| `EdaRunControl_proofs` | TLAPS proofs about `EdaRunControl` | |
| `DifChannel` | the abstract DIF channel of one module: exchanges end with 0, -1 or 1; the consumer gets whole payloads once, in order; 0 means delivered | abstract spec |
| `DifProtocol` | `device_daq_send_dif` byte by byte against the consumer, with a fault model (resets, short recvs, signals, the 4th ACK byte) | refines `DifChannel` on a reliable link |
| `MC_DifProtocol` | 3 exchanges, payload sizes {0,1,2} | TLC instance |
| `DifProtocol_proofs` | TLAPS proofs about `DifProtocol` | |

### EdaReadout

**State.**
- `pc` is the control point inside `device_loop_*`.
- `idx` is the index of the two for-loops.
- `mem`/`fill` are the cycle buffer and its write pointer (`DAQ_reset_buffer`
  sets `fill` to 0).
- `win[s]` stands for `task[s].beg/end`, as offsets.
- `rc[s]` is `task[s].rc`.
- `hw` is the board status (idle, trig, ready).
- `armed` is soft-mode acquisition.
- `daq_file` is the byte sequence written to the run file.
- `streamed[s]` holds the payloads DIF *s* acknowledged, each with its cycle.
- `bufd` is a history variable: the slots buffered in this cycle.

**Data abstraction.** A byte is the tag `<<cycle, slot>>` of the module and
cycle that wrote it. `Junk` is a byte never written.

**Actions.** There is one action per control step of the loop:
- `LoopTop`, `WaitStart`, `CheckStart`, `WaitReady`, `CheckReady`;
- the buffering loop: `SkipInactive` and `DaqWriteDif`, with the
  `if (g_state == 0) break`;
- `FifoAck`, which is `SYNC_fifo_ack`, plus `DAQ_write_buffer` in dcc mode;
- the sending loop: `SkipInactive` and `DaqSendDif`;
- `CycleEnd`, which is `SYNC_start_acq` in soft mode and `cycle_id++`.

`DaqSendDif` is the whole of `device_daq_send_dif` as one step. It returns 0,
-1 or 1; on 0 the peer holds the bytes of the window as the buffer has them
now. The call may also never return (it blocks in `recv` with no timeout);
that is a step that is never taken, and the spec gives `DaqSendDif` no
fairness. `device_daq_write_dif` is not in `src/`. Its model writes 0..MaxSeg bytes
tagged with the module and cycle at the write pointer, and sets the window.

### EdaRunControl

**State.**
- `phase` is the caller's position in the life cycle.
- `err` is the error that ended it.
- The fields of `Device_t` that control depends on.
- `cnt_poll` and `sck_idx` are the loop counters of `init_fpga` and
  `init_scks`.
- `pll_seen` is a history variable: the last PLL-lock read.
- `bcid_reg` says the DCC command register holds RESET_BCID.

**Actions.** Each is one call, or one iteration of a call's loop:
- `BootRfm`, `ConfigureDif`, `Configure`;
- `InitMmap`, `InitFpga`, `PllPoll` (one test of the poll loop), `InitHrsc`,
  `InitSck` (one slot), `InitDone`;
- `DeviceStart` (`device_init_run` and the branch on trig mode);
- `WaitResetBcid`;
- `LoopReturn`, `DeviceStop`, `DeviceFree`.

**Undefined behaviour.** The two null dereferences, `inet_pton(NULL)` and
`fclose(NULL)`, lead to the terminal phase `"crashed"`.

**The caller.** It follows the spec's protocol. It may make any configuration
call at any time before initialize. It gives up and frees on any error
return, and calls stop after the loop returns, possibly twice.

### DifProtocol

**State.**
- `dpc` is the point of `device_daq_send_dif` (`idle` between calls;
  `killed` when SIGPIPE ends the process).
- `sizes` and `res` are history: the payload size of every call, and its
  return value with a flag saying a transport call failed.
- `xfail` is that flag for the running call (the ignored payload send).
- `tx` and `rx` are the bytes in flight in each direction; `conn` is `up`,
  `reset` (an error not yet seen by the device) or `closed`.
- `ppc`, `pn`, `accepted` are the consumer's state and what it took.

**Data abstraction.** A byte is tagged with its exchange: a header byte is
`<<"h", c, n>>`, a payload byte `<<"d", c, 0>>`. The 4th byte of an ACK is
`"nul"` or another value of `Fourth`.

**Actions.** The device's three steps are `SendHeader(n)` (one call
begins, lines 846-865), `RecvAck` (either `recv`, with the `strcmp` and
the branch on the size, lines 867-895) and `SendPayload` (879-884). The
consumer, which is not in this repository, is modelled from spec 4.3:
`PeerHeader` reads 8 bytes and acks, or resets on a bad header;
`PeerPayload` reads `pn` bytes and acks. `ConnReset` is the network.

**Fault model.** The constants switch each fault on: `Fourth` (a non-NUL
4th ACK byte, which spec 4.3 allows), `ShortReads` (a TCP `recv` returns
fewer than 4 bytes), `Signals` (SIGINT cuts a `send` short; the handler is
installed with `signal()`, so SA_RESTART, and a send that moved bytes
returns the partial count) and `Resets`. After a reset the first send fails
with ECONNRESET and the next one raises SIGPIPE. The code passes no
`MSG_NOSIGNAL` and sets no disposition for SIGPIPE; only SIGINT has a
handler. So the outcome belongs to the host process, and the constant
`SigpipeIgnored` chooses it (`SendOnClosed`). When it is ignored, `send`
returns -1 and so does the call. Under the default action the process dies
(`dpc = "killed"`).

**Refinement.** `Chan == INSTANCE DifChannel` maps `got` to the exchange
ids of `accepted` and `res` to the return codes. On a reliable link the
detailed spec implements `DifChannel!ASpec` (property `DifChannelSpec`).

## 3. Runs

All runs use `CHECK_DEADLOCK FALSE`, because the systems really stop:
- the loop returns after cancellation (`pc = "done"`), and `MaxCycle` bounds
  the cycles;
- the life cycle ends in `freed` or `crashed`.

### Passing runs

| Run | Properties | Shows |
|---|---|---|
| `readout_dcc` | TypeOK, FileInCycleOrder, OwnDataStreamed, StreamedPersisted, CancelStopsLoop, CompleteUnlessCancelled | the file holds only active modules' bytes in cycle/slot order; a module buffered this cycle is streamed exactly its own bytes; every streamed byte is in the file; a cancellation ends the loop provided every DIF exchange returns; the buffering loop ends with an active module unbuffered only once cancelled (the precise form of the partial-cycle divergence of `readout_partial`) |
| `readout_soft` | TypeOK, NoWaitOnIdleBoard, CancelStopsLoop | the soft loop re-arms acquisition before each wait for ramfull, and ends after a cancellation provided every DIF exchange returns |
| `life` | TypeOK, RunStartsInitialized | across all configuration sequences and stage failures, a started run has the bus mapped, every booted module connected and (dcc) a reset-BCID |
| `dif` | TypeOK, DifChannelSpec | on a reliable link the byte-level exchange implements the abstract channel, liveness included: every call returns |
| `dif_reset` | StreamIntegrity | with resets at any point (and a host that ignores SIGPIPE, so the device goes on calling), the consumer takes only whole payloads of the device, once each and in order |

### Violation runs

Each of these is a disagreement between the code and the spec; see "findings"
in `PROJECT.json`.

| Run | Property | Counterexample |
|---|---|---|
| `readout_partial` | WrittenCycleComplete | cancel between two modules: the partial cycle is acked and written |
| `readout_stale` | StreamedFresh | after that cancel, a module not buffered is streamed with its window from the previous cycle |
| `life_pll` | PllFailureMeansUnlocked | lock seen at the 101st test is reported as ClockNotLocked |
| `life_stop` | StopIdempotent | stop, then stop, gives `fclose(NULL)` |
| `dif_fourth` | StreamIntegrity | the consumer acks a 1-byte call's header with `"ACKx"`: `strcmp` fails, the call returns 1 without sending the payload, and the consumer takes the first byte of the next call's header as that payload |
| `dif_short` | StreamIntegrity | the header ACK arrives in two `recv`s: the call returns 1 and the consumer takes the next header as payload |
| `dif_sigpipe` | SurvivesReset | with `SigpipeIgnored = FALSE` (a host that keeps SIGPIPE's default action), the call after a reported reset raises SIGPIPE and the daemon dies. A host that ignores SIGPIPE gets the -1 that spec 4.3 asks for, so this finding holds only for such hosts |

### Further divergences (stated, not among the runs)

The modules state these properties too, and TLC finds each violated when it
is put as the INVARIANT (or PROPERTY) of the named module's cfg with the
constants shown. They are not among the listed runs, which keep one
counterexample per hazard judged most severe; `PROJECT.json` lists them as
hazards with a note.

| Property | Constants | Counterexample |
|---|---|---|
| StreamedPersisted | `MC_EdaReadout`, TrigMode = 1 | the soft loop never writes the run file |
| ShaperConsistent | `MC_EdaRunControl` | `boot(rs=0)`, then `boot(rs=3)`, both succeed |
| NoPartialInit | `MC_EdaRunControl` | the second connect fails, and the first socket stays open |
| ConnectOnlyBound | `MC_EdaRunControl` | a booted slot without `configure_dif` (csv mode) gives `inet_pton(NULL)` |
| ActiveSlotsConnected | `MC_EdaRunControl` | `configure(rfm = {0,1})` with only slot 0 booted: the loop runs with an active slot that has no socket |
| InitializedWithSource | `MC_EdaRunControl` | `boot(trig = 2)`: initialize succeeds with no command source selected; only start fails, after opening the run file |
| ExchangeEnds | `MC_DifProtocol`, Signals TRUE | SIGINT cuts the header send short: device in `recv`, consumer waiting for the rest of the header, forever |
| ErrorClassified | `MC_DifProtocol`, Resets TRUE | a reset during the ACK wait is returned as 1 (protocol), not -1 (transport) |

### Bounds

- **Readout.** Two slots are enough for "another module's bytes", and for a
  cancel between modules. One byte per module distinguishes windows, and
  zero-length segments are also chosen. Three cycles let a stale window from
  cycle *n* be read in cycle *n+1* after a cycle in between.
- **Run control.** Two slots give one failure after one success in
  `init_scks`. Shaper 0 is the value the code treats as unset. A PLL budget of
  2 shows the off-by-one as well as 100 would. The trig argument ranges over
  {0, 1, 2}: 2 stands for every other `uint32_t`, which the code treats alike.
- **DIF.** Three exchanges let a fault in one corrupt the next and a third
  run after a reset. Sizes {0, 1, 2} give the no-payload branch, and payloads
  shorter and longer than an ACK, so header bytes can be misread as payload.

### Fairness

- **Readout.** `WF_vars(LoopSteps)`: every step of the loop but
  `DaqSendDif`. The control thread is never descheduled forever, each busy
  wait re-tests its condition, and the rest does not block.
  `device_daq_send_dif` gets no fairness. It blocks in `send` and `recv`
  with no timeout, and SIGINT, installed with `signal()`, restarts them, so
  a call need not return. `DifProtocol` shows this: with signals, TLC finds
  `ExchangeEnds` violated. `CancelStopsLoop` therefore states what
  cancellation guarantees under an explicit hypothesis, `ExchangesReturn ==
  WF_vars(DaqSendDif)`. Without the hypothesis, TLC finds the loop stuck in
  a send.
- **Run control.** None. Only safety is checked there. The loop's progress
  is `EdaReadout`'s. The BCID wait ends on its own exit condition, and a
  liveness property of it would only restate that guard.

- **DIF.** `WF_vars(Device)` and `WF_vars(Peer)`: both sides block in
  `recv`/`send` and return once the bytes are there. Resets and signals are
  not fair; starting the next call (`SendHeader`) is the loop's choice.

The caller's choice of the next call, the cancellation, the DCC and the
board are not fair: a board that never raises its flags hangs the loop until
it is cancelled, as spec §6 says.

### Mutants

Every property of a passing run is broken by a plausible bug in the
definition it is about. Each mutant is defined just before its target in the
module:

| Mutant | Bug | Breaks |
|---|---|---|
| `LoopTopNoReset` | no buffer reset | TypeOK |
| `CycleEndNoIncrement` | `cycle_id++` dropped | FileInCycleOrder |
| `DaqWriteDifKeepBeg` | `task.beg` not updated | OwnDataStreamed |
| `FifoAckNoWrite` | `DAQ_write_buffer` dropped in dcc mode | StreamedPersisted |
| `WaitStartNoCancel` | the wait ignores `g_state` | CancelStopsLoop |
| `SkipInactiveNoTest` | the for-loop skips a slot without testing its `rfm_on` bit | CompleteUnlessCancelled |
| `CycleEndNoRearm` | `SYNC_start_acq` dropped | NoWaitOnIdleBoard |
| `PllPollNoBound` | `cnt_poll < 100` dropped from the loop test | TypeOK |
| `InitSckIgnoreConnect` | a failed `connect` does not return | RunStartsInitialized |
| `SendPayloadShort` | the payload is sent one byte short | DifChannelSpec |
| `RecvAckSkipPayload` | a good header ACK returns 0 without the payload | StreamIntegrity |
| `SendHeaderLenPlusOne` | the header's length field is `end - beg + 1` | TypeOK (dif) |

## 4. Proofs

`EdaReadout_proofs` proves `TypeCorrect == Spec => []TypeOK` for every
number of slots, segment size and cycle bound. It uses `ReadoutAssumption`.

TypeOK alone is not inductive, because `fill' = fill + len` must stay within
the buffer. The strengthening `FillBound` states three facts:
- `fill = 0` while the loop waits;
- `fill <= MaxSeg * idx` during buffering;
- `cycle_id < MaxCycle` inside a cycle.

`IInv == TypeOK /\ FillBound` is proved initial and preserved by each action.
There is one lemma per action that needs arithmetic: `WriteDifIInv`,
`SendDifIInv` and `FifoAckIInv`. They rest on `MulMonotonic`, `BytesType` and
`FilledType`.

`EdaRunControl_proofs` proves
`StartsInitialized == Spec => [](TypeOK /\ RunStartsInitialized)` for every
value of the constants allowed by `RunControlAssumption`.

RunStartsInitialized is not inductive. A step of `device_init_scks` must know
that the slots already passed are connected. The strengthening `Established`
records what each stage of `device_initialize` has set up by the time the
caller is past it:
- `mem_fd` from `init_fpga` on;
- the slots below `sck_idx` connected while in `init_scks`;
- every booted slot connected from `initialized` on;
- in dcc mode, `bcid_reg` from `looping` on.

The proof rests on one more fact: `task[].dif` and `trig_mode` change only in
`created`. There is one lemma per group of actions: the configuration calls,
the socket loop, and the other stages.

`DifProtocol_proofs` proves two theorems for every `MaxX` and `Sizes`
allowed by `DifAssumption`:
- `DifTypeCorrect == Spec => []TypeOK`, under every fault. The strengthening
  `Shape` says the device is idle exactly when every call has a result
  (otherwise `Return` could append a second result to one call).
- `DifRefinement`: assuming `Reliable` (recv returns all that is waiting,
  ACKs end in NUL, no resets; a signal may still cut a send short),
  `Spec => Chan!AInit /\
  [][Chan!ANext]_Chan!avars`, the safety part of `DifChannelSpec`. Its
  invariant `RInv` adds `Channel` (what `tx`, `rx`, `ppc` and `pn` hold at
  each `dpc`: on a reliable link at most one message is in flight, whole
  or, when a signal cut its send short, a non-empty prefix of it; the
  consumer then waits on the rest, which never comes, and lemma
  `FullPrefix` shows that a prefix it does take in full is the message) and `Delivery` (every accepted payload is whole, the ids
  increase, and while a call runs every accepted id is below the current
  one). Without `Channel`, `PeerPayload` could take bytes that are not one
  payload; without `Delivery`, `ADeliver`'s order guard could not be shown.
  Each device and consumer step is shown to map to an abstract step
  (`SendHeader` to `AStart`, a data ACK to `AFinish(0)`, `PeerPayload` to
  `ADeliver`) or a stutter; `ConnReset` is impossible on a reliable link.

`EdaReadout_proofs` goes on to prove five properties of the readout loop
that the runs check. Each needs its own strengthening, which was first
checked by TLC as an invariant of the `readout_dcc` and `readout_soft`
instances:
- `SoftLoopArmed == Spec => []NoWaitOnIdleBoard`, with `ArmedOrTriggered`:
  the invariant must also hold at `top`, where `CycleEnd` has just issued
  `SYNC_start_acq` and `LoopTop` is about to enter the wait.
- `OwnDataCorrect == Spec => []OwnDataStreamed`, with `WindowsOwn`. It says
  three things. Nothing is buffered while the loop waits. While buffering,
  the buffered slots lie below `idx`. While buffering or sending, each
  buffered slot's window lies below `fill` and holds its own tag. This is
  needed because `DaqWriteDif` for another module writes at and above `fill`
  only, so it leaves every earlier window intact.
- `FileOrdered == Spec => []FileInCycleOrder`, with `FileOrder`. The file
  holds earlier cycles only, except between `DAQ_write_buffer` and
  `cycle_id++`. While buffering, the filled part of the buffer holds this
  cycle's bytes of active modules below `idx`, in nondecreasing slot order.
  Without the buffer half, the append in `FifoAck` could not be shown to
  keep the order. It rests on `ActiveTag`.
- `PersistedBeforeStreamed`, `ASSUME TrigMode = 0 PROVE Spec =>
  []StreamedPersisted`, with `Persist`. Window bytes are never `Junk`. Every
  written byte not above the write pointer of the running buffering loop is
  in the file: `FifoAck` appends the whole filled part, and `LoopTop`'s
  reset only moves the pointer. It rests on `InFileConcat` and
  `TagNotJunk`. The hypothesis is needed: the soft loop has no
  `DAQ_write_buffer`, and TLC finds StreamedPersisted violated there (see
  the divergences above).
- `CycleCompleteUnlessCancelled == Spec => CompleteUnlessCancelled`, the
  action property, with `BufdTrack`: while the for-loop runs uncancelled,
  the buffered slots are exactly the active ones below `idx`. So at
  `SYNC_fifo_ack` (`idx = NbRfm`) either all active slots are buffered or
  `g_state = 0` (lemma `LeaveBufferComplete`).

`EdaRunControl_proofs` also states `RunControlTypeCorrect == Spec =>
[]TypeOK`, which follows from `StartsInitialized`.

`DifProtocol_proofs` proves a third theorem, `IntegrityUnderResets`:
assuming `Faithful` (the link may reset and a signal may cut a send short,
but recv returns all that is waiting and ACKs end in NUL), `Spec => []StreamIntegrity`. `Reliable` is
`Faithful /\ ~Resets`, and the refinement lemmas of each step need only
`Faithful`. The invariant is `XInv`, which has four parts:
- `IInv`;
- `Framed`, the part of `Delivery` that survives a reset;
- `Severed`: once `conn` has left `up`, nothing is in flight;
- while `conn = "up"`, `Channel` and `Delivery` hold.

A reset (`ResetStep`) empties both directions. After it the consumer's
steps are disabled, and the device can only return or raise SIGPIPE
(`DownStep`). The theorems hold whether or not the host ignores SIGPIPE. While the connection is up, every other step is a step of the
reliable link (`UpStep`, reusing the refinement lemmas). Both parts of the
hypothesis are needed. With short reads, `dif_short` violates
StreamIntegrity. With a non-NUL fourth ACK byte, `dif_fourth` violates it. Signals need no hypothesis: a cut send leaves a prefix
(lemma `PartSend`), and the consumer frames a header or payload only once
all of it has arrived.

### Only model-checked

Every safety invariant and action property of the passing runs is now
also a theorem. What stays with TLC:
- liveness: `CancelStopsLoop` (conditional on every exchange returning) and the fairness part of
  `DifChannelSpec` (every exchange ends). TLAPS does not reason about
  fairness or ENABLED.
- any statement about what a recursive definition computes for every input.

## 5. Plan (remaining)

1. **`EdaDevice`.** Composes `EdaRunControl` with `EdaReadout`, replacing
   `LoopReturn` by the loop, and `DaqSendDif` by an instance of
   `DifChannel` per module.
2. **An abstract cycle-level specification.** Each cycle is either written
   whole or not at all. The readout loop would be checked against it,
   expecting the partial-cycle divergence.
3. **Theorems.** `ErrorClassified` for the reliable link; a refinement
   theorem for the cycle-level specification of item 2.
