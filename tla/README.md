# TLA+ verification of the eCTF 2026 HSM firmware

The repository is the firmware of a hardware security module (HSM) on an
MSPM0L2228: it stores up to `NUM_SLOTS` encrypted files in flash, serves a host
over one UART, and exchanges files with a second HSM over another. This
directory models its core, checks the models with TLC and proves the most
important results with TLAPS. Source paths below are relative to
`src/firmware/`, unless they begin with `docs/`.

Sections: [Inventory](#inventory), [Modules](#modules-and-the-code),
[Runs](#runs-bounds-and-what-they-show), [Fairness](#fairness),
[Proofs](#proofs), [Findings](#findings), [Assumptions](#assumptions),
[Not modelled](#not-modelled), [Plan](#plan).

## Inventory

| component | state | operations | talks to |
|---|---|---|---|
| asynchronous upload, `src/async_uart.c` | `async_uart_ctx` (total, transfered, `stop`, `stopped`, `transfer_complete`), `transfers[]`, DMA channel 1 | `async_uart_receive`, `DMA_IRQHandler` | host UART by DMA; its caller by shared flags |
| write, `src/message/write.c` | file buffer on the stack, the addressed slot | `message_write_response` | upload, flash store, host |
| flash store, `src/file.c`, `include/file.h` | `SLOTS[]`, `FILE_ADDRESS_TABLE` in flash | sector erase, 64-bit program, `file_read_fat`, `file_write_fat` | write, receive; read by list, read, listen |
| read, `src/message/read.c` | `buffers[2]`, DMA channel 2, AES engine | `message_read_response` | host UART by DMA |
| list, `src/message/list.c` | none | `message_list_response` | host |
| receive, `src/message/receive.c` | file entry in RAM, slot | `message_recieve` | host, listening HSM, flash store |
| listen, `src/message/listen.c` | copy of the slot made by DMA channel 0 | `message_listen` | host, receiving or interrogating HSM |
| interrogate, `src/message/interrogate.c` | group list | `message_interrogate` | host, listening HSM |
| headers and buffers, `src/message/header.c`, `src/utils.c` | none | request, response, ACK, error, `utils_send_buffer` | every command |
| main loop, `src/main.c` | watchdog, interrupt enables | poll, dispatch, UART error and fault handlers | every command |
| PIN, `src/pin_utils.c` | stage-2 key and hash, new at each boot | `init_pin`, `validate_pin` | every command |
| provisioning, `generate_secrets.py`, `src/secrets.c.j2`, `../ectf26_design/src/gen_secrets.py` | secrets file; group keys and permissions of an HSM, fixed when it is built | `gen_secrets`, the build of an HSM | every command |

There are no threads. Concurrency comes from the DMA controller and its
completion interrupt, which runs while the CPU is hashing, erasing or polling; from
the host, which sends while it is allowed to and waits for ACKs; from the second
HSM, which runs the same firmware; and from resets (watchdog after 4 s in one
command, fault handlers, power loss), which keep the flash and lose all else.

What is hard here, and what makes each component correct:

* **Upload.** The channel is started *before* the announced length is checked,
  the buffer is on the caller's stack, `stop` can be raised at any instant, and the
  handler's ACKs go out on the UART the caller replies on. Correct: DMA never
  runs past the buffer (`BufferBound`); `transfer_complete` means filled
  (`CompleteMeansFilled`); after `stopped` neither channel nor interrupt runs
  again (`StoppedMeansHalted`); no byte waits for a channel that is off
  (`NoOverrun`); ACKs are neither early nor missing (`KeepsTransferContract`); every upload ends (`UploadStops`).
* **Write.** Checks run during the upload. Correct: a failing check leaves the
  slot alone (`RejectionKeepsSlot`), success means the whole file is in flash
  (`SuccessMeansStored`), replies are never mixed with ACKs (`ReplyIsExclusive`),
  the command returns (`WriteReturns`).
* **Flash.** An operation is some thirteen kinds of flash commands in a row, each of
  which may be the last before a reset. Correct: readers see a whole file or none
  (`ImplementsFileStore`), no slot combines two files (`NoMix`), a stored file stays
  (`SuccessIsDurable`), queries and FAT agree unless a command was cut off
  (`QueriesAgree`), and a write that is cut off leaves no wrong FAT entry
  (`WritesNeverMisname`; a receive that is cut off may, and `FatNeverMisnames` fails).
* **Read.** One buffer is decrypted into while DMA drains the other, and the GCM
  tag is known last. Correct: no race (`NoBufferRace`), the right bytes in order
  and no padding (`DeliveredInOrder`), the last chunk only after the tag
  (`TagGuardsLastChunk`), both sides count the same ACKs (`NoStrayAck`), every
  read returns (`ReadReturns`), except one whose tag fails in mid body: its error
  and the body run into each other, and both sides wait (`CorruptedReadsHang`).
* **HSM link** (receive, interrogate, listen). Handshakes whose headers and ACKs
  are not checked, error paths that tell only one side, resets of one side, stale
  bytes in the other's FIFO of four. Correct: only a whole file of one listen is
  ever stored, and once (`KeepsFileTransfer`); undisturbed, both sides report what
  happened (`CleanDialogue`), take turns that fit the FIFO (`FifoSuffices`), leave
  no byte behind (`NothingLeftBehind`), never wait for each other (`NeverStuck`) and
  return (`DialogueEnds`); and trouble is
  over after a reset (`TroubleIsOver`, which fails).
* **Host line** (list, receive, interrogate, listen, errors, main loop). HSM and host
  each count the ACKs of a body by themselves, by rules that look at different
  numbers; reads have no timeout; a wrong PIN spends 3.5 of the watchdog's 4
  seconds; UART errors interrupt anything. Correct: a good host and the HSM stay in
  step (`InStep`), the watchdog strikes only if host or peer are late
  (`PromptInTime`), and whatever came over the line, the HSM gets back to polling for
  a command (`Recovers`).
* **Deployment** (PIN, provisioning, permissions). Interrogate, listen and receive each
  decide by other data on another device, a file outlives its writer's
  permissions, and the stored PIN hash is replaced at each boot. Correct: what
  an HSM may read it can read (`ReadsBack`), and interrogate shows what receive can
  fetch (`OfferedIsReceivable`).

`PROJECT.json` lists every hazard at its line, with the properties that cover it
or a note on why none does yet.

## Modules and the code

```
ChunkedTransfer  <--implements--  AsyncUart  <--extends, implements--  WriteCommand
                                     |                                      |
                                AsyncUartProofs   <-----extends-----   WriteCommandProofs
FileStore        <--implements--  FlashStore
                                     |
                                FlashStoreProofs
FileTransfer     <--implements--  HsmLink
ReadStream         HsmLink         HostLink         Deployment
   |                  |               |                 |
ReadStreamProofs   HsmLinkProofs   HostLinkProofs   DeploymentProofs
                      |
                   HsmTurnsProofs
MCAsyncUart, MCWriteCommand, MCFlashStore, MCReadStream, MCHsmLink, MCHostLink,
MCDeployment: instances for TLC
```

**`ChunkedTransfer`**: the contract of `include/async_uart.h` without DMA or
interrupts. A file is acknowledged chunk by chunk, the first chunk shortened by
the command header; the transfer ends complete or halted at a chunk boundary.

**`AsyncUart`**: `async_uart.c`. `ctx` is `async_uart_ctx`; `dma` is the channel
(enabled, bytes left, interrupt enabled and pending, UART event enabled); `isr`
is where `DMA_IRQHandler` stands; `filled` counts bytes stored in the buffer;
`host`, `rxFifo` and `acks` are the other end and the line. The handler is split
exactly where hardware or host can react: re-arming (`IsrRearm`, lines 88-99)
and its ACK (`IsrAck`, 100) are two steps, and so are the final ACK (81) and the
silencing of the channel (82-87). `DmaMove` is one byte. `Client` is the most
general caller: it starts uploads of any length, raises `stop` at any time (at once
if the file is too long) and lets go of the buffer once `stopped`.

**`WriteCommand`**: `message_write_response` as *the* client. `pc` names the
point between two of its waits or long computations; each action is the
straight-line code up to the next one: `BeginWrite` (43-90), `VerifyPin`
(92-104), `CheckTarget` (106-123), `EraseSlot` (125-145), `ProgramSlot`
(147-269), `ReportError`, `FinishWrite`. `slot` says what the addressed slot
holds. `UsesAsyncUart` states that its steps are steps of `AsyncUart`, so what
holds of the upload holds in the command.

**`FileStore`**: what readers of flash are promised: a slot reads as a whole file or
as nothing; a replacement takes the old file away and later shows the new one
at once; other slots never change.

**`FlashStore`**: a slot is six fields in address order, each decided by
words that are programmed consecutively; the FAT entry is the two words of its
uuid. `WritePlan` (erase, FAT, data, metadata) and `ReceivePlan` (FAT, erase,
whole image in address order) are the flash commands of `write.c:125-263` and
`receive.c:157-178`; `FlashStep` issues one and `FlashReset` may come between
any two. `Burn` is what programming does to a field: blank takes the value,
and a field programmed twice would be `Mixed`. `Listed`, `Offered`, `Sendable` and
`ReadResult` are what `list.c`, `listen.c` and `read.c` look at. The history variable
`cutOff` remembers which commands a reset has cut off, here or at a peer: promises
about the FAT depend on it.

**`ReadStream`**: `read.c` from the response header on. `bufs` records which
plaintext offset each buffer holds and how much of it is decrypted, `aes` which one
the CPU fills, `tx` the DMA channel; `TxMove` sends one byte and records in
`sound` whether it was the right one. The checks before (PIN, slot, group, size,
signature) are one choice, `admitted`. `ReportError`, `SendErrorText` and `FinishError` are
`message_header_send_error` with its two ACKs (`header.c:38-48`), for a refused request and for a tag
that fails. The host owes an ACK as `utils_send_buffer` counts, of a body it knows the length of:
what comes in the middle of one is body to it (`DueForError`).

**`FileTransfer`**: what two HSMs promise of the files they exchange: a receive command stores at
most one file, which one listen command gave away; a listen command gives away at most
one, of a slot both sides may let go; nothing is promised to arrive.

**`HsmLink`**: `receive.c` and `interrogate.c` (the asker) against `listen.c`, from
the first header on the HSM UART to the last ACK. `line[d]` holds the bytes sent to
`d` and not yet read; a byte has a value, or belongs to a ciphertext (`of`: which
listen made it, for which slot) and may have any. `Parses` is
`message_header_request`: one byte is consumed if it is not the magic byte, four
otherwise. `receive_ack` takes whatever that is; a failed parse leaves
receive with its own request (`receive.c:65`) and interrogate and listen with an
operation never initialised (`interrogate.c:96`, `listen.c:32`), which may be
any. An action reads what one wait reads, computes, and sends what is
sent before the next wait. A device that computes or is between commands is
`Deaf`: `Overrun` drops the fifth byte. A reset clears the FIFO of one
device; what is still on the wire arrives later. Every ask may be of any
slot that passes `receive.c:48`; the sets `Held`, `Known` and `Permitted` decide
how it fares. What each side does to flash is `FlashStore`. Seen as `FileTransfer`, a receive
command begins when it asks, and a file is delivered when the image is verified
(`receive.c:136-178`): the listen and the slot are those of its first byte.

**`HostLink`**: one HSM and its host, byte by byte towards the HSM. `hsm.pc` is the
wait or computation the program is at: `ReadMagic`, `ReadHeader` and `Dispatch`
are `message_header_request` and the switch of `main.c`; `ReadPin` and `VerifyPin`
the first half of list, receive and interrogate; `PeerDone` stands for the dialogue
that `HsmLink` details; `SendCount`, `SendRun` and `EndBody` are the reply, with
`utils_send_buffer` by its two rules (`AtChunk` by offset and length, `FinalAck` by
length alone); `Report` is `message_header_send_error`. `Interrupt` is any of the UART
error, NMI and HardFault handlers: delay, report, and a reset. `now` counts quarter-second
ticks since the main loop restarted the watchdog; hashing takes
one (`generate_secrets.py:20-23`), a PIN delay 14, the period is 16. `Tick` is time spent
polling in vain. The host sends headers, PINs right, wrong and malformed, and the ACKs it
owes (`Owed`); it may give up, start again, or send junk; noise damages bytes.

**`Deployment`**: each command in one step, on several HSMs. `GenSecrets` is `gen_secrets.py`,
`Provision` the build with `generate_secrets.py` and `secrets.c.j2`, `Boot` is
`init_pin`. `image[h]` is what `h` was built with, `ram[h]` its hashed PIN. A
permission is the presence of a private key. `WriteFile` and `ReceiveFile` change
slots; `ReadResult`, `Offered` and `Receivable` are what read, interrogate with listen,
and receive with listen answer. Keys are names; X25519, hashes, tags and signatures
are ideal.

Operators marked *Fault* (`IsrRearm_notArmed`, `WritePlan_fatFirst`, ...) are
wrong variants of the definition they precede. No specification uses them: put
in its place, each breaks the property `PROJECT.json` pairs it with, which shows
that the property would notice that mistake in the code.

## Runs, bounds and what they show

Run one with `tlc -workers 2 -config X.cfg M` (module in `PROJECT.json`).

| run | bounds | shows |
|---|---|---|
| `AsyncUart` | chunk 4, header 1, buffer 12, lengths 0..16 | the upload's safety properties, the inductive invariant of the proofs, refinement of `ChunkedTransfer`, `UploadStops` |
| `WriteCommand` | same sizes, nine lengths, every combination of check results, resets | the command's safety properties, refinement of `AsyncUart`, `WriteReturns` |
| `FlashStore` | one slot and the number past it, two files, whole and torn peer images, resets | `FileStore` refinement, no mixing, durability, closure under exchange between peers, and that the peers' images satisfy the hypothesis of `PeersHoldTheSame`; list, interrogate, read and FAT agree as long as nothing was cut off; after writes alone the FAT is never wrong, only blank |
| `ReadStream` | chunk 8, name 2, block 2, lengths 0..23, good and bad tags, resets | buffers, order, tag, ACK counts, `ReadReturns`; an error header of 2 bytes, so that it may or may not fill the body, and a text of 3 |
| `HsmLink` | four commands and resets in any mixture, four slots (sendable, without permission, of unknown group, implausible), FIFO 4, payloads of 5 bytes | refinement of `FileTransfer`, agreement, FIFO, no leftovers, no mutual waiting, `DialogueEnds` |
| `HostLink` | the firmware's sizes (chunk 256, 8 slots, entries of 35 bytes), PIN of 2, FIFO 4, a period of 16 ticks, two events (commands, junk bytes, disturbances) and any number of silences | `InStep`, `PromptInTime`, `Recovers` |
| `Deployment` | two HSMs, two groups, two secrets files, four permission strings, two PINs of two digits, two boots, one slot each, a full and an empty content; symmetric in HSMs and groups | `ReadsBack`, `OfferedIsReceivable` |
| `WriteHang`, `FlashListTorn`, `FlashFatStale`, `FlashSlotBound`, `HsmRecovery` | as the above | [findings](#findings) |

*Why the bounds are enough.* The code treats a length only through comparisons
with the chunk, the buffer and multiples of the block. The instances contain lengths on, one
below and one above every such boundary, and transfers of no, one, two, three and four
chunks, in particular a first, a middle and a last chunk, full and partial.
A flash command touches one slot and the FAT, so two slot numbers, one
addressed and one not, cover every pair; in `FlashStore` they are the one slot of the array and
the number past it, which the code accepts too. Two files that differ in the sectors
they occupy (all, or metadata only) suffice to see a mixture, an old file and a new
one. An empty file and one that spans sectors are the extremes of `DataOf`. Only one
command runs at a time, and the state between commands is explored without bound.

In `HsmLink` two dialogues with two listens, or one reset and three commands, are
what four events allow: enough for the leftovers of one dialogue to meet the next. A
payload is one byte longer than the FIFO, a header exactly as long. The values
a ciphertext byte may take are the ones the code tells apart: a slot
number, the magic byte, an operation. With five events TLC found no
violation in 20 million states, but did not finish.

In `HostLink` the lists have every length the firmware can send, so the
chunk boundary falls inside the list of eight entries as it does in the code; errors have one
length for all (12 bytes), as all of the firmware's are shorter than a chunk. Two events
are a command after a disturbance, junk before a command, or two commands. Silences
are free: host and peer may be late by one tick, which decides whether a history
is prompt, or until the watchdog has run out. In `Deployment` two HSMs pass a file
back and forth; the permission strings contain writer, reader, carrier and an HSM with
all of it. An HSM is built once, before or after the second secrets file, so the two may
belong to one deployment or to two. Longer chains and other permissions are covered by the proofs.

The proofs below need none of these bounds.

`CHECK_DEADLOCK FALSE` appears in `WriteHang.cfg`, where without resets the
command really can stop (first finding); in `Deployment.cfg`, where all is over once every
HSM has used up its boots and keeps the files it has; and in `HsmLink.cfg` and
`HsmRecovery.cfg`: both devices may wait for each other until a watchdog ends
it, and resets are bounded there together with the commands.

## Fairness

*Hardware*: a DMA transfer that is ready and an enabled pending interrupt are
served; the handler runs to its end (it has the highest priority in use, `main.c:31-35`).
*CPU*: the command runs whenever the handler does not, and polls until its
flag is set. *Host*: it announced a file and goes on sending it and reading ACKs;
one that does not is answered by the watchdog (`docs/misc.md:7`), which is
`WriteReset`/`ReadReset`, not a fair action. *HSM link*: each device takes
its next step when the bytes it polls for are there; commands and resets are not
fair, and `DialogueEnds` promises nothing about files that one side refuses. *Host line*: the
CPU goes on when it can (`Program`), time passes while it polls (`Tick`), and the watchdog
strikes when its period is over. Host and peer owe nothing there: `Recovers` holds
whatever they do, because only the main loop restarts the watchdog (`main.c:39`). The watchdog
is fair in this module because it is a free-running counter in hardware. All fairness is weak: each of
these actions stays enabled until it is taken. Resets may happen and have no
fairness in the other modules: each liveness property there admits one as an end and relies on none. Only
`WriteHang` leaves them out, to show that nothing else ends that command.

## Proofs

`tlapm` proves the theorems below for all values of the constants that satisfy the assumptions of
their module:

* uploads and write: `SizesAssumption` (the header is shorter than a chunk and a first chunk fits the
  buffer), `ResetsAssumption`;
* read: `ReadAssumption` (chunk and response header are whole AES blocks, and the header is shorter
  than a chunk, and so is the text of an error; the firmware has blocks of 16, chunks of 256 and a header
  of 32 bytes);
* flash: `FlashAssumption` (there is a slot, `Blank` is no file, each file has data in some fields) and
  `PeerAssumption` (a peer's image belongs to one file; it is what `NoMix` says of that peer, which runs the
  same firmware);
* HSM line: `LinkAssumption` (a slot number and every ciphertext value is a byte, payloads are not empty), and for
  the theorems about turns `FIFO_DEPTH >= 4`, which is the depth of the hardware FIFO and the length of a header;
* host line: `HostAssumption` (sizes and times are numbers); the types need `HASH <= PIN_DELAY` (a handler that
  interrupts a hash does not outlast one that interrupts a delay) and `COUNT_SIZE <= CHUNK_SIZE`; the dialogue
  needs `SizesMeet`, see below, which `FirmwareSizesMeet` shows of the firmware's sizes;
* deployment: none.

| theorem | statement |
|---|---|
| `AsyncInvariant` | `AsyncSpec => []AsyncInv` |
| `UploadFitsBuffer`, `CompleteIsWhole`, `StoppedIsHalted`, `FifoNeverOverruns`, `OnlyStoredIsAcknowledged` | `AsyncSpec => []P` for `BufferBound`, `CompleteMeansFilled`, `StoppedMeansHalted`, `NoOverrun`, `AcknowledgedIsStored` |
| `AsyncImplementsTransfer` | `AsyncSpec => KeepsTransferContract` (`AsyncUart` implements `ChunkedTransfer`) |
| `UploadRunsOut` | `AsyncSpec => []UploadGoesOn /\ [][HardwareCountsDown]_asyncVars` |
| `WriteInvariant` | `WriteSpec => [](AsyncInv /\ WriteInv)` |
| `WriteImplementsAsync` | `WriteSpec => UsesAsyncUart` |
| `RejectionIsHarmless`, `SuccessIsStored`, `ReplyHasTheUart` | `WriteSpec => []P` for `RejectionKeepsSlot`, `SuccessMeansStored`, `ReplyIsExclusive` |
| `ReadInvariant` | `ReadSpec => []ReadInv` |
| `ReadTypes`, `BuffersNeverRace`, `PlaintextInOrder`, `LastChunkIsGuarded`, `NoAckIsLeft` | `ReadSpec => []P` for `ReadTypeOK`, `NoBufferRace`, `DeliveredInOrder`, `TagGuardsLastChunk`, `NoStrayAck` |
| `ReadRunsOut` | `ReadSpec => []ReadGoesOn /\ [][ReadCountsDown]_readVars`; `ReadGoesOn` exempts `ErrorInBody` of a file whose tag fails |
| `CorruptedReadsHang` | `ReadSpec => [][OnlyResetEnds]_readVars` |
| `FlashInvariant` | `FlashSpec => []FlashInv` |
| `FlashTypesHold`, `FilesNeverMix`, `StoredStays`, `OnlyReceiveMisnames`, `QueriesAlwaysAgree` | `FlashSpec => []P` for `FlashTypeOK`, `NoMix`, `SuccessIsDurable`, `WritesNeverMisname`, `QueriesAgree` |
| `FlashImplementsFileStore` | `FlashSpec => ImplementsFileStore` (`FlashStore` implements `FileStore`) |
| `PeersHoldTheSame` | `ClosedUnderResets(PeerImages)` implies `FlashSpec => []PeersAreAlike` |
| `LinkInvariant` | `LinkSpec => []LinkInv` |
| `LinkTypesHold`, `OnlySentFilesAreStored` | `LinkSpec => []P` for `LinkTypeOK`, `OnlySentIsStored` |
| `LinkImplementsFileTransfer` | `LinkSpec => KeepsFileTransfer` (`HsmLink` implements `FileTransfer`) |
| `TurnInvariant` | `FIFO_DEPTH >= 4` implies `LinkSpec => []TurnInv` |
| `DialogueIsTruthful`, `LinesAreLeftEmpty`, `FourEntriesSuffice` | `FIFO_DEPTH >= 4` implies `LinkSpec => []P` for `CleanDialogue`, `NothingLeftBehind`, `FifoSuffices` |
| `NobodyWaitsForEver` | `FIFO_DEPTH >= 4` implies `LinkSpec => []NeverStuck /\ [][StepsCountDown]_linkVars` |
| `TimeInvariant` | `HostSpec => []TimeInv` |
| `PromptHostIsSafe` | `HASH + PIN_DELAY < WATCHDOG` implies `HostSpec => []PromptInTime` |
| `HostTypesHold` | `HASH <= PIN_DELAY` and `COUNT_SIZE <= CHUNK_SIZE` imply `HostSpec => []HostTypeOK` |
| `TalkInvariant`, `HostsStayInStep` | `HASH <= PIN_DELAY` and `SizesMeet` imply `HostSpec => []P` for `TalkInv`, `InStep` |
| `FirmwareSizesMeet` | chunks of 256 bytes, 8 slots, entries of 35 and a counter of 4 bytes imply `SizesMeet` |
| `DeployInvariant` | `DeploySpec => []DeployInv` |
| `DeployTypes`, `PermittedReadSucceeds`, `ShownIsFetchable` | `DeploySpec => []P` for `DeployTypeOK`, `ReadsBack`, `OfferedIsReceivable` |

*The inductive invariant.* None of the properties is inductive: that DMA stays
in the buffer depends on `stop` having been raised before the first chunk is full, which
depends on where the handler is, and so on. `AsyncInv` therefore says which
*phases* an upload has (`Absent`, `Moving`, `Pending`, `Acking`, `Finishing`,
`Halted`) and fixes in each the channel, the handler, the flags, and the relation
between bytes armed, stored, acknowledged and allowed to the host; `Fits` adds that a
file too long for the buffer has `stop` raised and no more than its first chunk
armed. `NextAsyncInv` proves one step per action, each moving the upload from
one phase to another; `PhasesAreSafe` reads the five properties off the phases.
TLC checks `AsyncInv` in run `AsyncUart`; that only stored bytes are acknowledged (`AcknowledgedIsStored`)
is one of the properties read off it and needs no check of its own.

For the write command, `WriteStepIsAsync` shows that each of its steps is a
step of `AsyncUart` (or leaves it alone), so `AsyncInv` comes for free; `WriteInv`
ties `pc`, `reply` and `slot` to the request and to the upload's phase.

*Read.* `ReadInv` says for each place in the program (`Stage`) which chunk of the plaintext each buffer
is laid out for and how much of it is decrypted (`Latest`, `Holds`), how far the channel has come
(`Sending`), and whether an ACK is due. `NoBufferRace` and `NoStrayAck` follow because the CPU leaves a
stage only after the channel and the host are done with it. What makes the stages fit each other is
arithmetic: the command's chunks end at multiples of the block, the host's ACKs fall on multiples of the
chunk, and the first chunk is shorter by the header. The lemmas before the actions (`NextLengthFacts`,
`NoAckInside`, `ChunkIsUsed`) say that these meet for every length. The same arithmetic says what becomes of
the error for a failed tag (`ErrorStage`): the last chunk was held back, so no boundary but the end of the body is
left (`TagFailed`); if the four bytes of the header reach it the host acknowledges once, and then never again.

*Flash.* A reset may leave any prefix of a plan executed, so `FlashInv` speaks of what is still to come.
Plans are in order and without repetition (`Tidy`, by `Rank`); a field whose program is still to come is
blank, one whose program is over holds the value of the command's image (`Fresh`), and so for the FAT's
words (`TableFresh`); `Remaining` says that a sector erase is never left without the programs after it. When a
command is cut off, what it has left in the slot is then a part of one file, which is all that
`NoMix` and `Proper` need. `TableKept` separates a FAT that a reset made blank from one that names a wrong file: the second
needs a receive. The refinement is proved step by step: every flash command keeps what the
addressed slot reads as, except the first erase, which makes it read as nothing, and the one that completes the
image (`ReadChange`, `NextStore`). `ReadIs` derives what a slot reads as from which fields are whole.

*Peers.* The model lets a listening peer send any image of `PeerImages`. That this is no weaker than
reality is `PeersHoldTheSame`: if that set contains what a reset leaves of its own images and of
a file being written (`ClosedUnderResets`, at the points of `write.c:257-263` and `receive.c:171-178`), what
this HSM would send is in it again, so a torn file relayed through any number of HSMs is nothing new. `PeerInv`
adds what the command under way will still program: a slot whose size is already there lacks only an end of
its plan. The hypothesis holds of the set of images that any history can leave; of the one the run uses,
TLC evaluates it (`AllImagesAssumption`). With whole images only it is false, and so is `PeersAreAlike`.

*HSM line.* `OnlySentIsStored`, and with it `KeepsFileTransfer`, must hold whatever is reset, lost by overrun or left over from
another dialogue, so `LinkInv` assumes nothing about the order of messages. Its first part is where
encrypted bytes come from: each one on a line, in a key or in an image belongs to a listen command that
has admitted its slot (`Byte`, `Admits`), and the asker keeps a key only for a group it may transfer (`MayTransfer`).
Its second part, `FoundOnce`, is why nothing is stored twice: the first byte of the file of one
listen command is in at most one of three places, the line, the image under verification, and flash,
and nowhere before that command has sent it. A receive stores what is `Whole`, that is, begins with such
a byte; reading moves bytes from the line, overrun and reset only remove them (`Pieces`, `Joined`).
For the refinement each step is one of `FileTransfer` or changes nothing it sees: only `StoreDelivers` appends to
what was stored, and it does so while a receive command is under way (`ReceiveTakes`: only a receive comes to
verify an image), with a listen that is in no earlier entry because `FoundOnce` has its file in one place.

*Turns.* While nothing was disturbed (`clean`), the two HSMs take turns, and `TurnInv` lists them: which
place of the asker goes with which place of the listener, and the bytes on both lines, to the last one
(`Naming`, `Answering`, `Offering`, `Delivering` and so on; `Apart` when one of them is not in the dialogue). No
disjunct is stable by itself: each action moves from one to the next, and there is one lemma per
action. An overrun is excluded because a byte is sent either to a device that
polls or, to one that does not, as part of a single header, which is where
`FIFO_DEPTH >= 4` comes in. What each side reports follows, because a side decides
on its result only when the disjunct fixes what the other has stored or sent.

*Nobody waits for ever.* Liveness is out of the prover's reach, but not what it rests on besides fairness: that
some step can always be taken until the end, and that there are only so many of them. For uploads, reads and
undisturbed dialogues both are proved, for every length and payload. ENABLED is out of reach too, so the guards
are spelled out (`HardwareReady`, `ReadReady`, `AskerReady`, `ListenerReady`); TLC was used to compare them with
ENABLED of the actions. The counts (`HardwareLeft`, `ReadLeft`, `AskerLeft + ListenerLeft`) go down with each
step of handler, DMA, CPU, host or peer, so there is no livelock between them either. Reads have one place where
both sides do wait, the error for a tag that failed, and there `CorruptedReadsHang` proves the opposite: nothing but a
reset ends them. `NeverStuck` names the
two places where a dialogue stops because one side gave up without a word (`listen.c:188-192`,
`receive.c:85-95`): only the watchdog ends the other. A third, `listen.c:75-79`, needs a list that fails its
tag, which an undisturbed one does only between HSMs of different deployments; `HsmLink` assumes one.

*Time.* `TimeInv` bounds the ticks since the main loop at each place in the program (`Spent`): none
before the hash, one hash before the delay and on the way of a right PIN, a hash and a delay after
it. A handler adds a delay of its own, so it must not have come after a PIN delay was
begun; that case is `Unlucky`, and the property leaves it out because the code does
run over there (3.5 s twice). Only what the code gives in cycles is counted: a dialogue with the other HSM that
lasts a tick or more, computing included, makes `late` true like any wait, and the property says nothing of the rest
of that command. The right PIN leaves it 15 of the 16 ticks, but a handler after it needs 14 of them for its own
delay, so the watchdog may strike before that handler's reset. The inequality is necessary: with `<=` the last step fails, and with an
`ErrorDelay` of a second it would not hold for the firmware's numbers.

*Host dialogue.* `InStep` says nothing of the middle of a command, where the next mistake would be prepared.
`Talk` lists the phases by what the program waits for (`Asking`, `Telling`, `Working`, `Heading`, `Counting`,
`Sending`, `AckDue`, `Ended`) and gives in each the bytes on their way to the HSM (`Stream`, in the FIFO or still at
the host), the messages on their way to the host, and how much of the reply it has taken (`Taken`; `Unread` if it
is behind). The host may have sent its next command while the ACK of the last reply is still on the way (`Served`).
That one ACK is owed for what is unread follows because no chunk boundary lies strictly inside it (`NextStopIs`,
`OwedIs`). The last ACK is where the two sides could disagree: `utils_send_buffer` asks for one by the length of
its buffer (`utils.c:26`), while the host owes one by the length the header announced. For interrogate these
differ by the counter. `SizesMeet` is the condition that they come to the same for every number of files; it is not
general: with entries of 36 bytes and seven of them, 252 bytes and the counter fill a chunk, and the HSM would wait
for an ACK that the host does not owe. In the firmware entries have 35 bytes. In `HostsStayInStep` the FIFO may
have any depth, because a host in step sends only to a program that polls.

*Deployment.* `ReadsBack` is not inductive: that a file decrypts depends on who wrote it. `DeployInv` says
instead where keys come from: an HSM's from the one secrets file it was built with, a file's from
what its holder knows about its group. `SameDeployment` shows that the keys of a transfer agree
only between HSMs of one secrets file, so a file never leaves its deployment, and `ReceiveFileInv`
that what holds of it at the sender then holds at the receiver.

*Only model-checked.* Every invariant, refinement and action property of the passing runs is stated by a theorem,
`PeersAreAlike` under the closure just described. What stays with TLC is liveness under fairness (`UploadStops`,
`WriteReturns`, `ReadReturns`, `DialogueEnds`, `Recovers`), which is out of the prover's reach; for three of the five
the theorems about going on and counting down hold without bounds. `WriteReturns` adds to
that of uploads, which holds in the command too (`UsesAsyncUart`), only that the CPU polls; `Recovers` rests on the
fairness of the watchdog alone.

## Findings

1. **A rejected write of an empty file is never answered** (`WriteHang`). With
   length 0 no upload is started (`write.c:72`), but every rejection waits for
   `stopped` (`write.c:101`, `:112`, `:120`), which only the handler sets. The watchdog
   resets the device after 4 s; the error message is lost.
2. **list shows files that cannot be read** (`FlashListTorn`). After a reset between the
   flash word with `file_size` and the end of the signature, list
   reports a file (`list.c:40`) that read refuses.
3. **The FAT can name another file than the slot holds** (`FlashFatStale`). Receive
   writes the FAT before it erases the slot (`receive.c:162-169`): a reset in between leaves the new
   file's uuid beside the old file, until the next command for that slot. Write does
   it the other way round and is not affected (`WritesNeverMisname`).
4. **Slot number `NUM_SLOTS` is accepted** (`FlashSlotBound`; `write.c:117`, `read.c:73`,
   `receive.c:48`, `listen.c:148`). The file is stored past the array in the
   same flash region, can be read and sent, but is never listed, and its FAT entry
   is never programmed.

5. **The watchdog does not recover an exchange with the other HSM** (`HsmRecovery`).
   `docs/misc.md:7` says that it "makes any issues with incomplete messages or other
   errors recoverable", but it resets one HSM only and no command clears
   the HSM UART's FIFO. A listener that took the request of an asker that was then
   reset takes the next asker's magic byte for a slot number, and the user is told
   "File not Found".

Observed on the way, and contradicted by no document: with a reset in the middle of
a request, receive can store a file from another slot than the user asked
for. The listener finds the tail of the header, goes on with an operation it never
initialised, and takes a zero byte for the slot. `FileTransfer` therefore
does not mention the slot asked for; `CleanDialogue` does.

Observed, and not given a run:

* *A read whose tag fails ends by the watchdog only.* The error goes out in the middle of a body
  (`read.c:247-250`) and waits for two ACKs (`header.c:46`, `utils.c:27`). A host that counts body bytes as
  `utils_send_buffer` does takes it for body, acknowledges its header at most (if that fills the body) and its text
  never; `docs/plantuml/states.pu:23` shows every read going back to `WaitingForHost`. A slot
  gets there by a receive cut off in its data: metadata and signature are in place, the tag fails. Proved for all
  lengths as `CorruptedReadsHang`; for files of no more than one chunk too, since the name precedes them.
* The framing-error handler reports `break_msg`, a variable whose initialisation the jump to
  its `case` skips (`main.c:106`), instead of `frame_msg`.
* `delay_cycles(32 * 10^6)` (`header.c:39`) is an exclusive or and delays for 326 cycles. The
  second it seems to mean would make a wrong PIN outlast the watchdog: `ErrorDelay_asWritten`
  breaks `PromptInTime`.
* `docs/misc.md:11` says that all UART error interrupts are enabled. Only break, framing and overrun are,
  on the host UART; on the HSM UART only overrun, without its interrupt line (`main.c:34`).
* `include/group.h:63` and `docs/design.md:32` give every HSM the public keys of every group;
  `generate_secrets.py:86-107` writes only the groups of its permission strings.
* `generate_secrets.py:37-38` means to refuse malformed PINs, but `int(pin, 16)` accepts spellings
  such as `0x12ab` or `1_2_3a`, which `validate_pin` always refuses: such an HSM can never be used.
* `interrogate.h:15` has room for 8 group ids where `constants.h:9` allows 32 groups.

## Assumptions

* Straight-line code between two waits is one action; the firmware is built without optimisation
  (`CMakeLists.txt:107-109`), so polling loops on flags that the handler sets do read memory.
* A byte lasts thousands of CPU cycles on the wire. So DMA takes a byte before the
  next one is complete (`HostSendByte`), and the length check right after
  the start of DMA is over before the first chunk is (`AsyncReceive`). Both
  margins are three orders of magnitude at the configured baud rate.
* The DMA channel goes on at the next destination address when it is re-armed
  without setting one, as `async_uart.c:88-99` relies on.
* One flash word program and one sector erase are atomic; an erased word reads as
  ones. The words of one field are programmed as one step: a reader cannot tell
  a partly programmed field from a blank one, since uuid, name and data are covered by the
  signature or tag, and group and size each lie within one word.
* AES-GCM and Ed25519 are ideal: a signature verifies for the
  metadata it was made for and a tag for its data, and for nothing else.
* Two files differ in every field. A listening peer runs the same firmware, so its
  images are those `PeersAreAlike` shows this firmware to produce.
* A blocking send ends: the transmitter does not depend on the other device. What is
  lost on the HSM line is lost by overrun or reset, not by noise.
* A ciphertext cut, shifted or mixed fails its tag. The group id at its head
  may still be read as any group.
* The host tool is not in the repository; it is modelled from how the code
  uses it: it sends what it announced, at most one chunk ahead of the ACKs,
  and acknowledges what `utils_send_buffer` waits for. Of a body it reads exactly the announced
  length, whatever comes.
* The two HSMs of `HsmLink` are of one deployment: they share the transfer key and the keys of the groups both
  know. Those that do not are in `Deployment`, where a dialogue is one step.
* X25519, Ed25519, AES and the wire take no ticks of their own in `HostLink`: in the dialogue of two HSMs their time is
  that of a late peer (`Tick`), elsewhere none. The repository gives no figures for them.

* On the host line the CPU reads a byte it polls for, and does what takes it less than a
  byte's time, before the next byte is complete (`Instant`). A poll in vain lasts one tick or until the watchdog
  has run out; lengths in between lead to no other state. Programming flash and the random
  delays (up to 4096 cycles) take no tick.
* PINs given to the build are hexadecimal digits. Group ids fit 16 bits and differ from that of
  erased flash, and an HSM has at most eight groups. Its flash is erased when it is built.

## Not modelled

Random numbers (a buffer filled with unconstrained values), the generated system configuration beyond the watchdog
period and the enabled interrupts, Monocypher, the TI SDK, the build and the
documentation carry no protocol state. A UART error handler that interrupts an *upload* is not
composed with the DMA interrupt (`main.c:93`). The PIN paths of write and read, the same hash, delay and report as
those of list (`list.c:20-33`), are not in `HostLink`; during the delay of a write its upload goes on
(`write.c:99-101`). `Deployment` has neither the slot number
`NUM_SLOTS` nor slots torn by a reset; those are in `FlashStore`. `HostLink` abstracts the peer to an answer,
`HsmLink` the host to a command; each is nondeterministic enough to cover the other.

## Plan

1. *(done)* `ChunkedTransfer`, `AsyncUart`, `WriteCommand` and their proofs; `FileStore`,
   `FlashStore`; `ReadStream`.
2. *(done)* `HsmLink`; `HostLink`, which joined the planned modules for responses and the main loop; `Deployment`
   and its proofs; the timing theorem of `HostLink`.
3. *(done)* Proofs about `ReadStream`, about `FlashStore` with its refinement of `FileStore`, and about
   `HsmLink`: what is stored, and the turns of a dialogue.
4. *(done)* `HostTypeOK` and `InStep` of `HostLink`, from an invariant that says for each place of the HSM what the
   host waits for and what is on the line.
5. *(done)* `FileTransfer`, and that `HsmLink` implements it; that peers are no worse than this HSM; that uploads,
   reads and dialogues never get stuck and run out of steps.
6. A composition of `FileTransfer` with two `FileStore`s, one for each HSM, would say that a delivered file
   is what the slot reads as afterwards. The code joins the two in `receive.c:157-178` only, which `FlashStore` models.
