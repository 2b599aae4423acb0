# A TLA+ verification of depthcharge

Depthcharge is the payload that coreboot starts on ChromeOS devices. It verifies and starts a
kernel, offers recovery and developer user interfaces, boots from the network, and lets a host
program the device through fastboot. It is one thread of C without an operating system: nothing
preempts it, callbacks run inside the poll that found their event, and what is concurrent is
outside it. Hosts, networks, flash chips, the TPM and the EC run at their own pace and fail, and
power can go at any moment.

The modules here model the parts of it whose correctness depends on such sequences. TLC checks
them on small instances. TLAPS proves every safety property that a passing run checks, for every value
of the parameters. Paths below are relative to the repository, so `src/fastboot/tcp.c` is
`src/src/fastboot/tcp.c` in PROJECT.json.

## Inventory

| Part | State | Operations | Talks to | Hard behaviour | What makes it correct |
|---|---|---|---|---|---|
| nvdata in flash, `vboot/nvdata/flash.c` | the flash area, current offset, cache | init (binary search), read, write, erase | SPI flash driver; vboot commit | resets inside an erase or program, failing operations | the last value stored is found again; bits are never programmed upwards; erases are rare |
| vboot stages, `vboot/stages.c`, `callbacks/misc.c`, `secdata_tpm.c`, `load_kernel.c` | vboot context, TPM spaces, cleanup list | select, load, boot, commit, lock, reboot | vboot library, TPM, EC, nvdata, UI, other payloads | cleanup that itself reboots; any store failing; payloads and EC resets that return | committed and locked before any handoff; a failure is stored before a reboot; the way out ends |
| fastboot session, `fastboot/fastboot.c`, `cmd.c` | protocol state, staging memory | packets: command or data; reset, disconnect | transport below, disk and UFS | abandoned downloads, scratch use of the staging memory | staged data and its length belong together; no write outside the memory |
| fastboot over TCP, `fastboot/tcp.c` | stream parser, transmit queue, last packet, peer | uIP callbacks, poll, release | uIP, session | streams cut anywhere, retransmission, several hosts, late closes, lost links | framing, reply ownership, same packet on retransmit, every waiting host is answered |
| fastboot log and screen, `fastboot/log.c`, `vboot/ui/fastboot_log.c`, `screens.c` | ring buffer, page on the screen | print, read, iterate, page keys | session logs while the screen reads | the ring overwrites what is displayed; wrap and boundary arithmetic | readers return the last bytes printed; paging skips nothing |
| fastboot over USB, `fastboot/usb.c` | devices, session in one of them | probe, poll, remove, release | USB stack, session | unplugging in the session's own poll | freed once, by the right owner |
| fastboot disk and variables, `fastboot/disk.c`, `vars.c` | the disk found, its cached partition table | flash, erase, slots, getvar | GPT, block devices | partial writes | reported success means written |
| GPT, sparse images, Android misc, `base/gpt.c`, `sparse.c`, `android_misc.c` | on disk | write image, read and write messages, edit the OEM command line | fastboot, boot | failing chunk, size arithmetic, unaligned pieces | a success means the whole image, a failure a first part of it |
| DHCP, `net/dhcp.c` | `dhcp_state`, lease | request, release | uIP, fastboot over TCP, netboot | lost and late answers, retries after timeouts | a new request starts afresh |
| TFTP and netboot, `netboot/` | block number, status | read a file | uIP, DHCP | duplicates, losses, 16-bit block numbers | the file is received whole and in order |
| uIP, `net/uip.c` and drivers, `drivers/net` | connections, timers | process, periodic | all network users | retransmission, close sequences | TCP |
| UI, `vboot/ui` | stack of screens, menus, timers | keys, screen changes, redraw | vboot stages, diagnostics, fastboot | `exit()` of screens, timeouts against keys, disks that come and go | every `init()` has its `exit()`; presence before developer mode; an unattended machine boots |
| EC sync, `drivers/ec` | EC image and hash | hash, update, jump, protect | vboot library | busy polling, resets in the middle | the verified image runs |
| storage, `drivers/storage` | queues, devices | read, write, enumerate | vboot, fastboot | timeouts and late completions | a completion belongs to its command |
| event log, `base/elog.c` | buffer, its copy in flash | init, add | flash | torn events | earlier events survive |
| CSE, `drivers/soc/cse` | boot partitions | update, switch, end of post | flash, reset | resets between steps | bootable at every step |
| diagnostics, `diag` | incremental test state | run a slice | UI, storage | cancellation, limits | every cell tested |
| boot protocols, `boot`, `arch` | none kept | build tables, jump | vboot stages | failure after cleanup | see vboot stages |
| TPM, flash, input, video, sound, buses, GPIO, power, SoC, boards | hardware registers | read and write | everything | hardware timing | drive the chip |

PROJECT.json lists each of them under `components` with its files and status, and under `hazards`
the places where the code is exposed to something a test hardly reaches.

## Modules

| Module | Models |
|---|---|
| `NvdataFlash` | nvdata in flash, with the flash chip and resets |
| `NvRegister` | what nvdata storage promises: a single-value register that survives resets |
| `MCNvdataFlash` | the refinement mapping from the first to the second, which TLC and the proofs use |
| `NvdataFlash_proofs` | theorems about `NvdataFlash`, and that it implements `NvRegister` |
| `VbootBoot`, `MCVbootBoot`, `VbootBoot_proofs` | one boot under vboot, to every end of depthcharge; board configurations; theorems |
| `FastbootSession` | the session above its transport |
| `FastbootUsb`, `Fastboot_proofs` | extends `FastbootSession` with the USB transport and hot-plugging; theorems about the session, about USB and about the disk |
| `FastbootTcp`, `MCFastbootTcp`, `FastbootTcp_proofs` | extends `FastbootSession` with the TCP transport, uIP's events, and hosts; what they ask for; theorems |
| `FastbootDisk`, `MCFastbootDisk` | what the commands do to the disk; a small disk and images for it |
| `FastbootLog`, `FastbootLog_proofs` | the ring buffer; the theorems about it and about its screen |
| `FastbootLogPager` | extends `FastbootLog` with the fastboot screen |
| `Dhcp`, `Tftp` | the two clients, each with its servers and its network |
| `Netboot`, `MCNetboot`, `Netboot_proofs` | extends both with the sequence of `netboot()` and the UDP connections they share; files; theorems about all three |
| `NvmeQueue`, `NvmeQueue_proofs` | the I/O queue pair of the NVMe driver and the controller; theorems |
| `UiNavigation`, `MCUi`, `UiNavigation_proofs` | loop, screen stack, menus and global actions of the firmware UI; machines; theorems |

`FastbootSession` is the abstract specification of the fastboot transports: `FastbootUsb` and `FastbootTcp` both
have `ImplementsSession`, its `Spec`, as a property. `NvRegister` is that of `NvdataFlash`.

A name such as `FlashUse` or `DeviceOwned` at the end of a module is the conjunction of the invariants that
together say one thing; each conjunct has its own definition and comment above it.

### NvdataFlash

A blob is the set of its one-bits: erased is the set of all bits, programming intersects, an erase
fills a sector. `Call` starts `nvdata_flash_read` or `nvdata_flash_write`; `Probe` is one turn of the
binary search in `flash_nvdata_init` and `LoadCache` its end; `ChooseBlob` decides between keeping,
overwriting, advancing and erasing; `EraseSector`/`EraseDone` and `Program` are the flash commands.
Each flash operation can fail where it is (`InitFails`, `EraseFails`, `ProgramFails`), and a reset can
come at any point: between steps (`Reboot`), between two sectors (`RebootInErase`), or inside a
program command, with any part of the bits changed (`RebootInProgram`).

Two parameters are about callers. Outside recovery mode a failed write is fatal
(`vb2ex_commit_data` calls `vb2api_fail` and reboots), so with `IgnoreErrors = FALSE` the pc goes to
"dead" until a reset. With `IgnoreErrors = TRUE`, recovery mode, the caller carries on with what the
failed call left behind: the offset is already that of the next blob while the cache still holds the
old one. The invariants are not claimed for that case.

`cut` is a history variable: an erase stopped between the middle of the area and its end, so that used
blobs lie above an erased middle. The binary search then does not find the last one.

`NvRegister` is the abstraction: a stored value, at most one write in progress, reads that return what
is stored. A write may lose the old value before the new one is there (`LoseOld`, the erase), and an
interrupted one may leave a mixture of the old and the new bits, which vboot's CRC detects. What the
register never does is return to an older value.

### VbootBoot

`pc` follows `vboot_select_and_boot_kernel`. Calls of the vboot library are nondeterministic in what
they change and return, because the library is not in the repository. The cleanup list is a variable
with the order in which functions were added at its head, `walk` is the walk in progress, and `commit`
is `vb2ex_commit_data` with who called it: its three writes are actions that may fail one by one.
`reboot()` from inside a cleanup function replaces the walk it interrupts, and `depth` counts the
nesting. `Boards` are the configurations that matter: an EC power button to inhibit, a TPM with modes,
a TPM driver that closes in its cleanup function, `KERNEL_LEGACY`. An alternate bootloader may return,
and so may the x86 kernel start (`KernelReturns`) and an EC reset that fails after the cleanup functions ran.
The EC may refuse to inhibit the power button or to restore it: the first result is dropped (`stages.c:181`), the second
only printed (`cleanup_funcs.c:33`), so `powerbtn` keeps "refused" apart from "inhibited" and `PowerButtonRestored` says
what the cleanup list can promise: no way out leaves the button inhibited without having asked for it.

### FastbootSession

One action handles one packet, as `fastboot_handle_packet` does. Every handler has a parameter `r`, the
responses it sends in order, which is how `FastbootTcp` composes with it: there the same handler runs
inside a callback and `r` goes to the transmit queue. Sizes are numbers of data units. `content` says
what the staging memory really holds; only properties read it. `upload`, `download`, `flash`, the OEM
hash and UFS descriptor commands, `continue` and the reboots are told apart; commands that leave the
session alone are `OtherCommand`. `fastboot_reset_session` is a step in every state: it has no guard, and over TCP a
connection may end after the command that finished the session, but before its callback returns.

### FastbootTcp

Events that uIP reports are actions: data (`Segment`), acknowledgement, retransmission, time-out, FIN,
RST, a connection that is closed because another host holds the session (`CloseForeign`), the end of the
closing handshake (`LateClose`, `Expires`). Data opens a callback (`cur`, `buf`); one turn of the loop in
`fastboot_tcp_recv` is one action, and `EndCallback` is the `fastboot_tcp_send_packet` that ends every
callback. No other event comes in between, because `net_poll` processes one event at a time.

A stream is a sequence of units that carry their kind and message, so that a property can say what the
parser should be looking at. The state machine's union of header and data fields is kept, with the
zeroing that `fastboot_tcp_enter_state` does. Hosts are the counterparts of the protocol: one command at a
time, the data after DATA and possibly in several messages, and at any moment they may close, reset or
vanish. `LinkLost`, `TcpReinit` and `Exit` are the device's own ends of a session.

### FastbootUsb

A `UsbFastbootDevice` is shared by hot-plugging and by the session. `allocated`, `alink_devices`, `usb_dev` and
`in_use` are the facts about it that decide who frees it: `usb_fastboot_remove` when no session uses it, otherwise
`usb_fastboot_release` at the end of the session. `usb_poll` runs in many places (`fastboot_poll`, the key input,
the search for removable disks), so cables are plugged and pulled between any two calls. `usb_fastboot_dev_poll`
is one packet, handled by the actions of `FastbootSession`; an empty packet is dropped below it, which is why an
announced download of size zero is never completed over USB. `SessionEnds` and `UserExits` are the callers'
`fastboot_release`, followed by the reboot that a command asked for.

### FastbootDisk

The disk is a function from byte addresses; its first two bytes stand for the partition table and the
attributes in it. A write is the set of its possible results (`Write`): all blocks are written and counted; any set of
them is written and none counted, since `nvme_rw` queues a transfer in parts that complete in any order and returns 0
after a time-out; or all are counted although some are not written, since `nvme_sync_cmd` only prints the status of a
completion (`nvme.c:231`) and `mmc_write` drops that of a transfer of several blocks (`mmc.c:223`).
`blockdev_write_bytes` is its unaligned head, its whole blocks and its unaligned tail, in this order, and each is tried
only when the one before counted as written; the block that `blockdev_write_unaligned` merges into may come from a read
that failed in the same way and then holds what the new buffer held (`FreshBlocks`). A plain image is one action; a
sparse image takes one `WriteChunk` per chunk, with the checks of `write_sparse_image` in its order, and `SparseEnds`.
An erase asks the device first; `gpt_erase_partition` takes the count that `block_mmc_erase` returns for an error and
fills as well, and takes the 0 of a failed erase for success. A failed erase may have erased any blocks.

`ready` and `gpt` are what `fastboot_disk_init` and `fastboot_disk_gpt_init` keep between commands;
`fastboot_write_raw` drops the table before it writes, since it may overwrite it. `before`, `want` and `unnoticed` are
for the properties: the disk when the command began, what its success promises, and whether the code has taken a failed
transfer of the command for a success. `SuccessMeansImage` can only hold without that (`FastbootDiskStatus.cfg` shows
it), and then no byte is torn and the chunks are begun one after the other; that nothing is written outside the
blocks of the target (`StaysInside`) and that the cached table is current holds with it too.

`DiskAssumption` is what the code has already made sure of or cannot be otherwise: a disk is whole blocks, the checks
of the table in `GptInit` put every partition behind it, the data of a chunk is what its total size says follows the
header. Sizes in the headers, chunk types, lengths of images and places of partitions are arbitrary, so every check
of `write_sparse_image` can fail.

### FastbootLog and FastbootLogPager

A byte of the log is its number, so the buffer's contents say which bytes it still holds. The pager adds
which bytes are newlines and the screen's anchor; `UINT64_MAX` is modelled with its wrap-around, since the
screen uses it as "no page yet" and adds to it. A round of the UI loop is draw, poll (any bytes may be
logged, or the session lost), update with a key.

Each loop of `fastboot_log.c` is a function from the state before a round to the state after it (`NextChar`,
`PrevChar`, `NextLine`, `PrevLine`, `PrevPiece`), taken as many times as the code's bound says (`Rounds`); a round after
the loop was left changes nothing. The loop over the pieces of a wrapped line has no bound in the code. It goes
back at least one byte each time, so `SIZE` rounds are enough.

### Dhcp, Tftp and Netboot

`Dhcp`: `StartRequest`, `TakeOffer`, `TakeReply` and `WaitTimesOut` are the steps of `dhcp_request`, whose static
`dhcp_state` outlives it; `dhcp_release` ends it. `Tftp`: `tftp_read`, `tftp_callback` for each packet that arrives, and
`Resend`. In both, a packet stays on the network for any time and may arrive more than once, so loss, delay,
repetition and reordering are all there. Two things about the network are assumed and written in the modules: a DHCP
transaction id is not drawn again while packets with it are alive, and a TFTP packet dies before its transfer is
`Life` blocks further. The second is what the 16-bit block numbers rely on; `Modulus` stands for 2^16 and the
assumption is `Life + 1 < Modulus`.

`Netboot` is `netboot()`: DHCP until there is an address, three reads, the release, the boot. `conns` counts the
entries of uIP's table of UDP connections, which failed DHCP requests do not give back.

### NvmeQueue

The driver's side is `nvme_rw` cut at the points where the controller can be seen: `Submit` puts a command into the
queue, `CompleteFirst`, `SyncBounced` and `Finish` enter `nvme_sync_cmd`, whose loop is `Consume`, `Timeout` and
`SyncEnds`. The controller fetches in order, completes in any order and writes an entry with its phase. All indices,
the phase and the command id survive a call that failed, which is where late completions meet later calls.
`queued` and `inflight` are the controller's view of what it still has to do.

### UiNavigation

The stack is `ui->state` with its `prev` links. One iteration of the loop is four actions (`ReadKey`, `RunScreen`,
`RunMenu`, `RunGlobal`), since disks, the presence button and the developer delay change between any two of them, and
a handler that looks at the disk sees it as it is at that moment. `ui_screen_change` and `ui_screen_back` are
operators on the stack with the `init`, `reinit` and `exit` functions of the screens they enter and leave, including
the ones that refuse (an allocation that fails, a screen that skips itself). The screens with an action
(developer mode, to-developer confirmation, fastboot, the full-view logs, external boot) are told apart. Where the
focus is within a menu is left open: ENTER selects any item. `touched`, `seen`, `shown` and `leaked` only record
history for the properties: `shown` is the screen of this iteration, on which its key is pressed.

`KeyOnItsScreen` is the rule of `ui.h:689`, "If it triggers screen change due to a key press, the action function must
clear ui->key", said of the screens and not of the handlers: a key that reaches the menu or the global action finds the
screen on which it was pressed. Three screens are excepted, since they change by themselves and leave the key
(`ChangesByItself`): a fastboot session ends, or a disk is plugged in or out while the developer is asked for one.

## Runs

| Run | Bounds (distinct states) | What it checks |
|---|---|---|
| `nvdata` | 5 blobs of 2 bits, 1-blob sectors (123 000) | offset and cache name the current blob (unless an erase was cut); `FlashUse`: programming needs no erase, erase only when full; the driver implements `NvRegister`; calls return |
| `vboot` | all boards without `KERNEL_LEGACY`, versions 0..1 (58 000) | `HandoffSafe`: locked and committed at handoff, TPM disabled for network recovery only, power button restored unless the EC refuses; failures recorded; no handoff after one; `CleanupBounded`; exits complete |
| `fastboot_log_pager` | ring of 7, strings of 1, 4 and 8 bytes, lines of 2, pages of 2 lines, 9 bytes (84 000) | `ReadersAgree`: every reader against the reference "the last SIZE bytes"; `PageShown`: the page is in the log and fits the screen; `PagingSkipsNothing` |
| `fastboot_usb` | 3 cables, one without the right endpoints; memory of 6 units, sizes and chunks on both sides of every limit (7 600) | `DeviceOwned`: no use after free, no leak, one session; `DownloadsWhole`: progress inside the memory, staged data intact; implements the session; a promised reboot happens |
| `fastboot_tcp` | 2 hosts; header, handshake and command buffer of 2 units, downloads of 2, 1 retransmission (76 000) | `ParserInStep`: framing and buffer bound; the same packet on retransmission; replies go to the host that asked; implements the session; the session ends with its connection; hosts are answered |
| `fastboot_disk` | 4 blocks of 4 bytes, 2 layouts, 9 images, 2 misc writes, 3 commands of which one before the last may fail or go wrong unnoticed (945 000) | OKAY means the image is there and nothing else changed, unless a failure went unnoticed; `WritesInOrder`: nothing outside the target's blocks, ever, no torn byte, chunk after chunk; the cached table is the one on the disk |
| `netboot` | 2 DHCP servers, 2 ids, 2 sends; a kernel of 4 blocks with numbers modulo 3, 2 transfer ids; 2 UDP connections (442 000) | the address is leased and the one to release; `FilesWhole`: in order, in step, whole when booted; `ConnectionsHeld`; the reads end |
| `nvme` | queues of 3 entries, 4 calls of up to 3 chunks (471 000) | success means the controller is done; `CommandsIntact`: no entry or PRP list reused while in use; a wait is for completions that are owed; waits end without a time-out |
| `ui` | 6 machines, stack of 3 (477 000) | `StackSound`; presence shown on this visit before developer mode; the developer delay stays off; a key acts on the screen on which it was pressed; a valid recovery disk is booted; an untouched developer machine boots |
| `fastboot_failed_descriptor` | one size | violation of `StagedIntact`, see Findings |
| `netboot_dhcp_retry` | 1 server, 3 sends, 10 UDP connections | violation of `RetriesSucceed` |
| `ui_exit` | stack of 4 | violation of `ExitRuns` |

Why the bounds are enough:

- *nvdata.* Two bits give values that can be overwritten in place and values that cannot. Five one-blob
  sectors put the middle probe, an uneven half on either side, and an erase cut in each half within reach;
  the search takes several probes. The proofs cover every other size.
- *vboot.* There is one boot; nothing grows but the nesting, which a property bounds. Two versions tell a
  committed secdata from one that is not.
- *fastboot transports.* A header and a command of two units can be cut in the middle; a command longer than the
  buffer is among the requests; a download of two units can come in one or two messages. Two hosts are a session
  and a competitor, and either is also the other's predecessor. With three cables one is in use, one competes and
  one is refused; the proofs cover every set of cables.
- *log.* The ring is smaller than the longest string. The log outgrows the ring by two bytes, so pages are
  overwritten in every position while TLC still enumerates every set of newlines.
- *disk.* Chunks are half a block, so that pieces start and end inside blocks; an image ends with its partition or
  runs over it; the second layout exchanges the partitions, so a stale table would write to the wrong one. Three
  commands are enough to load a table, replace it and use it.
- *netboot.* Block numbers wrap within the kernel. With two transfers open, the packets of one that lost the
  race reach the client. The ramdisk fills the room that is left and ends with an empty block. Two connections are the
  smallest table in which a leak shows.
- *nvme.* Three chunks fill a queue of three (which holds two), so a call waits in the middle; four calls wrap the
  indices and both phases, with late completions of one call in each of the next ones.
- *ui.* A stack of three is the root, a screen and one above it, and pushes beyond it meet the failing allocation. The
  machines differ in what handlers branch on: mode, keyboard or button, default target, what boots, fastboot
  allowed or requested, debug information that cannot be collected. A disk that cannot be used may change from one error
  code to another (`invalid`, `unreadable`), which shows the screen about it once more.

`nvdata`, `fastboot_log_pager` and `fastboot_tcp` check deadlock: idle firmware can always take another call, packet or
key. The others do not, because there the system ends (a boot, a UI loop that returns, a machine that rebooted) or
the bound on commands or calls is reached. The pass runs take every action and every disjunct of their next-state
relations.

### Fairness

Depthcharge is the only thread, so its next step happens when nothing outside is needed: weak fairness on
`Running` (nvdata calls; nothing promises that a flash operation does not fail), on `Depthcharge` (vboot), on
`SessionEnds` (the caller of USB fastboot keeps polling), on the driver's steps of NVMe, on the loop of the UI and, for
TCP, on the loop of a callback and on re-initialisation. Time passes: weak fairness on `DelayRunsOut` and on the resend
timer of TFTP.

What is outside is fair only as far as it is not broken. For TCP the network delivers in the end or uIP's timer
gives up: weak fairness on `Segment`, `Ack`, `Arrive`, `TimedOut` and `CloseForeign`; a host that promised data sends it
(`SendData`). `LateClose` has strong fairness: `net_poll` serves every connection's timer, so that another connection's
callbacks, which disable the action while they run, cannot put it off for ever. For TFTP and DHCP, of what is sent
again and again some copy arrives and is answered: strong fairness on arrivals and answers. The NVMe controller works
off what it was given; `SyncServed` is claimed until the first time-out. No fairness makes a host connect, send a
command or close, a user press a key, or a disk appear.

## Proofs

17177 proof obligations in eight modules, checked by TLAPS with the SMT, Zenon and temporal backends.

**NvdataFlash_proofs**, for every number of blobs, sector size and set of bits:

- `TypeCorrect`: offset and search bounds never leave the area, whatever fails;
- `OffsetCorrect`, `CacheCorrect`, `ProgramCorrect`, `WearCorrect` and, of the last two with the types,
  `FlashUseCorrect`: the invariants of the `nvdata` run, under `~IgnoreErrors`.

None of them is inductive. The invariant `IInv` adds to the types, as named parts: `AreaInv`, outside an
erase the area is `Searchable`, that is, it has a single border between used and erased blobs or its upper half
is in use; `SearchInv`, the two ends of a search in progress are a used and an erased blob on the same side of
the middle; `CallInv`, what a call in progress has established; `CacheInv`, an initialized driver has the offset
and the value of the last blob; `EraseInv`, how far an erase has got; and `ProgramInv`, what is about to be
programmed fits over what is there, with everything above it erased. `SearchFindsLast` is the heart: from a
searchable area the search ends on the last used blob. `StoppedEraseIsSearchable` shows that an erase that
stops in the first half of the area keeps this, which is why `cut` only starts at the middle.

- `RegisterImplemented`: every step of the driver is a step of `NvRegister` or changes nothing of it, under
  `~IgnoreErrors`, with the mapping of `MCNvdataFlash`.

The mapping is about the last blob in use, a CHOOSE, which `LastExists` shows to be a unique blob. Then there is one
lemma per kind of step: searches leave the register alone, the erase loses the old value with its last sector and not
before (`ErasedUpTo`), programming stores the new value or, torn, a mixture (`StoredByProgram`). A stop after which
`cut` holds damages the register; until an erase repairs it, `DamagedStep` allows whatever the driver does.

**Fastboot_proofs**, first about the session, for every memory size, announced size and chunking: `TypeCorrect`,
`ProgressCorrect` (the unsigned subtraction in `fastboot_handle_download` never wraps) and `StagedCorrect`. The
invariant adds to the properties (`DownloadInv`) that nothing is staged while data is expected and that the
progress is within the announced size then; it holds at the start of each download because
`fastboot_prepare_download` resets both.

Then about USB, for every set of cables as well: `UsbRefinesSession`, that every step of the transport is a
step of the session or leaves it alone, which carries the theorems above over to USB (`UsbTypeCorrect`,
`UsbProgress`, `UsbStaged`); and `UsbNoUseAfterFree`, `UsbNoLeak`, `UsbOneSession`. Ownership needs all of its
parts at once (`UsbInv`): a cable in use is the caller's session and still plugged in, what is allocated is on the list
or the caller's, and the caller's is allocated. `UsbDeviceOwned` and `UsbDownloadsWhole` are the two invariants of
the run; the second adds, by its own induction, that what a download staged is not empty (`NotEmptyStep`).

Then about the disk, for every disk, block size, partition layout and image: `DiskWritesInOrder`, `DiskSuccess` and
`DiskTable`, the invariants of the run, all from `DiskInvariant`. A write is the set of its results, so the first lemmas
characterise it (`Outcome`): whatever the alignment of head and tail, every result of `blockdev_write_bytes` differs from
the old disk in blocks of the data only, and unless a failure went unnoticed each byte is old or new, and all are new when
it counts as written. `DiskInv` adds to the properties `JobInv`, that a sparse image in progress still knows where it
began, how much room there was then and, with a table in use, that it began behind the block of the table; and
`ProgressInv`, that between two chunks the disk is as promised up to the next chunk and as it was from there on (`UpTo`).
What an image promises is defined by the sum of the sizes of its chunks, which is
followed chunk by chunk; induction over their number comes from the well-foundedness of the natural numbers, with a
set of numbers in place of the predicate that the provers cannot instantiate.

**FastbootLog_proofs**, for every ring size and every sequence of string lengths: `TypeCorrect`,
`BufCorrect`, `IteratorsCorrect` and their conjunction `ReadersCorrect`. `RingInv` says where in the ring each of
the last SIZE bytes is, in both regimes (never wrapped, where `idx = total_len`, and wrapped). The properties follow
from it by modular arithmetic (`ModBelow`, `ModAbove`), one lemma per reader.

Then about the screen, for every width and height as well: `PagerShows` and `PagerSkipsNothing`, the other two
invariants of the run, from `PagerInvariant`. Iterators and loops are first replaced by numbers of bytes. `InSteps`
(induction over a set of numbers) shows that `Rounds` is what the code's loop computes (`RoundsWork`), and
`NextLineIs` and `PrevLineIs` that a line scanned forwards ends at the next newline or after `chars_per_line` characters,
and one scanned backwards begins after the newline before it or as many characters earlier. `Past(b, n)` is where n lines
from byte b end, `Front(q, n)` where n lines back from q begin. The two ways divide a wrapped line into different pieces. They
agree on how far n lines can reach, because both are greedy: a piece taken greedily covers at least as much as any other
(`EndCovers`, `StartCovers`), hence n lines forwards from the beginning of n lines backwards reach their end
(`ForwardReaches`), and when n lines forwards are the rest of the log, n lines back from its end get to where they began
(`BackwardReaches`). From this follow that a page found backwards fits the screen when
it is drawn forwards, and that a page found on the way down or up leaves no gap. A line that begins at the oldest byte is counted
one short when scanned backwards (`PrevLineLength` in the findings below); the proof shows why no property suffers: a page
may begin anywhere in its topmost line (`PrevPageIs`) and still ends where it should and fits, and a length of zero
sends the key to the first page. `PagerInv`
says where the page is at each point of the loop: about to be drawn it is a `GoodPage` (in the log, not empty, within
`Past` of the screen's lines), and once drawn it remains one as long as its bytes are there, since a log that
grows moves `Past` only forwards (`PastGrows`).

**FastbootTcp_proofs**, for any number of hosts, any requests and lengths, and any cuts of the streams:
`RetransmitTheorem`, `SessionTheorem`, `ParserTheorem`, `RepliesTheorem`, and `TcpImplementsSession`, that every step of
the transport is a step of `FastbootSession` or leaves it alone. The last has the hypothesis `HostsCovered`, that the sizes and chunks of the
abstract session include those of the hosts' messages; the run's constants satisfy it. The invariant `LinksInv` says who may touch
the session: `LinkInv`, that outside HANDSHAKE there is an established connection, that in HANDSHAKE nothing is queued
or kept, and that a packet uIP may send again is `last_packet` of the session's own connection; `CallbackInv`, that a
callback belongs to a connection that has the session or may get it, and that what finished the session inside a
callback has left a reply; `ParserInv`, that the parser is inside one message, reads commands only while no data is
expected and has room in `segment_buf`. The rest (`SessionInv`, `ParserTypes`, `NetTypes`, `HostTypes`, `UnitsInv`) are types.

The parser and the replies need the hosts as well: `TcpInv`. `HelloInv` says that a connected host without a session has sent
its handshake and nothing else, `ClosedInv` that a closed connection has a closed host. `ReplyInv` relates the replies a
host has not received (`Pending`: one with uIP, the others queued) to its phase (`Awaits`). `StreamInv` says what the
device has still to read: nothing (`Quiet`), the rest of one command (`CommandComes`), or the rest of the messages of a
download, which with what the host has still to send are exactly what the session expects (`DataComes`). Since a host cuts
its data as it likes, the last is stated with the ends of the messages and the data up to each (`Framing`); lemmas say
that it survives a cut by TCP, a partial read of a header or of data, and a message appended (`DataHeaderRead`,
`DataRead`, `DataAppend`). Because nothing is on its way while a reply is pending, a command is always read with
an empty queue, which is why its answer cannot be taken for that of another.

**VbootBoot_proofs**, for any boards and versions: `CleanupTheorem`, `FailureTheorem`, `NoHandoffTheorem`, and
`HandoffTheorem` for boards without `KERNEL_LEGACY` (`VbootBootLegacy.cfg` shows why). What the machine is left in is
decided by the cleanup list long before the end, so `IInv` follows the list: `ListInv`, what it holds by now;
`WalkInv`, what a walk has achieved once the commit is no longer in its rest, and that the power button is still in it
while it is inhibited; `DepthInv`, why a walk is made and that only `reboot()` nests; `DataInv` and `CommitInv`, how
context and stores differ and what a commit has written; `TpmInv`; `ChoiceInv`, that nothing is chosen or changed while
the boot can still come back to loading a kernel; `FailInv`, that after a failure outside recovery there is only the way to a reboot.

**Netboot_proofs**, for any number of DHCP servers, ids, connections and blocks: `AddressTheorem`, `ConnectionsTheorem`,
`FilesTheorem`. `RepliesInv` says that replies with the current id answer what `dhcp_request` waits for; `AddressInv` and
`ConnsInv`, when there is an address and who holds a connection. Of TFTP, `TransferInv` says that only the client's own
transfer gets beyond its first block, `PacketsInv` that no packet on the network is more than `Life` blocks behind it, so
that equal numbers modulo `Modulus` mean equal blocks, `DestInv` and `MemoryInv` what is in memory by then.

**NvmeQueue_proofs**, for queues of any size, any chunks and calls, when both queues have the size the driver takes for
granted (`SameSize`): `IntactTheorem`, `SuccessTheorem`, `OwedTheorem`. All indices are ring positions that wrap, so
`IInv` counts instead: there are numbers of commands submitted, announced, fetched and completed beyond what the driver
has consumed, and every index is that far `After` the driver's head (`Indices`). From them follow which entries are new
by their phase and what they report (`Entries`), how much is open (`Amounts`), and what each pc has to wait for
(`Control`). `Ids` says that open commands have different ids.

**UiNavigation_proofs**, for any machines and heap: `StackTheorem`, `PresenceTheorem`, `TimerTheorem`, `KeyTheorem`. `StackOK`
is what navigation keeps of a stack: its length, the root at its bottom, each screen once. `From(s, t, ids)` says that the
stack t comes from s by popping, then pushing one of the screens `ids`; it is shown once for `ui_screen_change` and
`ui_screen_back` and then used for every handler (`Handled`). `PresenceInv` adds to the property that, while the
confirmation is on the stack, a button that was pressed and a trusted ENTER that waits for its handler were seen on this visit.
`KeyInv` adds to `KeyOnItsScreen` that a screen's own action finds the screen of the iteration; `KeyKept`, shown for the
action of every screen, says that one that leaves the key either stays or is among those that change by themselves.

The assumptions are the ASSUMEs of the modules, which TLC evaluates in every run: sizes are positive, an area
is a whole number of sectors, the cables with the right endpoints are among the cables, a packet is not NULL.

Only model-checked: every liveness property, since fairness is beyond the prover.

## Findings

- *A failed UFS descriptor read keeps stale staging* (`fastboot_failed_descriptor`, `src/fastboot/cmd.c:534`).
- *A DHCP request that timed out makes every later one fail* (`netboot_dhcp_retry`, `src/net/dhcp.c:515`). The state
  stays `DhcpRequesting`, in which offers are dropped, so the loop "Dhcp failed, retrying." of `netboot()` never ends
  although servers answer. Each failed request also keeps its UDP connection.
- *Screens are dropped without their exit function* (`ui_exit`, `src/vboot/ui/navigation.c:83`). A change to a screen that
  is already on the stack pops the ones above it; a fastboot session among them stays open. `ui.h` says that exit runs
  when a screen is popped.

Seven further disagreements have a configuration of their own that shows them with TLC; they are not among the runs:

| Configuration, module | Property violated | What it shows |
|---|---|---|
| `NvdataFlashCut.cfg`, `MCNvdataFlash` | `OffsetIsLastBlob` | a reset in the second half of a multi-sector erase leaves used blobs above an erased middle, and the next boot takes blob 0 for current, contrary to the comment at `src/vboot/nvdata/flash.c:91` |
| `VbootBootLegacy.cfg`, `MCVbootBoot` | `LockedAtHandoff` | when building the boot information fails, `legacy_boot` starts the kernel with nothing committed and secdata_kernel unlocked (`src/vboot/stages.c:335`) |
| `FastbootTcpExit.cfg`, `MCFastbootTcp` | `AnsweredBeforeExit` | over TCP, INFO and OKAY of a reboot need two callbacks, and polling stops after the first (`src/fastboot/cmd.c:638`) |
| `FastbootLogPrevLine.cfg`, `FastbootLogPager` | `PrevLineLength` | the oldest line is one character short (`src/vboot/ui/fastboot_log.c:91`) |
| `NetbootArgs.cfg`, `MCNetboot` | `ArgsFallBack` | a read of the argument file that fails half way leaves its first blocks over the command line it should fall back to, which `netboot_entry` keeps in the same buffer |
| `FastbootDiskStatus.cfg`, `MCFastbootDisk` | `OkayMeansImage` | a command answers OKAY although its data is not on the disk: the driver counted a transfer whose status reports an error (`src/drivers/storage/nvme.c:231`), or `gpt_erase_partition` took the 0 of a failed `block_mmc_erase`, which returns a count, for success (`src/base/gpt.c:234`; `src/debug/firmware_shell/storage.c:110` compares it with the number of blocks) |
| `NvmeQueueSmall.cfg`, `NvmeQueue` | `WaitsForOwed` | with a controller whose MQES is below the driver's queue size, the driver wraps its head at `NVME_CCQ_SIZE` and waits for an entry that is never written (`src/drivers/storage/nvme.c:1057` against 444 and 550) |

Seen while modelling:

- vboot: an EC command that fails in `x86_ec_powerbtn_cleanup_func` leaves the kernel with an inhibited power button
  (`stages.c:104`); the walk of the cleanup list prints that and goes on.
- nvdata: in recovery mode a failed write leaves offset and cache apart.
- fastboot: the limit of an upload over TCP does not count the header that goes with it (`cmd.c:49`); no keep-alive notices
  a host that vanished while idle (`tcp.c:92`).
- disk: `total_blks` of a sparse header is never compared with the chunks; the partition check of `gpt.c` compares the staged
  size, not the expanded one, with the space (the chunks are checked one by one); an erase by writing covers the first
  256 MiB only (TODO at `gpt.c:236`), also after eMMC has erased all of it; a failed read that nobody notices makes
  `blockdev_write_unaligned` write a new buffer's contents around its data (`blockdev.c:140`); `is_sparse_image` reads a header without looking at the length; appending to the OEM
  command line after a read that failed starts from an empty one.
- netboot: an empty argument file is taken (`netboot.c:125`); the comment in `dhcp.c` says "Try retransmission up to 2 times" where
  the loop resends three times.
- NVMe: after a time-out midway the entries consumed are not given back to the controller and the command id is not reset, so
  later calls may fail; an error between `Submit` and the doorbell leaves commands in the queue for the next call; a
  completion's error status is only printed.
- UI: ESC on the rollback screen may show the invalid-disk screen of an earlier disk; `developer_mode_action` goes on after it
  changed the screen; ESC leaves a storage self-test running; an alternate bootloader starts without `ui_screen_cleanup`;
  a key in the iteration in which a session ends acts on the screen uncovered, and one in the iteration in which a disk
  comes or goes on the external boot screens acts on the screen that the disk brings up.

## Not modelled

Register-level drivers (video, sound, buses, GPIO, SoC, input), drawing, boards and builders of kernel tables
have no state across steps that a property could be about; they are most of the repository's lines. uIP is vendored
and appears through the events it gives to its users. The vboot library, libpayload and the hardware are outside the
repository and appear as nondeterministic choices. Text of responses and logs is left out.

Of the parts that are modelled, these are missing: the admin queue of NVMe and the other storage controllers, which
wait for one command at a time; the broken and diagnostics roots of the UI, the screen shown when developer boot is not
allowed, languages, the stepped recovery instructions and where the focus moves; `params.c` of netboot; the values that
getvar prints; the second copy of the GPT. Some failures are coarser than in the code: the erase of one flash sector is done
or not done; the ways in which opening or initialising the TPM fails are one; a page of the fastboot log whose `malloc`
fails (`log.c:83`) is not drawn, where the model always has the memory; an upload over TCP leaves in one packet, whatever
its length (`uip_send` cuts it at the segment size). The event log, EC sync, CSE and the diagnostics are planned.

## Plan

Done: nvdata, vboot stages, fastboot session, log, screen, TCP, USB and disk; DHCP, TFTP and netboot; the NVMe queues; the UI.
Next, in this order:

1. `Elog`: the buffer and its mirror in flash, torn events after a reset, the shrink when it is full.
2. `EcSync`: hash polling, image update, jump and protection with an EC that resets in the middle.
3. `CseLite`: partition switching with resets between the steps.
4. `Diag`: the incremental memory test across polls of the UI and its cancellation.

Each of them gets its inductive invariant and its theorems with the module, as the ones above.
