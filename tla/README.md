# FPVault - verification project

TLA+ specifications of the FPVault recorder (F1C200s firmware in `src/src`,
desktop companion in `src/desktop`), checked with TLC and, where it pays, proved
with TLAPS. Paths below are relative to the directory that holds `src/`.

## 1. The system

FPVault records an analog FPV camera to an SD card. One CPU, no RTOS: a main
loop (`src/src/main.c:176`) calls every component's poll function in a fixed
order, a 1 kHz timer interrupt runs capture and encoding, and a USB interrupt
serves the host. The board loses power without warning; that is the normal way a
flight ends.

| component | state it keeps | operations | talks to | what makes it hard |
|---|---|---|---|---|
| recorder (`recorder.c`, `main.c` loop) | `state`, `auto_record`, `clip_open`, frame counters, four TIM0 stamps | `recorder_task`, `recorder_toggle`, `recorder_toggle_auto`, `recorder_on_frame` | calls avi, dcf, FatFs, sdtest; called by console, fclink, pipeline | USB host, pilot, card failure and signal loss meet in any order; stamps kept only in some states; the error path closes on a dead card |
| avi muxer (`avi.c`) | offset, frame count, staged index, sticky error | `avi_start`, `avi_add_*`, `avi_refresh_header`, `avi_finalize` | FatFs file | a cut between any two sector writes must leave a playable file |
| dcf naming (`dcf.c`) | `session_dir`, `next_index`, `session_made`; the card is the authority | `dcf_boot_scan`, `dcf_next_clip` | FatFs directories | numbers must never be reused: reboots, deletions, card swaps, exhausted ranges |
| pipeline (`pipeline.c`) | SPSC ring `head`/`tail`, encode in flight, pending buffer | `pipeline_tick` (IRQ), `pipeline_consume`, `pipeline_toggle`, `pipeline_freeze` | capture, VE; recorder and UVC as consumers | producer in an interrupt, ring full, encode timeout |
| capture (`capture.c`) | three-buffer ring `wr`/`done`/`safe`, `armed`, watchdog, standard | `capture_tick`, restart, auto-follow | TVD DMA | DMA writes while buffers rotate; signal lost between the two sentinel rows |
| encoder (`ve.c`, `vejpeg.c`, `jpegtab.c`) | VE registers, quant tables | start, poll, abort, header build | VE hardware | register programming; table construction is pure data |
| FC link (`fclink.c`, `runcam.c`) | RunCam framer of up to 4 bytes | `rcam_feed`, `rcam_idle`, `fclink_poll` | flight controller UART, recorder | resynchronisation after noise, gap timeout |
| console (`console.c`) | `armed` | `console_poll`, `dispatch` | everything | bench commands act in every state |
| card bring-up (`sdcard.c`, `sdc.c`, `diskio.c`, `sdtest.c`) | card descriptor, `dstat`, `mounted` | detect, read, write, mount, unmount | SDC controller, FatFs | retries, bus recovery, a card pulled at any time |
| USB reader (`usbmsc.c`) | `host_present`, `card_present`, `card_ready` | init, sector read/write, release | host, recorder, dlog | one card, two possible owners |
| USB camera (`usbuvc.c`) | streaming flags, transfer in flight, keep-alive slot | probe/commit, `usbuvc_on_frame`, `usbuvc_poll` | host, pipeline ring | host stops reading without a word; frames are sent out of ring slots |
| USB update (`usbdfu.c`, `spinor.c`) | DFU state, staged bytes, burn flag | class requests (IRQ), `usbdfu_poll` | host, SPI-NOR | requests race the burn; a failed burn |
| debug log (`dlog.c`, `dlog_core.c`) | RAM ring kept over resets, current sector | put, open, flush, host wrote | card, USB reader | power cut, ring reuse, full file |
| desktop jobs (`desktop/src/main/jobs`) | queue, cancelled set | add, cancel, import, recover, join, export | library, volumes | cancel races completion; partial copies |
| desktop device (`desktop/src/main/device`) | current device state, blind scans | rescan, timers | USB probe, volumes | overlapping polls, failed probes |
| desktop library (`desktop/src/main/library`) | JSON index, write queue | load, flush, scan | disk | crash during write |
| desktop update (`desktop/src/main/update`) | download progress | DFU download, releases | the board's DFU | lost replies, retries |
| desktop AVI (`desktop/src/shared/avi`) | parsed clip | parse, repair | clips | torn files |

What makes each correct, in one line:

* recorder - one owner of the card at a time; a clip open exactly while recording
  and only on a mounted volume; bounded loss; recording resumes by itself; a host
  always gets the card; a user's stop sticks.
* avi - at every instant what is on the card describes a prefix of what was
  recorded; the index is claimed only when it is there.
* dcf - a name is never given twice on one card.
* pipeline - a slot between tail and head is never written; frames leave in order;
  a full ring costs frames, never the loop.
* capture - a buffer handed to the encoder is not the one the DMA fills; a wedged
  ring restarts.
* USB camera - a payload in flight is not overwritten; a host that left is noticed;
  a new session never begins with an old frame.
* USB update - what is burned is what was received, complete and in order.
* debug log - bytes leave the RAM ring only when they are on the card.

## 2. Plan

In the order of what a failure costs: a recording first, the bench last.

1. **Recorder** with its surroundings; abstract `CardOwnership`; proofs. *(done)*
2. **Ring**: the encoded-frame ring, its interrupt producer and its consumer;
   abstract `FrameQueue`; proof that a slot is never written while it is occupied.
   **Camera** composes it with the USB camera's pump and the host. *(done)*
3. **Dcf**: names over reboots and deletions; proof that a name is never given
   twice while listings are complete. *(done)*
4. **FatFile**, **AviClip**: the order of a clip's writes over the FatFs sector
   buffer. **CardFiles** composes both with Dcf under failing accesses and power
   cuts; abstract `ClipArchive`. *(done)*
5. **Capture**: the ring of three buffers, its watchdog and what the encoder takes
   of it; proofs that the three roles stay apart, that the DMA is never in the picture being
   encoded, and of the restarts within which pictures come back. **Recording** checks it with
   CardFiles in one run. *(done)*
6. **UsbUpdate**: the board's DFU, the burn and the desktop's download, with
   proofs; **Dlog**; **RunCam**; **SdCard**. **Services** checks these
   in one run. *(done)*
7. Proofs of the content of a clip and what a cut of the power costs, of the height a
   host reads, of card detection, and that `ClipArchive` is implemented. *(done)*
8. Proofs of the framer, of the log's bookkeeping, and that the log leaves the host's space alone. *(done)*
9. Left: the desktop's queue, watcher, store and repair.

## 3. Modules and the code

### Recorder

`Recorder` is `recorder.c` together with everything it reads. One pass of the
main loop is four phases, in the order of `main.c:176-188`:

| phase `pc` | code | actions |
|---|---|---|
| `console` | `console_poll` | `ConsolePoll` (a command out of `Commands`, or none) |
| `fclink` | `fclink_poll` | `FcEvent`, any number of times, then `FcDone` |
| `task` | `recorder_task` | `RecorderTask`: `HandOver`, or one of `TaskNoCard`, `TaskWaitSignal`, `TaskRecording`, `TaskError`, `TaskIdle` |
| `frames` | `pipeline_consume` calling `recorder_on_frame` | `OnFrame`, as often as frames are queued, then `FramesDone` |

Between any two of these steps the surroundings act: `Tick` (a frame period
passes and the interrupt may queue a frame), `SignalChange`, `CardChange`,
`FlakyChange`, `HostConfigures` (the USB interrupt).

* `state`, `auto_record`, `mounted`, `host_present`, `card_present`, `card_ready`
  are the variables of the same names in `recorder.c`, `sdtest.c` and `usbmsc.c`.
* `clip` holds `clip_open`, `frames_written`, `frames_written -
  last_refresh_frame`, `avi_t.error` and whether the open `FIL` still belongs to
  the mounted volume; `exposed` counts pictures added since the header on the card
  last described them.
* `age` is the distance from each of the four TIM0 stamps to now, modulo the wrap
  of the 32-bit timer. A stamp that the current state never reads stands still,
  which removes states and changes no guard.
* `card` distinguishes an empty slot, a card that has not been initialised (just
  inserted, or left by a failed bring-up) and one that answers; `flaky` says that a
  card that answers may fail a command all the same.

A call that reaches the card (`clip_start`, `sdtest_mount`, `avi_add_raw`) is one
step with both outcomes: the main loop runs them to completion, and the interrupts
that occur meanwhile touch none of the recorder's state. Time that passes inside
them is time that passes before or after the step; `MaxStall` bounds it, as the
6 s watchdog does.

### CardOwnership

The abstract promise: the card belongs to nobody, to the firmware's FatFs or to a
host; a clip is open for writing only under the firmware's ownership; what the
host was given it keeps. `Recorder!OwnershipKept` is that specification under the
mapping `owner <- Owner`, `writing <- clip.open`, where `Owner` reads `card_ready`
and `mounted`.

### RecorderProofs

The theorems about `Recorder`; see section 6.

### Ring

`Ring` is the encoded-picture ring of `pipeline.c`. Pictures are numbered in the
order they are encoded; `ring[s]` is the number of the picture whose bits are in
slot `s`, or `Partial` from the moment an encode starts there. A failed or
abandoned encode leaves it `Partial`, and the next one uses the same slot.

| code | actions |
|---|---|
| `pipeline_tick`, in the 1 kHz interrupt | `PipelineTick`: the whole call, poll, publish, abort, start |
| `console_poll`: nothing, `:c`, `:j` | `ConsoleNothing`, `ConsoleToggle`, `ConsoleDump`, then `FreezeDone` (the spin), `DumpDone` |
| `pipeline_consume` | `Deliver` (the callbacks begin), `Release` (`tail++`), `FramesDone` |
| the rest of the pass | `PollDone` |

The interrupt cannot be interrupted by the loop, so one call is one step; it comes
between any two steps of the loop. The first call after a frame period ends ages an
encode in flight by one period; `Late` periods are the 50 ms after which it is
aborted.

### FrameQueue

The abstract promise of the ring: a bounded first-in first-out queue. `Ring!QueueKept`
is its specification with the pictures actually found in the slots from `tail` to
`head` for the queue: a slot written too early shows as a queue whose content
changed.

### Camera

`Camera` extends `Ring` by the pump of `usbuvc.c`. `pc` is where the loop is, `at`
where it is inside the pump:

| `at` | code | actions |
|---|---|---|
| `gate` | `usbuvc_on_frame` up to `uvc_ready` | `Gate` |
| (`pc` = `poll`) | `usbuvc_poll` up to `uvc_ready` | `Poll` |
| `ready` | `uvc_ready`: owed flush, stall, strikes | `Ready` |
| `giveup` | `uvc_ready` after its two log lines | `GiveUp` |
| `queue`, `write` | `uvc_queue` before and at `usbd_ep_start_write` | `SendFrame`, `Write` |

The interrupts come between any two of these: `Encoder` (pipeline_tick at the height
of that moment), `HostConfigures`, `HostOpens` (a commit, or a selection of the
streaming interface; both do the same), `HostCollects` (`uvc_in_done`), `HostResets`.
`flight` is the transfer in the endpoint: the picture whose slot it points to, and
whether it is a repeat, queued for an earlier session (`stale`), or orphaned by a
halt the host cleared. `frames_sent # stall_mark`, which is all the code asks of the
two, is `moved`. `FlushOutcomes` says whether a flush completes the transfer it
throws away: a comment of `usbuvc.c` says that it does, one of the driver that it
does not, so runs take either or both.

`usb_mode` is the recorder's USB_MODE as far as the pump can see it: it is entered
for good when a host is there, except that a toggle from the console or the flight
controller leaves it until the next `recorder_task`.

### Dcf

`Dcf` is `dcf.c` as `clip_start` drives it. `clips` and `dirs` are what is on the
card, names as pairs of directory and index; `dcf` is `dcf_t` with `dcf_ready`;
`lost` collects the clips a new file was opened over.

| code | actions |
|---|---|
| `clip_start` up to `f_open`, all well (a scan if `dcf_ready` is not set, the lazy directory, the name) | `NameOpened` |
| the scan, the name or the file refused | `ScanRefused`, `NameRefused`, `OpenRefused` |
| reset, and the host's or the reader's deletions | `PowerLost`, `ClipDeleted`, `DirDeleted` |

`dcf_boot_scan` reads two listings; `ShortListings` says whether a listing may be
cut short and still end without an error, as `fs_list_dir` does when
`f_readdir` fails. The card is never exchanged under power: inserting one resets the
board (`docs/HARDWARE-ERRATA.md:12`).

### FatFile, AviClip

`FatFile` is one FatFs file as `avi.c` uses it: the pointer, the size, the one buffer of a
sector (512 bytes, as `sdcard.c` sets every card to) with its dirty flag, and what has reached the card. Content is not bytes but
the few four-byte fields of the AVI header and how much of the rest is there.
Every access of the card can fail; `left` counts down to the one that does.

`AviClip` is `avi.c` over that file: operators, since each of its functions runs to
the end or to its first error. `wr`, `patch32`, `patch_header`, `avi_start`,
`avi_add`, `avi_refresh_header` and `avi_finalize` keep the names and the order of
the writes; the sticky `error` is `avi.error`. `HeaderTrue` and `Readable` say what a
reader makes of what is on the card: they are the properties' side, not the code's. A reader finds
the frames that the header counts, as far as they lie within the size in the
directory entry, which FatFs writes only in `f_sync`.

### CardFiles

`Dcf` and `AviClip` composed, as `recorder.c` composes them. An action is one call
from the recorder (`ClipStart`, `AddFrame`, `AddEmptyFrame`, `ClipStop`) with a fault
chosen beforehand: one access fails, all fail from there on, the card has no
room, or the power goes at that access, which leaves on the card what had reached it.
`PowerCut` and `UserDeletes` come between calls. `cur` is the open clip with
`avi_t`, the `FIL`, `frames_written` and `last_refresh_frame`; `archive` is what can be
read of the other clips.

### ClipArchive

What a recorder promises of a card: clips get new names, the readable part of a clip only
grows, only the user takes a clip away. `CardFiles!ClipsKept` is that
specification with `kept`, the frames that can be read of each clip from what is on
the card at that moment, were the power to go.

### UsbUpdate, MCUpdate

`UsbUpdate` composes three parties. `dfu` is the state machine the USB interrupt runs
(`usbdfu.c`), `burner` is `usbdfu_poll` in the main loop, down to the sectors of
`spinor.c`, `updater` is `dfuDownload` of the desktop's `dfu.ts`. `stage` is the RAM
the image is staged in, `nor` the slot in the flash.

| code | actions |
|---|---|
| `dfuDownload`: the look at the state, clear and abort, blocks, end, polls | `HostStarts`, `HostLooks`, `HostClears`, `HostAborts`, `HostSends`, `HostAcknowledges`, `HostEnds`, `HostPolls`, `HostLosesBoard`, `HostTimesOut`, `HostStops`, each with the board's answer in `dfu_class_handler` |
| `usbdfu_poll`, `spinor_erase`, `spinor_program`, the comparison | `BurnStarts`, `Erase`, `Program`, `Verify`, `ChipFails`, `Reboot` |
| outside | `BusReset`, `Unplug`, `Boot` |

An image is a number of blocks, and a block is the image and its place in it; that a
sector and a block have one size keeps the model small. `Mishaps` says which of the
bus, the power, the host program and the flash chip fail.

### Dlog

`dlog.c` and `dlog_core.c`. Two callers of `dlog_printf`, the main loop and an interrupt that comes
between any two of its steps, are each at one of three points:

| `calls[who].at` | code | actions |
|---|---|---|
| `no` to `put` | `dlog_ring_put`, with interrupts off (`dlog.c:104-107`) | `DlogPrintf` |
| `put` to `head` | `ring_sync` pushes the indices to DRAM, interrupts on (`:81`) | `PushIndices` |
| `head` to `no` | `ring_sync` pushes the bytes of the line (`:82-87`) | `PushLine` |

`dram` is the ring as the CPU sees it and what DRAM may have of it. `older` are the versions
of the indices since they were pushed last, any of which a cache line written back meanwhile may have
left there; `past` the units released since. `WarmReset` comes between any two steps. It picks one
of those versions, and makes stale (`Stale`) any bytes of the ring it likes among those of
lines whose call has not returned and those whose place a newer line has taken. The log answers for a
line from its put on, unless the board resets before the call returns (`Unreturned`); then nobody was told
that it was kept. `PowerCut` loses the ring.

`DlogPoll` takes the count of lost lines and, after the line that tells it, `DlogPollLooks` decides
to flush; `FlushFill` and `PutSector` are the two halves of `dlog_core_flush` between which the host
may write (`HostWrites`, `dlog_host_wrote`). `DlogPrepare`, `WipeSector`, `DlogActivate` are the
opening of the file at boot.

### Capture

The capture ring and what `pipeline_tick` takes from it. Time passes by rows (`Row`), and
`Tick` is the whole 1 kHz interrupt: watchdog, ARM row, DONE row, the picture
remembered, the encode that ends and the next one, the standard's follower.
There is at most one tick to a row, and nothing says how many rows pass without one: the USB interrupt
waits for the card (`src/src/usbmsc.c:207`, `:226`), for which the code itself counts 200 ms and more
(`:188-193`), and holds the ticks off for as many frames. The decoder then goes round the buffer it
holds again and again.
`marks` are the stamped rows not yet overwritten, the ring's only way of knowing where
the DMA is. `LastRow` is where a picture ends: at the DONE row, or, with 525 lines under PAL, below the
ARM row (461) and above the DONE row (575), as `capture.c:110-115` has it; such frames never complete, and
the watchdog restarts the ring until the follower has seen enough samples. Whether the input contradicts
`vid_std` is `tvd.other`, whether that is PAL `ring.pal`. The follower samples at every tick where the
code takes one of twenty. The bench's `capture_set_standard` runs in the main loop and is three steps
with ticks in between (`BenchResets`, `BenchStarts`, `BenchStamps`).

Three things are simpler than the code. A decoder that lost its lock finds it again only when the encode in
flight has ended (`Relock`): 3 ms against the frames it takes to lock. A picture
that waits for the encoder at the moment the pipeline is frozen, or an encode that times out, is
the module `Ring`'s. And the console's forced colour mode, which suspends the follower, is left out.

### SdCard

`sdcard_detect` and the sector transfers, one action per command, against a card with
the states of the SD specification. An exchange is either answered as the
card's state has it or, within `MaxLosses`, lost on the way there or back.

### RunCam

The framer of the flight controller's link, byte by byte with the real checksum, and
what its frames ask of the recorder, of which it sees whether it is active.

### Services, MCServices

Four of the modules above share no variable: `UsbUpdate`, `Dlog`, `SdCard`, `RunCam`.
`Services` puts them side by side, each running while the others are as they
booted, so that one run explores the union of the four state graphs and
not their product: an interleaving of two that share nothing reaches nothing
new. What they do share in the firmware, the time of the one CPU, is in each as the delays
it allows.

### Recording

The two ends of a recording, `Capture` and `CardFiles`, side by side in the same way: where the
pictures come from and where they go. Between them lies `Ring`.

### RingProofs, CameraProofs, CardFilesProofs, UsbUpdateProofs, CaptureProofs, SdCardProofs, ServicesProofs

The theorems about the modules they are named after, `CardFilesProofs` those about `Dcf` too;
`ServicesProofs` has those about `RunCam` and `Dlog`, and puts those of the four together. See section 6.

## 4. Runs

| run | asks | shows |
|---|---|---|
| `recorder_safety` | every interleaving of loop phases with pilot (TOGGLE, `:R`, `:A`, `:c`), card, flaky card, signal and host | clip, volume and owner in step; bounded loss; the user's stop sticks; `CardOwnership` implemented |
| `recorder_live` | fair loop and time, everything else free, `:M` and `:W` under an open clip included | the recorder recovers, a host is served, lost signals and dead paths close clips |
| `camera_ring` | every order of interrupt, loop, pump and host, encodes that fail, hang or succeed, console toggles and dumps, halts cleared over a transfer, flushes that complete it or do not | nothing a consumer or the console holds is written; the ring is a queue; every picture is consumed; a freeze returns; the pump goes on after an orphan |
| `camera_session` | re-opens and bus resets, a PAL stream with thinning, an input that changes standard, a recorder that leaves USB mode, console dumps, signal | no transfer is forgotten, old pictures only before the flush, every picture of the height offered |
| `recording` | clips over sessions, deletions and full numbers, every call with any access failing, the card dying or the power going at it, cards without room; a capture ring against a wedged decoder, 525 and 625 lines under either standard, ticks held off for any time | headers, index and sizes true at every instant; a bounded loss; no clip overwritten; `ClipArchive` implemented; the DMA stays off the picture being encoded; pictures come back after a bounded number of restarts |
| `services` | an update against resets, lost power, a crashing host and a failing flash; the log against failing writes, resets at any point of a call, an interrupt's own lines and a host; detects against lost exchanges and swaps; the framer against a mangled line | see the table below |
| `camera_repeat`, `camera_gone`, `camera_open`, `clips_listing`, `update_told`, `card_opcond` | sentences of docs and comments | each is refuted; see section 7 |

What `services` shows, part by part:

| part | property | in words |
|---|---|---|
| UsbUpdate | `BurntIsOneImage`, `FlashWaitsForImage` | the slot the board reboots into holds one image; until a whole one is staged the flash is left alone |
| | `RefusedOnlyIfReset`, `AcceptedIsBurnt` | an interrupted update does not spoil the next; an accepted image gets burnt |
| Dlog | `NothingVanishes`, `HostSpaceUntouched` | a line whose call returned is in the file or the ring, in order; the host's sectors are not written |
| SdCard | `DetectedAgrees`, `RedetectRecovers` | after a detect in peace both sides agree, and such a detect succeeds whatever came before |
| RunCam | `FramesAsSent` | a whole frame is dispatched with its last byte, whatever noise preceded it |

Bounds of `Recorder`. A clip of 1 or 3 frames before rollover, a refresh every 1 or 2 frames and
a ring of 1 or 2 slots are the smallest with a rollover between two refreshes, a
refresh between two rollovers, a full ring and a partly drained one. Timeouts of 1
or 2 ticks with a stall of 1 keep every order of "deadline passed" and "task ran"
that longer ones have, `LossClose` is longer than `StartStable` as in the code, and
`TimerWrap` is the least that `TimesOrdered` allows, so that the wrap does happen.
`exposed` needs no bound: that it stays below `RefreshEvery` is the property.

Bounds of `Camera`, whose runs are those of `Ring` too. `camera_ring` has two slots and three pictures:
the ring is full and empty, wraps, and every slot is used twice. One period until an encode is
late lets one be published within it or be abandoned after. `StallTicks`, `KeepAlive` and `MaxAge` of 1 are the least that
keep the order of their deadlines, two strikes the least with a first and a last
one. `MaxPass` = 1: one pass of the loop takes at most a frame period, which is what
USB mode, where the recorder writes nothing, allows; a longer pass fills the ring
further and makes the slot of a transfer the next to be written. `camera_session`
needs no wrap, only pictures of two heights and every order of the host's calls.
`camera_repeat` has the code's proportions: 40 slots, a repeat up to 20 pictures old and a stall of a
second, which is 30 pictures, are 8, 4 and 6. `camera_gone` has a flush that completes
the transfer and the code's three strikes.

Bounds of `Recording`, the files first. Two directories of two indices are the least with a next
directory, a next index and an end of both. The two JPEG lengths make a frame end
inside the first sector of the file, where the header is, and beyond it; an index of two
entries for clips of up to three frames is the smallest that overflows; ten
accesses are as many as any call makes, so every one of them fails in some behaviour. Sector and
header have their real sizes; the reserve of 2600 bytes holds a clip of three short or two mixed
pictures and no longer one, so both sides of it occur. `MaxSectors` bounds the sectors whose filling is
followed, and covers the longest clip.
Frames have three rows, of which the second is the ARM row: the least with a row before the ARM row and one after,
and with an encode of a row that `Margin` leaves time for. A watchdog of seven ticks is the least that
exceeds two frames, which a restart may take, as the code's 200 ms exceed 66; a second restart reprograms. A hysteresis of
fourteen samples is two deadlines, where the code's 600 ms are three: the watchdog restarts a ring
with 525 lines under PAL before the standard is changed, also in the very tick in which it is. One fault is enough
as they do not help each other. `Recording` may stop when the names have run out, so deadlock is not
checked.

Bounds of `Services`. Two images, one of which fills the slot of three blocks. A log of
three sectors of three units with lines of two straddles sectors and reaches the end of the
file; the ring of five units holds two lines and half of one, so that lines are refused, too. Two boots are the
first, which clears what it finds, and one that recovers the ring and continues the file, with a reset at any
step of two callers; the theorem has no bound. Two lost exchanges and two cards. Ten byte values: the header, the known
commands, an argument out of range, and checksums that complete frames. The run may stop
(a host that gives up, a log with nothing more to write, a dead board), so deadlock is
not checked; nor is it in `update_told`.

## 5. Fairness

`FairSpec` assumes weak fairness of `Proceed` and of `Tick` and nothing else. The
main loop has no exit and no unbounded wait (card transfers time out, the watchdog
resets the board after 6 s otherwise), so its next phase is always reached; time
passes. Nothing is assumed of the pilot, the flight controller, the card, the
signal or the host: the liveness properties name what they need of them
(`RecordsInTheEnd` that card and signal stay and the pilot's switch rests,
`LossClosesClip` that the signal stays away).

`FairRing` and the `FairSpec` of `Camera` assume the same: the loop goes on, and
frame periods keep ending, each with a call of `pipeline_tick` (or, in `Camera`, with
the pipeline off). Of the encoder nothing is assumed, an encode may hang. Of the host
nothing is either, except `HostReads` in `PumpGoesOn`, which also says that the stream
stays on, that something to send keeps coming and that the host stops re-opening it.
`MaxFrames` lets a behaviour run out of numbers, and then a failing encode or a
missing signal is what goes on for ever.

`UpdateFairness` is weak fairness of the burn, which is the main loop, and of the host
program, whose waits all have time-outs. Flash, bus and power have none.
`PicturesReturn` needs none: it is a bound in ticks, so a matter of safety.

## 6. Proofs

### Recorder

All for every value of the constants that satisfies the `ASSUME`s of `Recorder`.
The assumptions are what the code guarantees: positive counts, and deadlines
shorter than the timer's range.

* `TypeCorrect`: `Spec => []TypeOK`. The only counters that grow are saturated or
  bounded by the ring; the stamps stay below the wrap.
* `CardSafe`: without bench commands, `ClipOnMountedCard` and
  `FirmwareOffHostCard`. Neither is inductive: that no toggle starts a clip on the
  host's card needs `mounted` to be false whenever `card_ready` is true, and that
  in turn needs every mount to happen in NO_CARD, which a released card never
  returns to while a host is present at the task. `CardInv` adds these facts.
* `RefinesOwnership`: every step of `Recorder` is a step of `CardOwnership` or a
  stutter, using `CardInv` in both states.
* `ExposureBounded`: whatever is commanded. The strengthening `Covered` relates
  `exposed` to `unrefreshed`: pictures not yet described are at most those since
  the last refresh, unless a refresh failed, and then the sticky error admits no
  more.
* `StopSticks`: the action property, from the actions alone and `CardInv`.

`BenchOff` (no `:M`, no `:W`) is assumed where stated because the properties do
not hold otherwise (section 7).

### Ring

For every ring of two slots or more (`RingSizes`; the code has 40), every time-out and
every set of inputs.

* `RingTypeCorrect`: `RingSpec => []RingTypeOK`, by itself inductive.
* `SlotStays`, `DumpStays`: `SlotHeld` and `DumpIntact`. Neither is inductive.
  `RingInv` adds that an encode in flight has room (`RoomForEncode`), that every slot
  from tail to head holds its picture (`Filled`), that the newest picture is still in
  its slot after it was consumed (`NewestKept`, which needs two slots) and that no
  encode is in flight during a dump (`LoopHolds`). `SlotsDiffer`, that two numbers
  less than a ring apart have different slots, carries the arithmetic.
* `RefinesQueue`: under `RingInv` the content of the occupied slots is the numbers
  from tail to head - 1, and a step changes one end of them at most.

### Camera

For every value of its constants.

* `FlightsKnown`: `FlightAccounted`. The pump reads `busy` and `need_flush` and writes
  to the endpoint two steps later, with the host's interrupts in between; `FlightInv`
  says what each place of the pump still knows.
* `StaleInWindow`: from `StaleInv`, a transfer of an earlier session is there only
  while the flush is owed.
* `CameraKeepsRing`: `Spec => RingSpec`. What is proved of the ring so holds under
  the pump, its host and the modes of the recorder.
* `HostReadsHeightOffered`: `HeightAsOffered`, that a picture still in its slot while it is
  in the endpoint has the height that was negotiated. `HeightInv` follows the picture from the slot
  that `pipeline_consume` delivers, or that the keep-alive repeats, through the pump, across a
  commit that may come between any two steps.
That a transfer is never overwritten is not so: see `camera_repeat` in section 7.

### Dcf

For every range of directories and indices.

* `NamesByTheRules`: `Spec => DcfSpec`, every step of `CardFiles` is a step of `Dcf` or
  leaves it alone: what the muxer and the power do changes no name.
* `NamesAreNew`: without `ShortListings`, `NothingOverwritten`. `DcfInv` adds that
  every clip is in a directory that exists, and that after a scan no clip is in a later
  directory nor has the next index or one beyond it in this one (`IndexAhead`). `HighestIs`, that
  the highest of a bounded set exists, is what the scan rests on. The assumption is needed:
  `clips_listing` shows what happens otherwise.

### CardFiles

For every card, every fault at every access, every set of picture lengths and every size of index,
reserve and segment.

* `CardInvariant`: `CardInv`, the inductive invariant. A true header on the card is not
  inductive: the next write may push the sector buffer out, so `Truthful` asks it of the
  buffer too; the write of the header's four fields passes through states in which they disagree, but
  only in the buffer, since all four lie in the first sector and the write-back happens on a seek
  away from it (`Rewrites`, `Patching`); a failed access leaves FatFs's buffer with what was put in
  it, so an error of the file has to be one of the muxer, for good (`MuxInv`); and
  that the index is there when the flag is set needs the index written, and the buffer moved past
  the first sector, before the flag (`Whole`).
* `HeadersAlwaysTrue`, `EntriesLeadToChunks`, `CardTyped`: `HeadersTrue`,
  `IndexLeadsToChunks`, `CardTypeOK`, from `CardInv`. `SumsUp` and `BytesGrow` carry what
  `ChunkBytes` needs: sums of a prefix stay when chunks are appended.
* `CleanStopKeepsAll`: `CleanStopIsWhole`. `Going` follows a fault-free `avi_finalize` to a
  header that counts every frame and a directory entry with the final size. Without `ShortListings`, as
  for `NamesAreNew`: a later clip must not take the name.
* `CutCostsBounded`: `CutCostsAnInterval`, if `RefreshEvery >= 24`. The refresh leaves the new
  header in the sector buffer; it reaches the card when `patch_header` seeks back to an end
  beyond the first sector. 24 pictures of at least 12 bytes with their padding and chunk
  header lie beyond it whatever they are; the code refreshes every 30
  (`src/src/recorder.c:340`). `Interval` counts the pictures since the header in the buffer, with
  the one case in which the refresh itself failed; then the error sticks and the
  property claims nothing.
* `ClipsAreKept`: `ClipsKept`, without `ShortListings`: every step of `Next` is a step of
  `ClipArchive` on `kept`, or a stutter. `HeadersTrue` only says that what is readable is there;
  that it never gets less needs the order of the headers as well. `KeptInv`
  adds it to `CardInv` for the open clip: the header in the buffer counts no fewer frames than the
  one on the card, the directory entry is not ahead of the file (`Ahead`), and the
  pointer is past every chunk counted unless the file has failed (`AtEnd`), since
  clip_stop's `f_truncate` cuts there whatever `avi_finalize` returned. `Onward` is what each
  call of `avi.c` then does to a clip, at whichever access it stops; `patch_header` is
  the hard one, since a failed seek leaves the pointer at the header (`Stuck`) and only the
  sticky error of the file keeps `f_truncate` from cutting there.

### UsbUpdate

For every set of images and every slot, all mishaps allowed.

* `UpdateInvariant`: `UpdateInv` says that a host that sends and the board agree on
  what is staged, or the bus was reset under it (`InStep`); that what waits to be burnt is
  a whole image (`WholeWhenReady`), which neither a new download, nor an abort, nor a reset
  touches while it waits; that the sectors burnt so far are the staged ones
  (`BurnInStep`); and that a board that is away is known to its host (`GoneKnown`).
* `OneImageBurnt`, `NoUndeservedRefusal`, `FlashIsSafe`, `UpdateTypeCorrect` follow from
  it.

### Capture

`RolesApart`: for every frame length and deadline, `CaptureTypeOK`, the type invariant of the
ring, says also that the buffer being written, the one complete and the one handed out differ. Not
inductive: that the next buffer is not the one handed out needs that `done` trails `wr`, and `safe`
`done`, by exactly one place (`Trails`), which every restart has to keep or to void.

`EncoderUndisturbed`: `SourceLeftAlone`, from `CaptureConstants` alone, the geometry of the code: an encode
fits into what the ARM row leaves of a frame (3 ms of 6.6), the deadline is longer than two frames. Of the ticks nothing
is assumed. With the ticks held off the DMA rewrites the buffer it holds, and the stamps,
which are put anew only by a tick, no longer say which frame it is in; what keeps it off the encoder's
buffer is that only a tick hands it the next address, and that a tick which does so has found the ARM
row of `wr` erased. `SourceInv` says where the DMA may be (`Aimed`: in `wr` until the next buffer is armed; after a
lost lock still in the one before, before any stamp is overwritten; or in the next one), and that the encoder, which
reads the buffer two places behind `wr`, the one armed next, is done before (`InTime`): either nothing of
the new frame is stamped over, or the encoder started after the frame began and its time
is bounded by the row reached (`Early`), or the ARM row is over and what is left of the encode fits
into what is left of the frame (`Late`), which for 525 lines under PAL ends earlier (`ToEnd`). A restart under an encode (`fresh`) and
the console's stop (`Halted`) suspend parts of it; the encoder's next picture has to bring them back.

`PicturesComeBack`: `PicturesReturn`, for every frame length, deadline and hysteresis, also without any
assumption on the ticks. It counts restarts: ticks held off delay a picture but are not counted by the
watchdog either. With a signal of the set standard, one restart is enough and a second never comes before
a picture; after a fault or a command of the console it takes `Escalate`, the last of which
reprograms the decoder; 525 lines under PAL take two and one more for every `Wedge` of the samples that the follower
asks for, which in the code (600 ms of samples, a deadline of 200 ms) is four restarts at most. `PictureInv` says what is true after a
restart: the input contradicts the standard and the samples counted are `Wedge` for each restart
(`Odd`), or the decoder sticks and the streak counts the restarts (`Dead`), or a picture is on its way (`Coming`). The
last is `Settled`: a ring from whose address a frame comes about (`Sound`), with so few rows `Left`
until its next turn that the ticks they take stay below the deadline. A change of standard may come in the tick
of a restart or just before one, and that is where the two come from.

### SdCard

For every set of cards and any number of lost exchanges, if the driver asks an initialising card more
often than the card makes it wait (`Patient`: the code asks 1000 times,
`src/src/sdcard.c:66`, over some 1.3 s, which is what the specification grants a card).

* `SdInvariant`: `SdInv` says, for each command a detect in peace may stand before, what
  the card has been told by then (`Expected`): its state, its address and bus width,
  how often it has been asked; and that an identified card is one of those in the slot.
* `DetectedCardAgrees`: `DetectedAgrees`; `DetectSucceeds`: `RedetectRecovers`, from the same facts: each
  command of a detect in peace is one the card answers.

### RunCam

For every set of bytes the line may carry.

* `FramerInvariant`: `FramerInv`. That a frame is dispatched whatever came before it is not inductive: it
  rests on what `rcam_resync` leaves. The invariant says the buffer is the longest ending of what was heard
  that may still become a frame (`LongestOpen`). A byte that makes it no such beginning sends
  `rcam_resync` to the next header, and whatever it skips could not have become a frame. `FrameLens` decides it: a
  frame has at most four bytes, so the last four heard are enough to look at.
* `FramesDispatched`: `FramesAsSent`, from it. Of the checksum only that it is a function of the bytes is
  used.

### Dlog

For every size of the file, its sectors and the ring, every number of lines and of boots.

* `HostKeepsItsSpace`: `HostSpaceUntouched`. `HostInv` adds that once the space is the host's the file is
  abandoned, unless opening it failed (`dlog_core_host_wrote`, before the data is written), that an abandoned log is not
  activated again, and that no flush is under way in a log that is off, being cleared or
  failed. The write that was decided before the host came is the one that `MayWrite` stops.
* `DlogTyped`: `DlogTypeOK`, from `LogInv`: the indices are in the file, the buffer and the ring, the
  buffer of a flush that is about to write is not empty, and the end of the sector being filled is the
  beginning of what the ring still holds.
* `LogKeepsAll`: `NothingVanishes`, for any interleaving of two callers and a reset at any of their steps. The property says that what the log answers for is a subsequence of the
  file followed by the ring. That is not inductive: a reset makes everything depend on
  where the next boot's bisection lands, and a write that reaches the card but is reported failed puts units
  into the file that the ring still has. `Kept` says more. Always, what the log answers for is
  inside what the sectors *before the one the bisection finds* hold, followed by what is held:
  so a reset, which brings back an older version of the indices and stale bytes, loses nothing: every
  version DRAM may have begins no later than the tail pushed last and reaches beyond what the ring has
  released since (`DlogTypeOK`), what it misses at its end are lines whose calls have not returned, and what it has stale are
  those or units already in the file (`WithoutInside`). While the log works there is
  moreover a piece of the sector being filled, on the card and in the buffer in front of the
  units shared with the ring, such that the earlier sectors, that piece and what is held
  suffice (`Filling`), and that sector is not behind the one the bisection finds. While the file is
  being cleared, what is held suffices alone. The argument rests on lemmas about
  `FirstPad` (`FoundIsEdge`: it ends at padding, behind a sector that is none; `FoundLater`: writing more
  sectors never makes it end earlier), on subsequences
  (`InsideChain`, `InsideConcat`, `InsideCut`), on `FlattenSeq` (`FlattenAppend`, `FlattenShorter`) and on the
  first-come search by which the property is evaluated (`SearchFinds`), each by the least counterexample.

**Services.** `EachAlone`: a behaviour of the four side by side is, for each, one of its own specification, as
they share no variable. So what is proved of `UsbUpdate`, `SdCard`, `RunCam` and `Dlog`
holds of them together: `ServicesTyped`, and `ServicesSafe` with every property of the run `services`
that is not about liveness, for more tries of the detect than the card is busy for (`Patient`).

The theorems of Dcf are about its own specification; in `CardFiles` the same variables take the same steps.

### Only model-checked

Liveness: of the recorder, the ring, the pump and the update.

## 7. Where code and docs disagree

Six are runs:

* `camera_repeat`. `src/src/usbuvc.c:94-95`: a slot may be sent again until 20 frames have arrived, since
  "the ring holds 40; half of that leaves no doubt", and `:584-586`: what is being sent "cannot be
  overwritten under us". A repeat may start from a slot 19 pictures old (`:713`) and stay in the endpoint for the second
  of the stall detector, 30 pictures more: the encoder comes round before the flush. It takes a host
  that needs about 0.7 s for a picture.
* `camera_gone`. `src/src/usbuvc.c:555-557`: an advancing `frames_sent` means the host reads. If a flush
  completes the transfer, as `:108-109` and `:162-163` say, the pump's own flush advances it, every
  stall counts as the first and a host that has gone is never noticed. With the driver as its comment at
  `usb_dc_musb.c:669` describes it, no completion is raised and the host is noticed: TLC finds
  `HostGoneNoticed` to hold with `FlushOutcomes = {FALSE}`. One of the two comments is wrong.
* `camera_open`. `src/src/usbuvc.c:386`: a selected interface restarts the session. If the USB
  interrupt does so between the pump's decision to give up and its `streaming = 0`
  (`:567`), two log lines later, the new session is shut off.
* `clips_listing`. `src/src/dcf.h:39-41` has a listing return a negative number on an I/O error,
  and `src/tests/host/test_dcf.c:259-260` tests that the scan then gives up. `fs_list_dir`
  (`src/src/recorder.c:50`) leaves its loop on a failed `f_readdir` as at the end of the
  directory and returns 0: the scan misses clips and `f_open` with
  `FA_CREATE_ALWAYS` goes over one of them.
* `update_told`. `src/desktop/src/main/update/dfu.ts:276-277`: the board reaches
  MANIFEST_WAIT when it has erased, programmed and compared. `src/src/usbdfu.c:100` moves there
  at the second GETSTATUS, whatever the burn is doing, and
  `src/desktop/src/main/jobs/firmware.ts:60` then reports the firmware as written and verified.
* `card_opcond`. `src/src/sdcard.c:53-55`: a card's power-up wait is told in the OCR. An
  ACMD41 that is lost leaves the loop (`:90`) with the response of CMD55 for an OCR, and a
  high-capacity card is addressed in bytes from then on.

Others were met on the way and have no run of their own:

* `docs/PROTOCOL.md:45` promises about one second of stable lock before a
  recording starts. `t_signal_edge` (`src/src/recorder.c:240`) is stamped only while WAIT_SIGNAL with
  auto-record on looks at a missing signal, and while RECORDING looks at a present
  one; after any other state it is old, and a signal that has just come back starts
  a clip at once.
* `docs/PROTOCOL.md:46` promises that only a loss of five seconds or more ends a
  clip. `clip_start` leaves the stamp alone, so a clip begun by the pilot without a
  signal is closed by the next pass (`src/src/recorder.c:266`).
* `docs/PROTOCOL.md:46-47`: empty frames preserve the timing of short dropouts.
  After a card stall that ends in a dropout the clip gets both the empty frames
  (`src/src/recorder.c:260`) and the queued pictures.
* `docs/ARCHITECTURE.md:114-115`: FatFs never runs in reader mode. The console's
  `:M` (`src/src/console.c:64`) attaches it in every state.
* `src/src/capture.c:93-97` and `:257`: the watchdog is for a ring that is wedged. With 525 lines under PAL
  it restarts a ring that is not, every 200 ms and with a reprogramming at the third, until the standard
  is followed after about 600 ms: no frame can complete (`:110-115`). `PicturesReturn` counts them in.
* `src/src/dcf.h:13-14`: an index is never reused, even after deletions. It is when the
  clip with the highest one is deleted and the board reboots: the card is the authority. No
  two clips of one card share a name all the same, which is what `NothingOverwritten` asks.
* `src/src/avi.h:10-12`: a power cut costs at most a refresh interval. Not when `f_expand` failed
  (`src/src/recorder.c:135`), as the directory entry then keeps its size until the next `f_sync`;
  `CutCostsAnInterval` is about a clip within that size.
* `src/src/recorder.c:63-64`: 200 MB cover a segment of five minutes "with margin". At the
  25.5 KB a picture that `src/src/usbuvc.h:60` measured, its 9000 pictures are 230 MB. The
  pictures beyond the reserve lie past the size in the directory entry until `clip_stop`: a power cut
  loses them, about 25 s.
* `src/src/dlog.c:300`: lines lost are reported "once there is room to say it". The
  count is zeroed before the report is put, and a report that finds no room counts as one
  line.
* `src/src/dlog_core.c:78`: the file's content runs "without a gap". A power cut while the file is
  being cleared leaves one, and the bisection may then end in either part.
* `src/src/usbdfu.c:175`: after a failed burn `done` stays set, so a second image would be
  accepted and never burnt. The desktop does not come to that, since it leaves the board in
  MANIFEST_WAIT, which only a power cycle ends.

## 8. Not modelled

The list of components in `PROJECT.json` gives each part's reason.

* The desktop's job queue, device watcher, library and AVI parser. One event loop, one job at
  a time, files replaced whole; left behind the firmware, whose failures cost recordings. Of the
  desktop only the DFU download is modelled, as the other half of a protocol.
* The encoder, the PHY, clocks, display patterns and the bench's encoder tests: straight-line register
  programming. The encoder's busy, done and late are in `Ring`.
* Vendored code: FatFs, CherryUSB and the SoC headers appear as the firmware uses them,
  FatFs's file in `FatFile`, the endpoint in `Camera`.

Of the modelled parts: the payload header and frame id of a UVC transfer, the
negotiation, which has one answer, and the bench's fake PAL; the wrap of the ring's
32-bit counters, 4.5 years away, at which the slot number would jump because 40 does
not divide 2^32; MMC cards and the CSD; time stamps and statistics of the log; the
reply to GET_DEVICE_INFO; `avi_add_frame`, which the firmware does not call.
