# Verification project for mediaio

TLA+ models of the `mediaio` workspace, the TLC runs that check them and the
theorems TLAPS proves about them. Source paths below are relative to the
repository root; `state.rs`, `video.rs`, `audio.rs` and `dispatch.rs` are those of
`mediadecode-webcodecs/src`.

## 1. The system

`mediaio` is a family of Rust crates for reading, decoding, encoding and editing
media. A vocabulary crate states types and traits; backends (FFmpeg through its C
libraries, the browser's WebCodecs through JavaScript) implement them.

### Components

| Component | State | Operations | Interacts with |
|---|---|---|---|
| **Push rhythm** (`mediaspine/src/rhythm.rs`, `mediadecode/src/decoder.rs`, `future/`) | none: `Sent`, `Received` and the traits fix what a session may answer | `send_packet`, `receive_frame`, `send_eof`, `flush` | implemented by every decoder, the resampler and the encoders |
| **WebCodecs shared state** (`state.rs`) | queue of decoded frames, side map of submissions, counters of running copies and bytes, reorder buffer, epoch and id floor, first fatal error, two wakers | push/pop, insert/remove record, `record_close`, `bump_epoch`, `deliver_pending_push`, wakes | borrowed in turn by the decoder's methods, three JS callbacks and copy tasks |
| **WebCodecs video decoder** (`video.rs`) | the JS decoder, `eof`, callback slots | async `send_packet`, `receive_frame`, `send_eof`, `flush`, `Drop`; output, error and dequeue callbacks; one spawned copy task per frame | the browser, shared state, dispatch |
| **WebCodecs audio decoder** (`audio.rs`) | as video, with a flag for codecs that rebase timestamps | as video; `flush` builds a new JS decoder | same |
| **Callback dispatch** (`dispatch.rs`) | slot map of handlers | allocate, free, take-and-put dispatch | decoders, JS |
| **Hardware decoder and probe** (`mediadecode-ffmpeg/src/decoder/mod.rs`) | active backend, remaining and failed ones, packets buffered since open, frames pending from replay | `send_packet`, `send_eof`, `receive_frame`, `flush`, advance to the next backend with replay | libavcodec, `FfmpegVideoStreamDecoder` |
| **FFmpeg video stream decoder** (`mediadecode-ffmpeg/src/video/mod.rs`) | decode path, hardware or software decoder, pictures decoded by a replay, scratch with a parked picture, end-of-stream latch | the rhythm, one fallback to software with replay | hardware decoder, libavcodec |
| **VideoToolbox scaling** (`mediadecode-ffmpeg/src/vtscale/`) | the size asked for, whether it was honoured, a cached transfer session and pool with their owner thread | request, capability word, the stage before the download | hardware decoder, video stream decoder, macOS |
| **FFmpeg audio, subtitle, image decoders** (`audio.rs`, `subtitle.rs`, `image.rs`) | codec context, eof latch, scratch with a parked frame or cue | the rhythm; one-shot image decode | libavcodec |
| **FFmpeg demuxer** (`mediadecode-ffmpeg/src/demuxer.rs`, `mediaio-ffmpeg/src/measured.rs`) | format context, caller's reader, attachment queue, parked packet, end-of-file latch, measured ends | open over a reader, `next_packet`, `seek` | libavformat, reader guard |
| **Reader guard** (`mediaio-ffmpeg/src/reader_guard.rs`) | captured panic | read/seek callbacks | demuxer |
| **Tickets and limits** (`mediaio-ffmpeg/src/ticket.rs`, `limits.rs`, …) | atomic byte charges, refcounted carriers | take, clone, rebuild, drop | everything that hands out buffers, on any thread |
| **Resampler** (`mediaio-ffmpeg/src/resampler.rs`) | swr context, anchor, running output position, eof | `send_frame`, `receive_frame`, `send_eof`, `flush` | libswresample |
| **Encoder and muxer contracts** (`mediaencode/src/encoder.rs`, `mux.rs`) | of the implementor | encode rhythm, `check_decode_order`, mux stages | encoders, muxers to come |
| **Boundary conversions** (`mediaio-ffmpeg/src/boundary.rs`, `convert/`, `extras.rs`, `channel_layout.rs`, `pixdesc/`) | none | enum, side-data and layout conversion | all FFmpeg crates |
| **Timeline** (`mediaio-timeline/src`) | an immutable edit list | validate, layout, diff, OTIO import/export | none |

### What is hard here

* **Interleaving on one JS thread.** A decoder's futures, three callbacks and any
  number of copy tasks share one `RefCell`; each runs from one `await` to the next.
  What was read before an `await` (epoch, closed flag, budgets) is stale after it.
* **Order.** `copyTo` promises settle in any order; frames must leave in the
  browser's output order, without a frame of an earlier generation.
* **Cancellation.** Any of the caller's futures can be dropped while it waits;
  `send_eof` then leaves a browser flush nobody waits for.
* **Bounded buffers without a bound on the producer.** The codec holds back chunks
  for reordering that no admission count sees and releases them in a burst.
* **Failure with recovery.** Every fatal path must stop the browser decoder, keep
  the first error, wake both waiters and leave something `flush` can reopen; in the
  FFmpeg decoders a failed backend must be replaced without losing packets.
* **Memory of the other side.** Buffers FFmpeg fills are lent, copied and referenced
  across two lanes, with padding, planes and crops whose lengths come from two numbers.
* **Untrusted shapes.** Containers and frames declare sizes; each ceiling is asked before
  anything is paid, and the same question is asked again where the row is built.
* **Liveness.** Two wakers, one caller, events that can fire before parking.

`PROJECT.json` lists each hazard at its line with the properties that cover it.

### What makes each component correct

* *WebCodecs decoder*: output order, no frame across a flush, honest counters,
  byte budget, no lost wakeup, `Ended` only when nothing is left, closed means
  stopped, only `flush` reopens and reopens fresh, every call returns.
* *Hardware probe*: the packets given back when all backends fail are exactly the
  ones accepted; the installed backend has been fed exactly that history; frames of
  two backends are never mixed; each backend is tried once; caps hold.
* *FFmpeg video decoder*: the fallback neither repeats nor skips a frame, is taken
  whole or not at all, and `MustDrain` keeps its promise across it.
* *Demuxer*: the caller is given the file, nothing lost or twice; a measured duration
  is claimed only after a whole walk; latches are for good; what an open refuses it has
  not paid for, and the fault named is the nearest one.
* *Scaling*: the capability word can be acted on in both directions.
* *Resampler*: a gap-free output timeline through the tail. *Muxer*: decode order per track.
* *Carriers*: lent bytes are written by nobody, a decoder reads only what was written for
  it, a buffer lives exactly as long as somebody holds it.
* *Conversions*: a frame exposes what its source wrote, all of it and nothing else.
* *Dispatch*: no handler twice at once, none leaked, none reached by another's callback.

## 2. Modules

A component has a module, an `MC` module that gives it small constants, and a `Proofs`
module where it has theorems. `LibavDecoderProofs` is shared, `DemuxProofs` is about both
demuxer modules, `WebCodecsAudioProofs` about the audio decoder and the callback slots,
`BoundaryProofs` about the resampler, the scaled output and the payload carriers.

| Module | Extends | Implements |
|---|---|---|
| `WebCodecsVideo`, `WebCodecsAudio` | `WebCodecsState`, `BrowserDecoder` (external) | `PushRhythm` |
| `HwProbe` | `LibavDecoder` (external) | `RescueContract` |
| `FfmpegVideoStream` | `LibavDecoder` | `PushRhythm` |
| `SoftwareDecoders` | `LibavDecoder`, `FrameConversion` | `PushRhythm` |
| `DispatchSlots`, `DemuxOpen`, `DemuxSession`, `PayloadCarriers`, `ScaledOutput`, `Resampler` | nothing of the project | |

Who meets whom without sharing a module: `DispatchSlots` is what the two WebCodecs
decoders build their callbacks from (`slotFloor` in `WebCodecsAudio` is a freed slot);
`DemuxOpen` ends where `DemuxSession` begins, with the attachment queue of the table;
`PayloadCarriers` is the boundary packets and planes cross in every FFmpeg component;
`ScaledOutput` stands in front of the download of `HwProbe`'s frames.

### WebCodecs

* **WebCodecsState** – the variables of `Inner` and `SharedState` and one operator
  per method (`RecordClose`, `BumpEpoch`, `DeliverPendingPush`, `WakeAll`, …). The
  reorder buffer's drain loop is `DrainEnd`: the first sequence not present, from
  the cursor on; `Drained` is the frames it hands over, in order. Payloads are
  reduced to an id and a byte size. It is the part audio and video share.
* **BrowserDecoder** – external: what the adapter relies on in a `VideoDecoder`.
  Chunks wait in `inputQ` (which `decodeQueueSize` counts), are `held` by the codec
  (at most `CodecDepth`, in any order out), and come out as `outputs`, callbacks
  that run later whatever is called meanwhile. A chunk gives one frame, none or
  two. `reset()` and `close()` empty the codec and reject a pending flush.
* **WebCodecsVideo** – the decoder. One step is one turn of the JS thread: a poll
  of the caller's future, a callback, a copy task from one await to the next, a
  move of the browser. `client` is the method the caller awaits (`&mut self`
  allows one); a future may be dropped in any parked state. A task of a copy is a
  record in `copies`, `spawned` until its first poll and `copying` until the
  promise settles. `admitted` and `delivered` are history variables: ids in the
  order of the output callbacks, and as handed to the caller, per generation.
* **PushRhythm** – the abstract session: a set of packets fed and not answered,
  the end-of-stream latch, the fault latch, and which answers each state allows.
  Packets may turn out to decode to nothing at any time. Four decoders implement it:
  both of WebCodecs, `FfmpegVideoStream`, and the pushed roads of `SoftwareDecoders`.
  `WebCodecsVideo` maps onto it with `FedIds` (chunks with a record, copies, parked
  pushes and queued frames of the current generation), `eof` and `IsClosed`.
* **MCWebCodecsVideo** – instantiates the decoder for TLC.
* **WebCodecsVideoProofs** – lemmas and theorems about the video decoder.

Where several lines of code are one step: the code between two awaits runs without
interleaving, so a whole callback, or a poll from entry to the next await or
return, is one action. `FatalClose` is `record_close` followed by the close hook,
the order at every adapter-internal close; a wake only schedules the caller's task.

Modelling decisions worth knowing:

* A parked future may be polled at any time (executors may poll spuriously);
  fairness requires a poll only after its waker has fired.
* A parked producer looks at the byte budget only when it leaves its wait because
  it is no longer busy, or the queue is full, or the decoder closed, as in
  `await_decode_room`: `SendRuns` is that condition.
* `send_eof` may answer `Accepted` for a promise that resolved before an error
  callback ran but was polled after it: the code does not look at the closed flag
  again, and the next call reports the fault. The model and `PushRhythm` keep that.
* The drop path of `VideoCopyAdmission` (a panic while spawning) is left out: the
  crate targets wasm, where a panic aborts; so `PendingPush::Skipped` never occurs.
* Ids start at 0 instead of `BASE_SUBMISSION_ID`; the offset exists for audio
  timestamps and no comparison of the video decoder depends on it.
* `u64` counters are natural numbers: `saturating_sub` is `SatSub` and
  `CountersHonest` shows that it never saturates.

### The hardware probe

`decoder/mod.rs` below is that of `mediadecode-ffmpeg/src`.

* **LibavDecoder** – external: a libavcodec context and the state its callbacks
  write. It takes packets until it holds `Depth` pictures, then asks to be drained;
  it yields them in order, loses one with an errno, or goes on without one. A
  callback that refuses a surface or a buffer leaves a `latch` and no reason.
  What can go wrong is offered in every state, so the properties hold for any
  backend that keeps the send/receive protocol.
* **HwProbe** – `VideoDecoder` as `open_probing` leaves it. The methods take
  `&mut self`, so there is one call at a time: `call` is the method, `stage` where
  it is, and a step is one question to libavcodec with the code up to the next.

  | State | Code | | Actions | Code |
  |---|---|---|---|---|
  | `dec` | `state` with its `CallbackState` | | `SendUnrecordable`, `SendAccepted` | `send_av_packet`, its pre-flight |
  | `probing`, `attempts`, `remaining`, `buffered`, `bufferedBytes` | `probe` | | `EndAccepted`, `Flush` | `send_eof`, `flush` |
  | `pending`, `eofSent` | `pending_frames`, `eof_sent` | | `ReceivePending`, `NothingPending`, `ReceiveProduced`, `ReceiveTooLarge` | `try_pop_pending`, `receive_frame` |
  | `cand`, `replayed`, `localPending` | locals of `advance_probe_with` | | `CodecAnswers`, `CandidateFails` | `hw_receive`, `hw_send`, `hw_failure`, `hw_route` |
  | `accepted`, `delivered`, `proven`, `handedBack`, `answer` | what the caller has seen | | `Exhausted` … `Commit` | `advance_probe_with`, `drain_into_pending` |

  The funnel is `HwExit` (which refusal takes the place of the errno) and
  `Collected` (reading consumes it); a failing candidate is funnelled a second time
  in `advance_probe_with`, as in the code. A frame is `[by, of]`: the backend that
  decoded it and the packet it came from. An attempt carries its reason and, as
  history, whether its surface had been refused. `forfeited` and `unallocated` are
  history as well, of the backend installed: what its queue held when it failed, and
  how often its replacement was refused a frame. No step depends on the first, and
  the second is only met by its bound.
* **RescueContract** – what the caller is promised: packets are taken, and either
  one backend shows frames for them, in order, or before any frame was shown all of
  them come back. `HwProbe` maps onto it with its history variables.
* **MCHwProbe**, **HwProbeProofs** – instances for TLC; lemmas and theorems.

Modelling decisions worth knowing:

* After `AllBackendsFailed` the caller goes on in software and does not call the
  session again (`stage = "released"`): `FfmpegVideoStreamDecoder` drops it.
* A packet over the side-data cap, or one that cannot be copied, may turn up at any
  time: `SendUnrecordable` needs no more than a running probe.
* A drained frame over the byte cap, of unknown size, or that will not download is
  one choice of `ReplayErrors`; the cap on the number of frames is exact.
* `open` with an explicit backend is the session after its probe collapsed.
* The scaled-output stage falls back to the full-size frame within one step; it is
  `ScaledOutput`'s.

### The video stream decoder

`video/mod.rs` below is that of `mediadecode-ffmpeg/src`.

* **FfmpegVideoStream** – `CarrierVideoStreamDecoder`: the session the caller has.
  The methods take `&mut self`; `call` is the one that runs and `stage` where it is:
  `front` (where the next picture is taken from), `codec` (a question to the decoder
  in use), `open`, `replay` and `drain` (`fall_back_to_sw`), `committed` (the rest of
  a `send_eof` that fell back). `dec` is the decoder in `state`, hardware or software
  by its backend; `sw`, `replayed`, `attempts` and `local` are locals of the fallback.

  | Actions | Code |
  |---|---|
  | `SendPacket`, `SendEof` (the two gates), `ReceiveFrame`, `Flush` | heads of the four methods |
  | `DeliverReplayed`, `DeliverParked`, `AskDecoder` | `receive_frame_impl` up to its loop |
  | `PacketAccepted`, `EndAccepted`, `CodecAnswers`, `Produced`, `PacketUnbuilt` | the question and its answer, `deliver_frame`, `software_send`, `software_receive` |
  | `HwAdvances`, `HwExhausted` | what the `HwInner` seam does before it answers |
  | `SoftwareUnopened` … `Commit`, `EndForwarded` | `fall_back_to_sw`, `drain_into` |

* The hardware decoder is what `HwProbe` shows of it: one decoder with `trial` while
  its probe runs, whose history is what it has been fed, which may be exchanged for a
  candidate that owes the pictures of that history (`HwAdvances`), and which ends the
  trial with its first picture or by failing (`HwExhausted`). The frames a candidate's
  replay queues are inside it here, and what it gives up silently in that replay is
  `HwProbe`'s, as is the call that ends there for want of memory (*A failed allocation*
  in section 3): for the stream, pictures lost that way are the hardware's to answer for.
* **MCVideoStream**, **FfmpegVideoStreamProofs** – instances for TLC; lemmas and
  theorems. **LibavDecoderProofs** holds the lemmas about a decoder's answers that
  both proofs rest on.

Modelling decisions worth knowing:

* A conversion has three ends: delivered, failed for want of memory (the picture
  stays where it is), impossible (the picture is given up, `discarded`).
* A failed open leaves no session, so `Init` has the successful ones; under
  `DecodePath::Auto` that includes the software decoder opened at once.
* `sw` and its locals have a fixed value outside a fallback.
* After `AllBackendsFailed` or `FallbackFailed` the caller may go on with the same
  session, as the tests do: the model lets it.
* `request_scaled_output` configures the hardware seam and touches no state of this
  model; it is `ScaledOutput`'s.

### The WebCodecs audio decoder and the callback slots

* **WebCodecsAudio** – `audio.rs` over the same state and browser. It differs from the
  video decoder where the code does: a codec of the PCM family gives outputs without an
  id, so the oldest record is taken and the sample counts must agree (`rebases`);
  `flush` builds another browser decoder, so outputs of the old one find no handler
  (`slotFloor`); a copy runs from its first poll to its end (`tasks`, in the order the
  executor keeps), so there is no reorder buffer. `admitted` pairs each output with the
  record it was given.
* **DispatchSlots** – `dispatch.rs`: the slot maps (one map, as no id is in both), ids
  that are never reused, the handler taken out of its slot while it runs, and the
  decoders that allocate and free: `Open`, `OpenFails`, `Rebuilds`, `RebuildFails`,
  `DropDecoder`, each also from inside a running handler. `trampolines` is everything the
  browser was ever handed; any of them may fire at any time (`Dispatch`, `Orphan`).

### The demuxer

`demuxer.rs` is that of `mediadecode-ffmpeg/src`.

* **DemuxOpen** – `open_reader_with_impl` over the guarded reader. Three parts, as in
  the code: libavformat probes through `GuardedReader` (`Reads`, `ReadRefused`,
  `ReadPanics`); the container is admitted, chapters then streams, each row in five
  stages (`AdmitChapters`, `AdmitParameters`, `AdmitText`, `AdmitPayload`); it is built,
  the same questions asked again between allocations (`Build…`). A row is a record of
  the facts judged; sizes are small numbers around small ceilings. A check is a list of
  named faults in the order the code asks, and the first that holds is the verdict.
* **DemuxSession** – `next_packet`, `seek` and `Measured`. The file is an immutable
  sequence of items (packets of every fate, damage libavformat skips, an error it
  repeats). A call of `next_packet` enters the loop (`PullEnter`), passes one packet per
  step (`Turn`) and leaves with an answer. `start`, `carried`, `delivered` and `handed`
  are history: where the last seek left the reader and what came out since.
* What the reader guard latches in an open session is `panicked`: every later call
  answers with it.

### The decoders without hardware, and the conversions

* **SoftwareDecoders** – the sessions of `audio.rs` and `subtitle.rs` and the one-shot
  `image.rs` of `mediadecode-ffmpeg/src` over `LibavDecoder`. They disagree on purpose:
  audio leaves every refusal of a packet to libavcodec, subtitles decode inside
  `send_packet` and so make the refusals themselves, an image is one call and must
  leave no frame behind. What the scratch holds is `parked` with its `source`, one of
  `Sources[road]`; its conversion is what `FrameConversion` makes of it.
* **FrameConversion** – `mediaio-ffmpeg/src/convert/mod.rs` for stills, audio frames and
  subtitles, as operators. A conversion is a plan: the steps of the code in their
  order, each a fact judged, an allocation asked for or something handed over. It ends
  at the first fault that holds or at the allocation that is refused (any one may be);
  `Conversions(s)` is every end of source `s`. Bytes are addresses, so that what is exposed
  can be compared with what the producer wrote.

Modelling decisions worth knowing: a ceiling is a small number that sources lie on both
sides of; on which lane the bytes are held is `PayloadCarriers`' matter, both lanes
expose the same ones; allocations of tables and strings cost nothing, only that they
may fail; 64-bit products of two 32-bit sizes cannot overflow, and the sums of a crop,
which can, wrap at `Ceiling.size`.

### The payload boundary

* **PayloadCarriers** – `boundary.rs`, `buffer.rs`, `carrier.rs`, `view.rs` of
  `mediaio-ffmpeg/src` and the reservations of the resampler. `mem` is the live buffers
  with their reference counts, `hand` the references held outside a call, by handle, `call`
  the call in progress, followed step by step: what it reads and what it makes.
  References are an owner's packet, a record of the probe, a carrier, a judged source,
  a packet built over a carrier, a decoder's. Between the steps other threads clone,
  write and drop what they hold.

Modelling decisions worth knowing: one call at a time, and a source lent to a
conversion is not touched by others meanwhile (it is borrowed); the five kinds of
packet have one shape; libavformat, which may keep a reference of a packet it queued,
writes through it between calls; bytes are a flag, whether they still stand; a frame
pool reuses a buffer only when nothing refers to it; a file packet may come without
padding, so that its extent matters.

### The scaled output

* **ScaledOutput** – `vtscale/videotoolbox.rs` and what `decoder/mod.rs` and
  `video/mod.rs` do around it. `request`, `unhonored` and `cache` are the stage; `at`
  follows one picture from the decoder (`Decodes`) through the stage (`StandsAside`,
  `AlreadyFits`, `CannotScale`, `ScalingFails`, `Scales`), the download and the scratch
  to the caller. `asked` and `told` are what the caller knows, `mixed` whether it ever
  met a picture of another size than promised.

Modelling decisions worth knowing: VideoToolbox calls may fail at will; whether a
surface is readable at all (its extent, crop and side data) is one flag; `elsewhere.rs`
is the road `"elsewhere"`; a commit of the probe with frames queued, and the `retire` it
calls (`decoder/mod.rs:2020`), cannot be reached on the one platform that has the
stage, whose probe order has a single backend, and are left out.

### The resampler

* **Resampler** – `mediaio-ffmpeg/src/resampler.rs` between two rates. swr is external:
  it has `taken` and `given` samples and gives any number the ratio allows. Every early
  return of the four methods is an action (`SendRefused`, `TailResidue`, …). Timestamps
  are counted: the first one anchors `nextPts`, everything after advances it.

## 3. Runs

| Run | Question | Bounds |
|---|---|---|
| `video_order` | the stream leaves in order and whole, accounts and caps, reorder progress, stop on close, reopening; implements `PushRhythm`; every call returns | 3 chunks over two generations, 2 in the pipeline, codec depth 2, soft cap 1; packets of 2 bytes and one of 1 against caps of 2 and 3, frames of 1 and 3 bytes against a budget of 6 |
| `audio` | outputs take their own packet's record and leave in order, the accounts; implements `PushRhythm`; every call returns | 3 chunks over two generations, 2 in the pipeline, one over its cap, one empty, two of one size; outputs of 1 or 2 bytes against a budget of 5; both codec families |
| `dispatch` | slots owned, handlers apart, freed ones silent | an audio and a video decoder, handlers nested twice, 12 ids (four builds) |
| `probe` | history, frames, answers, the returned packets; implements `RescueContract`; every call returns | 3 backends, depth 1 and 2, 4 packets, three of which fill a history of 3 packets or 3 bytes and one is over it alone, 1 frame pending, both refusals, a refused allocation for each backend installed |
| `stream` | pictures across the fallback, end of stream, returned packets; implements `PushRhythm`; every call returns | all four paths, a spare backend, software deeper than hardware, 4 packets, 3 replayed pictures, 2 attempts |
| `stream_retry` | a documented claim: a retry after a failed fallback | `Auto` alone, 3 packets |
| `demux_open` | who is blamed, nothing paid for what is refused, what an open session holds | all pairs of 20 streams at, over and under every ceiling, and 7 chapter tables; a probe budget of 3 bytes against buffers of 4 |
| `demux_walk` | delivery, measured figures, latches; a caller that keeps pulling ends | all files of two items out of 11 kinds and of three out of 5, two tracks, an attachment, 2 seeks, 1 refused allocation |
| `software` | each frame once and in its place, what is carried is what was written, the rhythm | 5 packets, a decoder of depth 3, 21 stills, 17 audio frames and 13 cues on both sides of every ceiling and fault, any allocation refused |
| `payload` | lent bytes stand, decoders stay inside, counts are exact | 3 buffers, 3 handles outside the call (symmetric: which one holds a reference makes no difference), padding 1, budget 2 |
| `resampler` | one timeline of every sample, a drain that ends | rate 2 to 3, frames of 0 to 2 samples, 4 samples taken, ceilings a tail can meet, 1 fault |
| `scaled` | the word can be acted on; scaled in the right place and shape | two stream shapes, four sizes, three ratios, two formats, two threads |

`CHECK_DEADLOCK FALSE` is set where the system may stop: a caller that stops calling or
drops its decoder (`video_order`, `audio`), no decoder left to open for want of ids
(`dispatch`), a session that handed its packets back (`probe`). The other runs check
that there is no deadlock.

Bounds are constants used in one guard each and named as bounds where they are
declared. Why they are enough:

* *WebCodecs*. Three chunks with a codec that may double or swallow each give two
  copies finishing out of order behind a third, a parked push surviving a close, a stale
  copy meeting a fresh one, and a burst at every limit of 1 or 2. Sizes differ so that an
  account settled with another packet's size shows. Audio has no reorder buffer;
  an empty chunk between two of one size, each possibly split, confuses a match by order.
* *Dispatch*. One decoder is rebuilt inside another's handler, and its freed ids still
  fire: two builds of each decoder are enough for it, nesting of two for reentrance.
* *Probe*. Three backends make a chain of two replays, the second after the first had
  committed. A backend of depth 1 is drained in the middle of any replay, one of depth 2
  may not be, so a replay commits with a frame queued, with none, or hits the cap.
  A refused allocation lets the caller ask again, and the log grow, without end:
  `MaxUnallocated` bounds how often while one backend is installed. With 1 a backend
  that was kept this way, with a queue lost or none, is met by every call, goes on,
  commits, or fails again and is replaced. A history of three is what it takes to lose a
  frame and be given another: of two packets one is queued, and the other, when it is
  still inside, has filled the backend, which then asks to be drained and cannot fail.
* *Stream*. With software deeper than hardware a commit leaves pictures inside the new
  decoder behind those replayed, and a decoder that is full when the packet in hand
  reaches it. Two attempts stand for 16: the count matters only where it ends the loop.
* *Demuxer*. Every pair of rows meets (the first spends a budget the second is judged
  by). Three items with a seek reach every order of parking, passing and breaking a walk.
* *Software*. Five packets fill a decoder of three, park one and leave one to refuse.
* *Payload*. An alias needs two references to one buffer and a third to be handed
  back; three buffers are a source, its copy and a foreign one.
* *Scaled*. One stream shape exceeds a size the other does not; a ratio overflows.

### Fairness

`FairSpec` of the WebCodecs decoders assumes weak fairness of: queued callbacks, dequeue
events and copy tasks (the JS event loop runs every task; `copyTo` promises settle), the
codec taking chunks while it has room and emitting when it is full or being flushed, the
flush promise settling, and a poll of a parked future *after its waker fired*. Nothing is
assumed of the caller: it need not make another call. The codec need not emit while it
has room; that is why `receive_frame` must not wait for held chunks.

For the probe and the stream, `FairSpec` is weak fairness of `CallStep`: a synchronous
call that has begun runs on. `CallsReturn` then says that its loops end: each replay
consumes the history, each drain empties the candidate or hits the cap, each failure
shortens the list; the attempts bound a replay against a decoder that asks to be drained
and gives nothing.

`DemuxSession` assumes that a call runs on and that the caller keeps pulling; seeks,
allocations and panics are not owed. `Resampler` assumes that the caller keeps draining.
Both properties are about exactly that caller. The other modules have no liveness: their
calls do not loop, or are followed one step each.

### A disagreement with a run

After a fallback that failed, `send_eof` is documented to be as if it had not been
called, and a test expects a second one to drive the fallback again. The session's own
fields are restored; the hardware decoder's are not: its probe was taken out to return
the packets. Asked again it is a committed decoder, whose failure is answered as that
call's own (`stream_retry`). No picture can be missed by this unknowingly: the caller
holds every packet (`FallbackAllOrNothing`), and `NothingLost` accounts for the rest.

### Disagreements seen without a run

Read off the code while modelling it; the models follow the code.

* *The overflow.* `state.rs:1107-1111` says that admission gating makes an overflow of
  the output queue unreachable. The gate counts `decodeQueueSize`, copies and pushes
  (`video.rs:785-792, 858-865`) but not the chunks the codec holds for reordering, which
  the flush of `send_eof` releases: 15 queued frames, 31 counted chunks and up to 16
  held ones meet a queue of 48. The decoder closes and the caller must `flush`.
* *A failed allocation.* `advance_probe_with` is documented as transactional
  (`decoder/mod.rs:1704-1706`) and `receive_frame` so that "the caller never loses initial
  frames after a fallback" (`decoder/mod.rs:1404-1406`). But the failed backend is logged
  and its queue dropped (`decoder/mod.rs:1764-1774`) before a candidate is tried; when
  `alloc_av_frame` is then refused (`decoder/mod.rs:1888-1891`), after any number of
  attempts, that backend is still installed and on trial. It can be logged a second time,
  and when a replay had installed it the frames of that replay are gone, though it may
  go on and commit. The model does the same: such frames are `forfeited`, `FramesWhole`
  says that this is the only way a frame of the backend in use is missing, and
  `EndedComplete` what `Ended` means then. Without `forfeited` in their equations TLC
  refutes both: a backend fails, the next is replayed the packets and queues a frame, is
  installed, fails, and the third is refused its allocation; the second goes on.
  `FedWholeHistory` and `HandsBackEverything` do not suffer, so a later fallback still
  starts from every packet.
* *A seek.* `flush` documents that the next `receive_frame` "waits for new post-seek
  input" (`decoder/mod.rs:1631-1633`) but leaves the callbacks' latch
  (`decoder/mod.rs:1638`): a picture declined before the seek is reported after it.
* *The replay cap.* `SW_REPLAY_FRAME_CAP` = 64 is documented as room for a reorder window
  (`video/mod.rs:63-65`); it receives the pictures of the whole history, up to 256
  packets (`video/mod.rs:888, 976`), so a late hardware failure ends in
  `FallbackFailed` although software could decode everything. The packets come back.
* *An empty PCM packet* is expected to give 0 samples (`audio.rs:512`); the comment at
  `audio.rs:1353-1356` takes the expected count to be strictly positive there, and an
  output that meets such a record closes the decoder.
* *A request stood down.* `videotoolbox.rs:665-667` says that a later resolution can make
  it honourable again; the latch `unhonored` lasts until the next request.
* *Refused before paid.* `convert/mod.rs:1393` says that everything a
  conversion can refuse is refused before anything is allocated; a null pointer or a
  range no buffer backs, on a second plane, is refused after the first was copied.
  `PaysWithin` excepts those two verdicts.
* Two refusals at once: `hw_exit` runs twice for a trial backend with both latches and
  the log keeps the second one (`RefusalsNamed` asks for either). `ffi.rs:586-590` says
  that hardware frames never reach `get_buffer2`, so the second latch stays empty.

## 4. Proofs

### The WebCodecs video decoder

`WebCodecsVideoProofs` proves for all values of the constants that satisfy
`CapsAssumption`, `DepthAssumption` and `VideoAssumption`:

* **TypeCorrect**: `Spec => []TypeOK`. The only hard part is `DrainEnd`, a
  `CHOOSE`: it exists because a finite set of pushes cannot hold all of
  `nextPushSeq .. nextPushSeq + Cardinality(pushes)` (`SomeSeqIsMissing`, from the
  cardinality theorems) and a least missing one exists (`LeastNat`, from the
  library's well-foundedness of `<` on the naturals). The byte total of a sequence
  is a recursive function; `TotalsExist` shows that it exists by taking the least
  length at which the recursion would fail, again through `LeastNat`.
* **ClosedStops**: `Spec => []ClosedMeansStopped`, from `StoppedInv`: a closed or
  dropped session has no configured browser decoder, and a decoder that is not
  configured holds no chunk. The second half is needed because the `reset()` of a
  close does nothing on a decoder the browser has already closed: without it the
  chunks of that decoder could still be queued.
* **ReorderProgress**: `Spec => []ReorderNeverStuck`. `ReorderInv` adds that
  `nextPushSeq <= nextOutputSeq`, that no copy is of a later generation than
  `epoch`, that live copies and parked pushes have distinct sequences within the
  awaited range, that every awaited sequence is held by one of them, and that the
  push the drain waits for is not parked. The step that matters is
  `CopyDelivered`: the drain stops at a missing sequence, which by this partition
  is a running copy or the next output.

* **ReopeningIsFresh**: `ReopensFresh` as an action property, from `IdsInv`: every id that
  is about compares with the next one as its generation says, and there is one record
  per id, none below the floor.
* **StreamKept**: `Spec => []StreamWhole`. `CopiesInv` tells copies apart by generation and
  sequence, also after a close, which numbers from 0 again, so that `pendingCopies` is
  their number. `OrderInv` is what the order needs: an id comes out once in a generation
  because the record it takes with it is the only one. `EofInv` and `EndedInv` carry the
  end: the browser decoder stays empty as long as the end stands, and with no sequence
  awaited there is neither a live copy nor a parked push. Together with `ReorderInv` and
  `IdsInv` they are `StreamInv`.
* **AccountsKept**: `Spec => []AccountsHonest`, from `StreamInv` with `CountsInv` (each byte
  counter is the sum it stands for) and `LimitsInv` (what the gates leave behind, with the
  last measured size, or an empty decoder could refuse a packet for good). Sums over sets
  and sequences are functions that exist by the least length at which they would not; the
  drain is the one step that moves a run of frames from a set to a sequence, and
  `DrainedBytes` says that both weigh the same.
* **RhythmKept**: the refinement of `PushRhythm`, action by action. The fed ids of the
  mapping change only where a record is taken, a frame handed over or a generation left.

Only model-checked: `CallsReturn`. Liveness is out of reach of the prover.

### The hardware probe

`HwProbeProofs` proves for all values of the constants that satisfy
`DecoderAssumption` and `ProbeAssumption` – any backends, any order, any caps:

* **HistoryKept**: `Spec => []FedWholeHistory`, and **RescueComplete**:
  `Spec => []HandsBackEverything`, with **ProbeTypeCorrect** for the types. The
  inductive invariant `ProbeInv` relates three copies of the history: what the
  installed decoder was fed, what the probe recorded, what the caller handed in
  (`FedInv`). A candidate has been fed the prefix of length `replayed`, and the end
  only after all of it (`ReplayInv`), so that at `Commit` the prefix is the whole.
  `TrialInv` says that a probe is there whenever one is being advanced and that a
  delivered frame has ended it; without it `AllBackendsFailed` could carry an empty
  history.
* What libavcodec may do enters through one predicate, `SameInput`: an answer of
  any kind, a latch, a lost picture or a funnel changes neither what a decoder was
  fed nor whether it was told the end. Only `TakenInput` and `EndTaken` do.

* **FlowKept** and **BackendsApart**, two parts of `AnswersHonest` and `FramesWhole`, with no
  further condition. `CallInv` says what a call has answered while it runs; `OrderInv`
  that the frames handed over, those queued and what is still inside come one after the
  other, of the installed decoder, and likewise for the candidate of a replay, so that a
  commit changes one ordered whole for another.
* **FramesKept** and **AnswersKept**, the rest: nothing of the installed backend is lost, and
  `Ended` leaves nothing behind, but for what a backend lost that failed and was kept (*A
  failed allocation* above). `InstalledWhole` is the equation between accepted packets and
  the places a picture can be in; `CandidateWhole` is the same for the candidate and the
  prefix replayed, so that a commit exchanges one for the other and `forfeited` is empty
  again. `LostOnlyUnallocated` is inductive by itself: whatever ends an advance replaces
  the backend, ends the session, or is the refused allocation.
* **RescueKept**: the refinement of `RescueContract`. Most steps map to a stutter; that a
  shown frame is of the committed backend and in order comes from `OrderInv`.

Only model-checked: `CallsReturn`.

### The video stream decoder

`FfmpegVideoStreamProofs` proves for all values of the constants that satisfy
`DecoderAssumption` and `StreamAssumption` – any depth of the decoders, any cap, any
number of packets, spare backends and attempts:

* **PicturesKept**: `Spec => []NothingLost`. The equation between accepted packets and
  the places a picture can be in is kept by every step on its own but two: the advance
  to another candidate, and the commit of the fallback. `TrialInv` makes the first
  true (on trial nothing has come out, so the candidate owes everything), `FallbackInv`
  the second: the software decoder has been fed a prefix of the history, and its
  pictures and the local queue together are those of that prefix; at the commit the
  prefix is the whole.
* **FallbackWhole**: `Spec => []FallbackAllOrNothing`, from `EndInv`, which has the one
  exception, the step between the commit of a `send_eof`'s fallback and its return.
  The commit needs `FallbackInv` again: `sw` was told the end exactly when it is pending.
* **RefusalNotHidden**: `Spec => []RefusalFirst`; **StreamTypeCorrect** for the types.
* `LibavDecoderProofs` has the two predicates the answers of libavcodec enter through:
  `SameInput`, as above, and `Held`, the pictures a decoder owes or has given up, which
  only a packet taken adds to and only a picture yielded takes from.

* **PicturesInOrder**: `Spec => []InOrderOnce`, from an `OrderInv` of its own: the places a
  picture can be in (handed over, parked, replayed, inside) are each in order and each
  before the next, and so for the software decoder of a fallback. `FrontInv` keeps the
  decoder from being asked while a replayed picture waits; without it the parked seat
  could be filled out of turn.
* **RhythmKept**: the refinement of `PushRhythm`. What counts as in flight is the whole
  history as long as a candidate may have it to decode again, and what waits after that;
  the two agree at the step that ends the trial.

Only model-checked: `CallsReturn`.

### The WebCodecs audio decoder

`WebCodecsAudioProofs` proves for all values of the constants that satisfy
`CapsAssumption`, `DepthAssumption` and `AudioAssumption`, codecs that rebase and codecs
that do not:

* **AudioOutputsAccounted**: `Spec => []OutputsAccounted`. That an output takes its own
  packet's record is where the two families differ. Ids do it for a codec that keeps them.
  A codec that rebases leaves only "the oldest record" and a count of samples, and then it
  is the line that does it: the chunks out, held and queued are in order (`LineInv`), each
  has its record, and the only records of chunks that are gone are those of empty ones
  (`MatchInv`), which the count turns away. A chunk that came out in two pieces is not
  admitted, since each piece has fewer samples than its record. After a `flush` the outputs
  of the decoder thrown away still stand in the line; they find no handler (`slotFloor`),
  so none of them takes the record of a new chunk.
  Order needs no reorder buffer because the tasks of this generation are the last ones
  (`TasksInv`), so what is handed over, what is queued and what is still being copied
  follow each other as they were admitted. The budget holds since a task reserves its bytes
  twice while it runs and its frame is charged once when it is done.
* **AudioRhythm**: the refinement of `PushRhythm`. What is fed is what has a record and can
  still come out, then the tasks, then the queue. `FlushInv` gives the end: when the
  browser's promise is kept nothing is in it any more, and the records left are of chunks
  that decoded to nothing.
* Each action is first shown to be of one of a few kinds (`Kinds`: a chunk is submitted, a
  record taken, a task run, a generation left, …); an invariant is then kept by the kinds.

`LiveTasks` names the tasks of this generation as the ones after a place, which
`TasksInv` proves to exist: the library's filter is recursive, and nothing could be
proved of it. Only model-checked: `CallsReturn`.

### The callback slots

`WebCodecsAudioProofs`, for any decoders, bounds and nesting: **SlotsOwned**,
**HandlersStayApart**, **FreedAreSilent** and **SlotsTypeCorrect**. `SlotsIInv` is five
relations between the map, the counter, the decoders, the trampolines and the stack. The
one that carries the rest is that every id in use lies below `nextSlotId`: a fresh id
then collides with nothing that was ever handed out, which is why a trampoline of a
freed slot can never meet another's handler.

### The demuxer session

`DemuxProofs`, for any files, tracks and bounds: **DeliveryKept**
(`Spec => []Delivery`), **LatchesKept** and **SessionTypeCorrect**. `Kept` says where
each packet of the stretch since the last seek is; `Stands` and `Seated` say which two
places a delivered and a parked packet can have, and without them the exception for a
packet parked over a failed seek would swallow the order. `Queued` separates the
attachments from the reading, `Latched` ties the end latch to the position
and keeps a parked packet out of a latched session.

**WalkKept**: `Spec => []WalkHonest`. While the walk is unbroken the figures are those of
the packets behind the reading position (`Covered`), and once complete of the whole
file. `WalkInv` adds that an unbroken walk has seen no seek, so that a packet parked for
a refused allocation lies behind the position: it was measured when it was parked, and
measuring it again when it is delivered changes nothing.

Only model-checked: `WalkEnds`.

### The demuxer's open

`DemuxProofs`, for any containers, ceilings and readers: **VerdictKept**
(`Spec => []VerdictHonest`) and **PaidKept** (`Spec => []PaidAsJudged`). The admission and
the building pass over the same rows and charge different accounts; what links them is
the running total of each budget over the rows of the container (`Params`, `Texts`,
`Payloads`, `Titles`, functions that exist by the least row at which they would not).
`Reached` says that a pass has come to the total of its row and stage, `Judged` what the
rows before it were found to be, in terms of the same totals. `PaidInv` is one conjunct
per phase: at the end of the admission everything is judged; so, while building, each list
of questions passes (`RowsPass`, `TextPass`, `CarriersPass`, `ChapterPass`, `CountPass`)
and a refusal is impossible. That is why a refusal finds nothing allocated. When the
session opens, both accounts have reached the end of the table.

What was learned: a chapter whose pointer is null has no title to be terminated;
`TextsTerminated` speaks only of chapters that are there.

### The resampler

`BoundaryProofs`, for any pair of rates, stamps and limits: **TimelineUnbroken**,
**TailAlwaysPayable**, **RefusalsTraceless**, **EndKept** and **ResamplerTypeCorrect**.
`TailRoom` is what a frame must leave behind when it is accepted for the tail to be
payable later; the step needs that the capacity asked before a conversion covers what swr can hold
after it although the delay is rounded up twice on the way (`CapacityCovers`).
`Counted` states the timeline as the count it is kept by.

Only model-checked: that the drain ends (the second half of `DrainEnds`).

### The scaled output

`BoundaryProofs`, for any extents, sizes, ratios and threads: **WordKept**,
**ScalingRight** and **ScaledTypeCorrect**. `WordsMatch` says that what the caller was
told and what the stage will do agree, `SizesMatch` that a picture of another size than
promised finds the promise withdrawn before it comes out, `StageKept` and `InHand` where
the cache may be used. That a corrected ratio has the right value rests on a greatest
common divisor, which exists by a least element, since the library's induction is out
of reach.

### The decoders without hardware

`SoftwareDecodersProofs`, for any number of packets, any depth of libavcodec and any
frames it may write: **EveryFrameKept** (`Spec => []FramesKept`), **SoftwareRhythm** (the
refinement of `PushRhythm`, for sessions that leave their refusals to libavcodec and the
one that makes them all itself) and **EverythingCarriedHonest** (`Spec => []CarriedHonest`).

For the first two what a conversion makes of a frame does not matter. `SoftwareInv` is the
types with six relations. `NothingLost` says where each frame can be, the parked one
included; `InTurn` that these places come one after the other, which is what a retry of a
conversion could break; `Untouched` and `ImageOfThisPacket` that an image decoder begins
every call as it was opened, whatever the call before came to, so that what comes out is
of this packet; `SameEnd` that a session and its decoder agree about the end;
`RefusalFirst` that no answer of the decoder's is told while a refusal of the
allocator's waits.

For the third it is all that matters: the invariant adds only that what waits in the
scratch is something libavcodec wrote (`CarriedInv`), and the work is `StillHonest`,
`SoundHonest` and `CueHonest`: every conversion of a source of that kind is `Honest`. The
sources are not those of the runs but whole types: `Still` (any extents, strides,
pointers, crop and entries), `Sound` (any counts, layout and sizes, with a pointer in
`extended_data` for each plane there should be, which is libavutil's promise) and `Cue`
(any rectangles). A plan is a concatenation of short plans, so its lemmas say what a
concatenation costs (`PlanCat`, `FrugalCat`), where it may end (`EndingCat`) and what it
hands over (`YieldCat`), and the same for one plan per plane, entry or rectangle
(`PlansJoin`, `EndingFlat`, `YieldFlat`). `Total` and `TextBytes` are recursive functions;
that they exist and are what their running values come to is shown by the least number
at which they would not (`Counting`), as is every fact about a run of any length, since
the library's induction is out of reach. A plan whose verdict is not of a pointer, a
buffer or memory has stopped before its first allocation (`StillPlanOutcome`,
`AudioPlanOutcome`), which is why a refusal has cost nothing; a table of rectangles is
judged by a running total, so wherever it is left what was paid fits (`TableWithin`,
`TableCost`), and the separators a cue's text is judged by are those its lines are read
with (`ToldWithin`).

### The payload carriers

`BoundaryProofs`, for any number of buffers and handles, any padding and budget, packets
of any shape: **LentBytesStandAlways**, **DecoderInside**, **NothingLeaks**, from
**EveryBufferCounted** (`CarriersSpec => []CarriersInv`). None of the three is inductive.
A count that is exact (`Exact`) is what makes "one reference" mean "one holder"
(`Alone`), and that is what `Route` decides by. `Sound` is what each holder takes for
granted of the bytes behind it: a source of the file's ends in libavformat's bytes, a
carrier claims padding only over those, what a caller can write has none of them.
`AllApart` names who may never meet over one buffer: writers with readers, and
libavformat's queue with whoever was lent its bytes. `InForce` is what a call in progress
relies on between two of its steps, while other threads go on: a plan to window a source
stands (`PlanHolds`), a packet on loan comes back having lent its bytes to nobody
(`LoanEnds`), a packet built to be kept is nobody else's (`KeptAlone`). A step is judged
by `Step`: a reference of the new state is sound and apart if it follows one of the old
state and may do no more than that one, or if nothing meets it.

### Only model-checked

Every safety invariant of a run has its theorem.
Liveness, which needs `ENABLED` and fairness, is TLC's everywhere.

## 5. Not modelled

* Pixel and sample values, colour and HDR metadata, orientation, the labelling of
  timestamps; tables of formats, layouts, codec names and their conversions, which are
  pure; `open`'s validation of codec strings and descriptions; wrap-around of 64-bit
  counters; the sizing of frames in the hardware decoder.
* The conversion of a video frame has no run of its own: its planes go the road of a
  still, its side data that of an audio frame.
* Opening a container by path, which has no reader to guard.
* The tickets that charge attachments (`ticket.rs`) beyond what `DemuxOpen`
  sums.
* The encoder and muxer contracts (`mediaencode`): the repository implements them only
  in the doubles of their own tests, so there is no code whose order could be wrong. `check_decode_order` (`mux.rs:197`)
  keeps no state: a muxer to come must give it one clock per track.
* The timeline (`mediaio-timeline`): pure functions over an edit list.
* The media vocabulary, the umbrella crate and the encoder catalogue: data types,
  re-exports and a static table.

Whole components not modelled are in `PROJECT.json` with the reason.

## 6. Plan

Done: the WebCodecs decoders and their slots, the hardware probe, the video stream
decoder, the decoders without hardware with their conversions, the demuxer, the payload
boundary, the resampler, the scaled output.

Left:

1. The timeline's validation and layout as functions checked over small edit lists.
2. The video road of the conversions with its colour and orientation metadata.
