---------------------------- MODULE ScaledOutput ----------------------------
(***************************************************************************)
(* Pictures at a requested size: the stage between a decoded VideoToolbox  *)
(* surface and its download (vtscale/videotoolbox.rs), the decoder and the *)
(* session around it (decoder/mod.rs, video/mod.rs).                       *)
(*                                                                         *)
(* A caller that is told Supported stops resampling, one that is told      *)
(* Unsupported starts again.  The stage may stand down over any picture,   *)
(* and nothing else tells the two kinds of pictures apart.  A transfer     *)
(* session and its pool are kept between pictures, for one shape of the    *)
(* stream, one request and one thread, while the decoder may be moved.     *)
(***************************************************************************)
EXTENDS Integers

CONSTANTS
  Extents,   \* <<width, height>> a stream may have
  Sizes,     \* those a caller may ask for
  Ratios,    \* <<num, den>> sample aspect ratios a stream may declare
  Formats,   \* the pixel formats of a surface and of its software picture
  Threads,
  MaxInt     \* i32::MAX, the terms of an AVRational

NoSize == <<0, 0>>

ASSUME ScaledAssumption ==
  /\ Extents \subseteq (Nat \ {0}) \X (Nat \ {0})
  /\ Sizes \subseteq Nat \X Nat
  /\ Ratios \subseteq Nat \X Nat
  /\ MaxInt \in Nat

VARIABLES
  road,       \* the decoder in use: "vt", "elsewhere" (no stage in it), "software"
  trial,      \* its probe runs: a failure leaves no backend to try
  coded,      \* the extent of the last header the decoder has read
  request,    \* ScaledOutput.request
  unhonored,  \* ScaledOutput.unhonored
  cache,      \* ScaledOutput.cache: what was built, for what, on which thread
  thread,     \* where the decoder is now
  at,         \* where the call in progress is
  surface,    \* hw_frame
  slot,       \* the scratch: a downloaded picture, parked if no call runs
  asked,      \* the caller: the size it was last told Supported for
  told,       \* the caller: the last word it was given
  mixed       \* history: a picture came out at another size than asked

stage == <<request, unhonored, cache>>
caller == <<asked, told, mixed>>
scaledVars == <<road, trial, coded, stage, thread, at, surface, slot, caller>>

\* A surface: its picture, and whether the stage can read it at all: a
\* VideoToolbox buffer of the picture's extent, no crop, no side data that
\* speaks of the picture's grid.
Surface == [extent : Extents, sar : Ratios, format : Formats, readable : BOOLEAN]
NoSurface == [extent |-> NoSize, sar |-> <<0, 1>>, format |-> "none", readable |-> FALSE]

\* A picture on the CPU, what it was scaled from, and whether the caller knew
\* itself to be resampling when it was decoded.
Picture(s, extent, sar, fitted) ==
  [of |-> s, extent |-> extent, sar |-> sar, fitted |-> fitted,
   late |-> told = "unsupported"]
Pictures ==
  [of : Surface, extent : Extents \cup Sizes, sar : (Nat \X Nat), fitted : BOOLEAN, late : BOOLEAN]
NoPicture == [of |-> NoSurface, extent |-> NoSize, sar |-> <<0, 1>>, fitted |-> FALSE, late |-> FALSE]

Key(s, fitted) == [format |-> s.format, source |-> s.extent, fitted |-> fitted]
Keys == [format : Formats, source : Extents, fitted : Sizes]
NoKey == [format |-> "none", source |-> NoSize, fitted |-> NoSize]
Empty == [key |-> NoKey, owner |-> "none"]
Built(key, owner) == [key |-> key, owner |-> owner]

ScaledInit ==
  /\ road \in {"vt", "elsewhere", "software"} /\ trial \in BOOLEAN
  /\ road = "software" => ~trial
  /\ coded \in Extents
  /\ request = NoSize /\ unhonored = FALSE /\ cache = Empty
  /\ thread \in Threads
  /\ at = "idle" /\ surface = NoSurface /\ slot = NoPicture
  /\ asked = NoSize /\ told = "none" /\ mixed = FALSE

-----------------------------------------------------------------------------
(* The word and the request.                                                *)

Capability ==
  IF road = "vt" /\ ~unhonored THEN "supported" ELSE "unsupported"

\* is_acceptable_request.
IsAcceptable(size, source) ==
  /\ size[1] # 0 /\ size[2] # 0
  /\ size[1] <= source[1] /\ size[2] <= source[2]

Parked == slot # NoPicture

\* Mutant: a refused request leaves the one before it standing.
EarlierStands == cache' = Empty /\ UNCHANGED <<request, unhonored>>

\* What a refusal means everywhere: nothing stands, nothing is kept built.
Withdrawn == request' = NoSize /\ cache' = Empty /\ UNCHANGED unhonored

Answer(word, size) ==
  /\ told' = word /\ asked' = size
  /\ mixed' = FALSE
  /\ UNCHANGED <<road, trial, coded, thread, at, surface, slot>>

\* request_scaled_output_impl over a parked picture, which is already decided.
RequestOverParked ==
  /\ at = "idle" /\ Parked
  /\ IF road = "vt" THEN Withdrawn ELSE UNCHANGED stage
  /\ Answer("unsupported", NoSize)

\* A road without a stage.
RequestElsewhere ==
  /\ at = "idle" /\ ~Parked /\ road # "vt"
  /\ UNCHANGED stage
  /\ Answer("unsupported", NoSize)

RequestRefused ==
  /\ at = "idle" /\ ~Parked /\ road = "vt"
  /\ \E size \in Sizes : ~IsAcceptable(size, coded)
  /\ Withdrawn
  /\ Answer("unsupported", NoSize)

RequestAccepted ==
  /\ at = "idle" /\ ~Parked /\ road = "vt"
  /\ \E size \in Sizes :
       /\ IsAcceptable(size, coded)
       /\ request' = size /\ cache' = Empty /\ unhonored' = FALSE
       /\ Answer("supported", size)

\* scaled_output_capability changes nothing but what the caller knows.
Query ==
  /\ at = "idle"
  /\ told' = Capability
  /\ UNCHANGED <<road, trial, coded, stage, thread, at, surface, slot, asked, mixed>>

-----------------------------------------------------------------------------
(* The stage over one surface.                                              *)

Retire == cache' = Empty /\ UNCHANGED <<request, unhonored>>
\* Mutant: what was built is let go, and the word stays.
RetireSilently == cache' = Empty /\ UNCHANGED <<request, unhonored>>

StandDown == unhonored' = TRUE /\ cache' = Empty /\ UNCHANGED request

\* The picture goes to the download at full size.
FullSize == at' = "full" /\ UNCHANGED <<road, trial, coded, thread, surface, slot, caller>>

\* The greatest common divisor of two positive numbers.
Gcd(a, b) ==
  CHOOSE d \in 1 .. a :
    /\ a % d = 0 /\ b % d = 0
    /\ \A e \in (d + 1) .. a : ~(a % e = 0 /\ b % e = 0)

Unspecified(sar) == sar[1] = 0 \/ sar[2] = 0

\* Mutant: the scale is applied the wrong way round.
ScaledInversely(sar, src, dst) ==
  IF Unspecified(sar) THEN sar
  ELSE LET n == sar[1] * dst[1] * src[2]
           d == sar[2] * src[1] * dst[2]
       IN <<n \div Gcd(n, d), d \div Gcd(n, d)>>

\* scaled_sample_aspect_ratio: the ratio that keeps the display aspect.
ScaledRatio(sar, src, dst) ==
  IF Unspecified(sar) THEN sar
  ELSE LET n == sar[1] * src[1] * dst[2]
           d == sar[2] * dst[1] * src[2]
       IN <<n \div Gcd(n, d), d \div Gcd(n, d)>>

Representable(sar) == sar[1] <= MaxInt /\ sar[2] <= MaxInt

\* Mutant: a broken promise does not disarm the stage.
ArmedByRequest == request # NoSize

\* The stage is consulted with a request standing and its promise unbroken.
Armed == request # NoSize /\ ~unhonored

Fits == surface.extent = request
Scalable ==
  /\ surface.readable
  /\ IsAcceptable(request, surface.extent)
  /\ Representable(ScaledRatio(surface.sar, surface.extent, request))

\* Nothing asked, or the promise already broken.
StandsAside == at = "stage" /\ ~Armed /\ FullSize /\ UNCHANGED stage

\* A picture already of the requested size keeps the promise as it is, and lets
\* go what an earlier shape had built.
AlreadyFits == at = "stage" /\ Armed /\ Fits /\ Retire /\ FullSize

\* Unreadable, no downscale any more, or a ratio no AVRational holds.
CannotScale == at = "stage" /\ Armed /\ ~Fits /\ ~Scalable /\ StandDown /\ FullSize

\* Mutant: a session goes along with its decoder to another thread.
UsableAnywhere == cache.key = Key(surface, request)

\* What is built serves this surface: same shape, same request, same thread.
Usable == cache = Built(Key(surface, request), thread)

\* The session cannot be built, the pool is empty or of another format, the
\* transfer or the copy of the metadata fails.
ScalingFails == at = "stage" /\ Armed /\ ~Fits /\ Scalable /\ StandDown /\ FullSize

\* The surface is scaled by what is built, or by what is built for it now.
Scales ==
  /\ at = "stage" /\ Armed /\ ~Fits /\ Scalable
  /\ cache' = IF Usable THEN cache ELSE Built(Key(surface, request), thread)
  /\ at' = "fitted"
  /\ UNCHANGED <<road, trial, coded, request, unhonored, thread, surface, slot, caller>>

-----------------------------------------------------------------------------
(* One receive_frame: decode, stage, download, convert.                     *)

\* A picture comes out of the decoder; software has no surface to stage.
Decodes ==
  /\ at = "idle" /\ ~Parked
  /\ surface' \in Surface
  /\ at' = IF road = "vt" THEN "stage" ELSE "full"
  /\ UNCHANGED <<road, trial, coded, stage, thread, slot, caller>>

\* A delivered picture commits the probe.
Downloaded(picture) ==
  /\ slot' = picture /\ at' = "slot" /\ trial' = FALSE
  /\ UNCHANGED <<road, coded, stage, thread, surface, caller>>

DownloadsFitted ==
  /\ at = "fitted"
  /\ Downloaded(Picture(surface, request,
                        ScaledRatio(surface.sar, surface.extent, request), TRUE))

\* latch_failure: the fitted surface does not cross; the full one is tried.
FittedUndownloaded == at = "fitted" /\ StandDown /\ FullSize

DownloadsFull ==
  /\ at = "full"
  /\ Downloaded(Picture(surface, surface.extent, surface.sar, FALSE))

CallEnds == at' = "idle" /\ surface' = NoSurface

\* The picture is lost: over the byte ceiling, which is asked before the stage
\* is, or it does not cross at all.
PictureLost ==
  /\ at \in {"stage", "full"} /\ CallEnds
  /\ UNCHANGED <<road, trial, coded, stage, thread, slot, caller>>

\* On trial the only backend has failed: the session goes on in software, and
\* the stage goes with the decoder it was part of.
FallsBack ==
  /\ at \in {"idle", "full"} /\ trial /\ ~Parked
  /\ road' = "software" /\ trial' = FALSE
  /\ request' = NoSize /\ unhonored' = FALSE /\ cache' = Empty
  /\ CallEnds
  /\ UNCHANGED <<coded, thread, slot, caller>>

\* deliver_frame: delivered, kept for another attempt, or impossible.
Delivers ==
  /\ at = "slot"
  /\ mixed' = (mixed \/ (asked # NoSize /\ slot.extent # asked))
  /\ slot' = NoPicture /\ CallEnds
  /\ UNCHANGED <<road, trial, coded, stage, thread, asked, told>>

ConversionFails ==
  /\ at = "slot" /\ CallEnds
  /\ slot' \in {slot, NoPicture}
  /\ UNCHANGED <<road, trial, coded, stage, thread, caller>>

\* The parked picture is converted again, without the stage.
RetriesParked ==
  /\ at = "idle" /\ Parked
  /\ at' = "slot" /\ surface' = slot.of
  /\ UNCHANGED <<road, trial, coded, stage, thread, slot, caller>>

\* flush: the pictures go, the request stays.
Flush ==
  /\ at = "idle" /\ slot' = NoPicture
  /\ UNCHANGED <<road, trial, coded, stage, thread, at, surface, caller>>

\* A packet brings a header; the pictures it follows come out later.
HeaderRead ==
  /\ at = "idle" /\ coded' \in Extents
  /\ UNCHANGED <<road, trial, stage, thread, at, surface, slot, caller>>

\* VideoDecoder is Send: another thread drives it from here on.
Moves ==
  /\ at = "idle" /\ thread' \in Threads
  /\ UNCHANGED <<road, trial, coded, stage, at, surface, slot, caller>>

ScaledNext ==
  \/ RequestOverParked \/ RequestElsewhere \/ RequestRefused \/ RequestAccepted \/ Query
  \/ StandsAside \/ AlreadyFits \/ CannotScale \/ ScalingFails \/ Scales
  \/ Decodes \/ DownloadsFitted \/ FittedUndownloaded \/ DownloadsFull
  \/ PictureLost \/ FallsBack \/ Delivers \/ ConversionFails \/ RetriesParked
  \/ Flush \/ HeaderRead \/ Moves

ScaledSpec == ScaledInit /\ [][ScaledNext]_scaledVars

-----------------------------------------------------------------------------

ScaledTypeOK ==
  /\ road \in {"vt", "elsewhere", "software"} /\ trial \in BOOLEAN
  /\ coded \in Extents /\ request \in Sizes \cup {NoSize} /\ unhonored \in BOOLEAN
  /\ cache = Empty \/ cache \in [key : Keys, owner : Threads]
  /\ thread \in Threads
  /\ at \in {"idle", "stage", "fitted", "full", "slot"}
  /\ surface \in Surface \cup {NoSurface} /\ slot \in Pictures \cup {NoPicture}
  /\ asked \in Sizes \cup {NoSize} /\ told \in {"none", "supported", "unsupported"}
  /\ mixed \in BOOLEAN

\* The promise of Supported: once a picture came out at another size than the one
\* accepted, the word is Unsupported, until the caller asks again.
PromiseKept == (at = "idle" /\ mixed) => Capability = "unsupported"

\* The meaning of Unsupported: a caller that was told it and resamples is given
\* no picture decoded since that was scaled already.
NeverScaledTwice == ~(slot.fitted /\ slot.late)

\* The capability word can be acted on in both directions
\* (decoder/mod.rs 855-874, videotoolbox.rs 391-407).
WordHonest == PromiseKept /\ NeverScaledTwice

\* A surface is scaled by a session of its own shape, on the thread that built
\* it, and the stage keeps nothing it has no standing, unbroken request for
\* (videotoolbox.rs 205-220, 452-472).
StageInPlace ==
  /\ at = "fitted" => cache.key = Key(surface, request) /\ cache.owner = thread
  /\ cache # Empty => road = "vt" /\ Armed /\ cache.key.fitted = request

\* A picture scaled out of proportion still shows in the proportions its
\* stream declares: its ratio is corrected for the new grid, and one that was
\* unspecified stays so (videotoolbox.rs 144-196).
ShapeKept ==
  slot.fitted =>
    LET src == slot.of
    IN IF Unspecified(src.sar) THEN slot.sar = src.sar
       ELSE /\ Representable(slot.sar)
            /\ slot.sar[1] * slot.extent[1] * src.sar[2] * src.extent[2]
                 = src.sar[1] * src.extent[1] * slot.sar[2] * slot.extent[2]

\* A scaled picture is of the right session and of the right shape.
ScaledRight == StageInPlace /\ ShapeKept
=============================================================================
