--------------------------- MODULE PayloadCarriers ---------------------------
(***************************************************************************)
(* The payload boundary of mediaio-ffmpeg: how bytes leave FFmpeg as       *)
(* carriers and go back into a decoder (buffer.rs, boundary.rs,            *)
(* carrier.rs, view.rs, the reservations of resampler.rs).                 *)
(*                                                                         *)
(* An owned carrier is a copy, a view carrier a counted reference to the   *)
(* buffer FFmpeg filled.  A packet a caller holds can be written in place  *)
(* from any thread and shares its buffer with every shallow clone.  What   *)
(* keeps the two apart is who delivered a packet, how many references its  *)
(* buffer has when it is judged, and which packets may leave a call.       *)
(*                                                                         *)
(* One call at a time is followed step by step; between its steps the      *)
(* caller's other threads and the libraries do what they may.              *)
(***************************************************************************)
EXTENDS Integers, FiniteSets

CONSTANTS
  Buffers,       \* bound: buffers alive at a time
  Handles,       \* bound: what holds references outside the call
  Padding,       \* AV_INPUT_BUFFER_PADDING_SIZE
  Budget,        \* max_packet_bytes
  CallerShapes,  \* [size, off, len] of the packets a caller makes
  FileShapes     \* the same, of those libavformat delivers

NoBuffer == 0

ASSUME CarrierAssumption ==
  /\ NoBuffer \notin Buffers /\ IsFiniteSet(Handles)
  /\ Padding \in Nat /\ Budget \in Nat
  /\ CallerShapes \cup FileShapes \subseteq [size : Nat, off : Nat, len : Nat]

VARIABLES
  mem,   \* live buffers: size, what follows the payload, references counted
  hand,  \* the references held outside the call in progress, by handle
  call   \* that call: where it is, the reference it reads, the one it makes

carrierVars == <<mem, hand, call>>

\* Who may write through its reference: whoever owns an ffmpeg_next::Packet.
Writers == {"packet", "record"}
\* Who reads without asking again: a carrier's &[u8], a source once judged, a
\* packet built over a carrier, and the decoder it was submitted to.
Readers == {"carrier", "source", "built", "codec"}

\* What a packet declares besides its bytes: nothing, side data, side data
\* that cannot be carried whole, AV_PKT_FLAG_TRUSTED, a flag beyond the byte.
Tags == {"plain", "sided", "broken", "trusted", "wide"}
Lanes == {"owned", "view"}

\* A reference: who holds it, over which bytes; "from" is who delivered a
\* packet, or what a carrier claims of the bytes behind it; "stands" is false
\* once bytes it lends have been written over.
Holder(kind, buf, off, len, from) ==
  [kind |-> kind, buf |-> buf, off |-> off, len |-> len, from |-> from, stands |-> TRUE]

Nobody == Holder("nobody", NoBuffer, 0, 0, "foreign")
Idle == [at |-> "idle", src |-> Nobody, made |-> Nobody]

CarriersInit ==
  /\ mem = [b \in {} |-> b] /\ hand = [t \in {} |-> Nobody]
  /\ call = Idle

-----------------------------------------------------------------------------
(* References: AVBufferRef, and the Arc of the owned lane.                  *)

As(r, kind) == [r EXCEPT !.kind = kind]

\* A handle is given a reference, or gives it up.
Given(h, t, r) == [x \in DOMAIN h \cup {t} |-> IF x = t THEN r ELSE h[x]]
Without(h, t) == [x \in DOMAIN h \ {t} |-> h[x]]

Free == Handles \ DOMAIN hand
Fresh == Buffers \ DOMAIN mem
NewBuffer == CHOOSE b \in Fresh : TRUE
OtherBuffer == CHOOSE b \in Fresh \ {NewBuffer} : TRUE

\* av_buffer_ref.
Referenced(m, b) == [x \in DOMAIN m |-> IF x = b THEN [m[x] EXCEPT !.refs = @ + 1] ELSE m[x]]

\* av_buffer_unref: the last reference frees the buffer.
Unreferenced(m, b) ==
  [x \in {y \in DOMAIN m : y # b \/ m[y].refs > 1} |->
     IF x = b THEN [m[x] EXCEPT !.refs = @ - 1] ELSE m[x]]

\* av_buffer_alloc and friends: b exists with one reference.
Alloc(m, b, size, tail) ==
  [x \in DOMAIN m \cup {b} |->
     IF x = b THEN [size |-> size, tail |-> tail, refs |-> 1] ELSE m[x]]

\* What a decoder may read past a payload it is handed.
PaddedAlloc(m, len) == Alloc(m, NewBuffer, len + Padding, "zeroes")

Shared(r) == mem[r.buf].refs > 1
Bodiless(r) == r.buf = NoBuffer \/ r.len = 0

\* The bytes of b are written over.
Overwritten(r, b) ==
  IF r.buf = b /\ r.kind \in Readers THEN [r EXCEPT !.stands = FALSE] ELSE r

AfterWrite(h, b) == [t \in DOMAIN h |-> Overwritten(h[t], b)]

Rewrites(b) ==
  /\ hand' = AfterWrite(hand, b)
  /\ call' = [call EXCEPT !.src = Overwritten(@, b), !.made = Overwritten(@, b)]

-----------------------------------------------------------------------------
(* The caller, on any thread, and the libraries, between and during calls.  *)

\* A packet of the caller's making: nothing is known of what follows its bytes.
MakesPacket ==
  /\ Fresh # {}
  /\ \E s \in CallerShapes, t \in Free :
       /\ mem' = Alloc(mem, NewBuffer, s.size, "unknown")
       /\ hand' = Given(hand, t, Holder("packet", NewBuffer, s.off, s.len, "caller"))
  /\ UNCHANGED call

\* A packet of the caller's with the bytes of r in a buffer of its own.
OwnPacket(kind, r) == Holder(kind, NewBuffer, 0, r.len, "caller")

\* Packet::clone: av_packet_ref, then a make_writable whose failure it ignores.
ClonesPacket(p) ==
  /\ p.kind = "packet"
  /\ \E t \in Free :
       \/ /\ mem' = Referenced(mem, p.buf)
          /\ hand' = Given(hand, t, p)
       \/ /\ Fresh # {}
          /\ mem' = PaddedAlloc(mem, p.len)
          /\ hand' = Given(hand, t, OwnPacket("packet", p))
  /\ UNCHANGED call

\* Packet::data_mut writes in place, whoever else holds the buffer.
WritesPacket(p) ==
  /\ p.kind = "packet"
  /\ Rewrites(p.buf)
  /\ UNCHANGED mem

\* FfmpegBuffer::try_clone and FfmpegBytes::clone: one more reference.
ClonesCarrier(c) ==
  /\ c.kind = "carrier"
  /\ mem' = Referenced(mem, c.buf)
  /\ \E t \in Free : hand' = Given(hand, t, c)
  /\ UNCHANGED call

\* Whatever is not part of the call is dropped by its owner: the caller, the
\* decoder, libavformat, the session.
Drops(t) ==
  /\ mem' = Unreferenced(mem, hand[t].buf)
  /\ hand' = Without(hand, t)
  /\ UNCHANGED call

\* libavformat's own reference to a packet it queues; nothing is promised of
\* it but that it is left alone while a session's call holds the context.
QueueWrites(q) ==
  /\ q.kind = "queued" /\ call.at = "idle"
  /\ Rewrites(q.buf)
  /\ UNCHANGED mem

DecodedFrame(b) == Holder("frame", b, 0, 1, "foreign")

\* The decoder's frame pool hands a buffer out, a new one or one that nobody
\* but the pool refers to any more, and the decoder writes a picture into it.
PictureDecoded ==
  /\ call.at = "idle"
  /\ \E t \in Free :
       \/ /\ Fresh # {}
          /\ mem' = Referenced(Alloc(mem, NewBuffer, 1, "none"), NewBuffer)
          /\ \E u \in Free \ {t} :
               hand' = Given(Given(hand, u, Holder("pool", NewBuffer, 0, 0, "foreign")),
                             t, DecodedFrame(NewBuffer))
       \/ \E p \in {hand[u] : u \in DOMAIN hand} :
            /\ p.kind = "pool" /\ ~Shared(p)
            /\ mem' = Referenced(mem, p.buf)
            /\ hand' = Given(AfterWrite(hand, p.buf), t, DecodedFrame(p.buf))
  /\ UNCHANGED call

-----------------------------------------------------------------------------
(* Out of FFmpeg: a packet becomes a carrier.                               *)

Offer(src) ==
  \E lane \in Lanes, tag \in Tags :
    call' = [at |-> "offered", src |-> src, made |-> Nobody, lane |-> lane,
             tag |-> tag, plan |-> "none"]

\* What t held becomes the source of a call.
Offers(t) == hand' = Without(hand, t) /\ Offer(As(hand[t], "offered")) /\ UNCHANGED mem

\* The public doors: the view lane consumes the packet, the owned one borrows it.
CallerConverts(t) == call.at = "idle" /\ hand[t].kind = "packet" /\ Offers(t)

Unconverted == {t \in DOMAIN hand : hand[t].kind = "unconverted"}

\* next_packet takes the packet an earlier call parked.
DemuxRetries(t) == call.at = "idle" /\ t \in Unconverted /\ Offers(t)

\* Or what av_read_frame delivers, alone or beside a reference of libavformat's:
\* a cue of its queue, or the picture parked when the container was opened.
DemuxReads ==
  /\ call.at = "idle" /\ Unconverted = {} /\ Fresh # {}
  /\ \E s \in FileShapes, from \in {"demux", "picture"} :
       LET packet == Holder("offered", NewBuffer, s.off, s.len, from)
           read == Alloc(mem, NewBuffer, s.size, "libavformat")
           kept == Holder(IF from = "picture" THEN "parked" ELSE "queued",
                          NewBuffer, 0, 0, "foreign")
       IN /\ Offer(packet)
          /\ \/ from = "demux" /\ mem' = read /\ UNCHANGED hand
             \/ /\ mem' = Referenced(read, NewBuffer)
                /\ \E t \in Free : hand' = Given(hand, t, kept)

\* A call ends and gives its source back, or drops it: an owned door only
\* borrowed it, a session parks what another attempt could convert.
EndsWith(m, h, again) ==
  LET s == call.src
      kept == CASE s.from = "caller" /\ call.lane = "owned" -> {As(s, "packet")}
                [] s.from # "caller" /\ again -> {As(s, "unconverted")}
                [] OTHER -> {}
  IN /\ \/ kept = {} /\ mem' = Unreferenced(m, s.buf) /\ hand' = h
        \/ /\ mem' = m
           /\ \E r \in kept, t \in Handles \ DOMAIN h : hand' = Given(h, t, r)
     /\ call' = Idle

\* Mutants: a caller's shared packet is copied, libavformat's windowed.
CopiesShared(from, shared) ==
  IF shared /\ from # "picture" THEN "copy" ELSE "capture"
WindowsDelivered(from, shared) ==
  IF shared /\ from = "caller" THEN "refuse" ELSE "capture"

\* What may be done with the buffer of a packet of this provenance.
Route(from, shared) ==
  CASE ~shared \/ from = "picture" -> "capture"
    [] shared /\ from = "demux" -> "copy"
    [] OTHER -> "refuse"

\* Side data is read first, and whole or not at all.
SideDataRefused == call.tag = "broken"

\* Judged from what the packet declares, before a byte of it is read.
PayloadRefused(p) ==
  \/ call.tag = "trusted"
  \/ /\ ~Bodiless(p)
     /\ \/ p.len > Budget
        \/ p.off + p.len > mem[p.buf].size
        \/ Route(p.from, Shared(p)) = "refuse"

RefusesSource ==
  /\ call.at = "offered"
  /\ SideDataRefused \/ PayloadRefused(call.src)
  /\ EndsWith(mem, hand, FALSE)

\* No body: delivered with an empty carrier if side data rides on the packet.
DeliversBodiless ==
  /\ call.at = "offered" /\ Bodiless(call.src)
  /\ ~SideDataRefused /\ ~PayloadRefused(call.src)
  /\ \/ /\ call.tag = "sided"
        /\ \E t \in Free : EndsWith(mem, Given(hand, t, As(Nobody, "carrier")), FALSE)
     \/ call.tag # "sided" /\ EndsWith(mem, hand, FALSE)

JudgesSource ==
  /\ call.at = "offered" /\ ~Bodiless(call.src)
  /\ ~SideDataRefused /\ ~PayloadRefused(call.src)
  /\ call' = [call EXCEPT !.at = "judged", !.src = As(@, "source"),
                          !.plan = Route(call.src.from, Shared(call.src))]
  /\ UNCHANGED <<mem, hand>>

\* Mutant: any packet's slack passes for padding.
ClaimsAnyone(from) == "payload"

\* Only a packet libavformat delivered comes with padding to claim.
Claim(from) == IF from \in {"demux", "picture"} THEN "payload" ELSE "foreign"

\* Mutant: the window borrows the packet's own reference.
WindowUncounted(r) == mem

\* view_of: a counted window on the bytes of r.
Window(r, claim) == Holder("carrier", r.buf, r.off, r.len, claim)
WindowOpens(r) == Referenced(mem, r.buf)

\* A copy of the bytes of r and of nothing behind them.
CopyOf(r) == Holder("carrier", NewBuffer, 0, r.len, "foreign")
CopyMade(r) == Alloc(mem, NewBuffer, r.len, "none")

CapturesPayload ==
  /\ call.at = "judged"
  /\ \/ /\ call.lane = "view" /\ call.plan = "capture"
        /\ mem' = WindowOpens(call.src)
        /\ call' = [call EXCEPT !.at = "captured",
                                !.made = Window(call.src, Claim(call.src.from))]
     \/ /\ call.lane = "owned" \/ call.plan = "copy"
        /\ Fresh # {}
        /\ mem' = CopyMade(call.src)
        /\ call' = [call EXCEPT !.at = "captured", !.made = CopyOf(call.src)]
  /\ UNCHANGED hand

\* The allocator declines the side data, or the carrier.
CaptureFails ==
  /\ call.at = "judged" \/ (call.at = "offered" /\ call.tag = "sided")
  /\ EndsWith(mem, hand, TRUE)

\* The flags are read last: a packet that cannot be carried whole is refused
\* although its carrier exists.
TakeEnds ==
  /\ call.at = "captured"
  /\ IF call.tag = "wide"
       THEN EndsWith(Unreferenced(mem, call.made.buf), hand, FALSE)
       ELSE \E t \in Free : EndsWith(mem, Given(hand, t, call.made), FALSE)

-----------------------------------------------------------------------------
(* Into FFmpeg: a carrier becomes a packet.                                 *)

\* Mutant: the padding is claimed and not measured.
ClaimIsEnough(c) == c.len > 0 /\ c.from = "payload"

\* A decoder may be lent the carrier's buffer: libavformat's padding is behind
\* these bytes, and still inside the buffer.
Shareable(c) ==
  /\ c.len > 0
  /\ c.from = "payload"
  /\ c.off + c.len + Padding <= mem[c.buf].size

\* A caller may compose a portable packet of any flags over any carrier.  A
\* refusal, or a body the allocator declines, leaves nothing behind.  The road
\* "submit" is a loan to a decoder within the call, "keep" a packet to keep.
BuildsPacket(t) ==
  /\ call.at = "idle" /\ hand[t].kind = "carrier" /\ hand[t].len <= Budget
  /\ hand' = Without(hand, t)
  /\ \E road \in {"submit", "keep"}, tag \in {"plain", "sided", "broken"} :
       LET c == hand[t]
           share == road = "submit" /\ Shareable(c)
       IN /\ share \/ Fresh # {}
          /\ mem' = IF share THEN Referenced(mem, c.buf) ELSE PaddedAlloc(mem, c.len)
          /\ call' = [at |-> "built", src |-> c, road |-> road, tag |-> tag,
                      made |-> IF share THEN As(c, "built") ELSE OwnPacket("built", c)]

\* The borrowed carrier is free again; what the call built is left to m and h.
SendEnds(m, h) ==
  /\ mem' = m
  /\ \E t \in Handles \ DOMAIN h : hand' = Given(h, t, call.src)
  /\ call' = Idle

\* The side data goes on, or has no name or no memory here.
AttachesSideData ==
  /\ call.at = "built"
  /\ \/ /\ call.tag # "plain"
        /\ SendEnds(Unreferenced(mem, call.made.buf), hand)
     \/ /\ call.tag # "broken" /\ call.road = "keep"
        /\ \E t \in Free : SendEnds(mem, Given(hand, t, As(call.made, "packet")))
     \/ /\ call.tag # "broken" /\ call.road = "submit"
        /\ call' = [call EXCEPT !.at = "lent"]
        /\ UNCHANGED <<mem, hand>>

\* avcodec_send_packet keeps a reference or none; the loan ends with the call.
SubmitsLoan ==
  /\ call.at = "lent"
  /\ \/ \E t \in Free : SendEnds(mem, Given(hand, t, As(call.made, "codec")))
     \/ SendEnds(Unreferenced(mem, call.made.buf), hand)

\* try_clone_packet: a packet whose payload nothing else references.
CloneOf(r, kind) == OwnPacket(kind, r)
CloneMade(r, m) == PaddedAlloc(m, r.len)

\* AllBackendsFailed and FallbackFailed give the probe's history to the caller.
HandedBack(h) ==
  [t \in DOMAIN h |-> IF h[t].kind = "record" THEN As(h[t], "packet") ELSE h[t]]

\* The hardware probe copies a packet before its decoder may consume it, and
\* keeps the copy if the packet went in; a copy that cannot be made ends the
\* probe.
RecordsAndSubmits ==
  /\ call.at = "lent"
  /\ \/ /\ Fresh # {}
        /\ \E t \in Free : \E u \in Free \ {t} :
             SendEnds(CloneMade(call.made, mem),
                      Given(Given(hand, t, As(call.made, "codec")),
                            u, CloneOf(call.made, "record")))
     \/ SendEnds(Unreferenced(mem, call.made.buf), HandedBack(hand))

\* A replay feeds the next candidate copies of the history.
ReplaysRecord(r) ==
  /\ call.at = "idle" /\ r.kind = "record" /\ Fresh # {}
  /\ mem' = CloneMade(r, mem)
  /\ \E t \in Free : hand' = Given(hand, t, CloneOf(r, "codec"))
  /\ UNCHANGED call

HandsBack ==
  /\ call.at = "idle"
  /\ \E t \in DOMAIN hand : hand[t].kind = "record"
  /\ hand' = HandedBack(hand)
  /\ UNCHANGED <<mem, call>>

-----------------------------------------------------------------------------
(* Out of a decoder and the resampler: the planes of a frame.               *)

\* A tight plane is windowed on the view lane, a padded one copied on both: the
\* bytes between its rows were written by nobody.
CarriesPlane(f) ==
  /\ call.at = "idle" /\ f.kind = "frame"
  /\ \E lane \in Lanes, tight \in BOOLEAN, t \in Free :
       IF lane = "view" /\ tight
         THEN /\ mem' = WindowOpens(f)
              /\ hand' = Given(hand, t, Window(f, "foreign"))
         ELSE /\ Fresh # {}
              /\ mem' = CopyMade(f)
              /\ hand' = Given(hand, t, CopyOf(f))
  /\ UNCHANGED call

\* The resampler takes its carrier's memory before swr consumes anything: a
\* reference to the output frame, or the copy's destination.
ReservesOutput ==
  /\ call.at = "idle" /\ Fresh # {}
  /\ LET output == Holder("output", NewBuffer, 0, 1, "foreign")
         framed == Alloc(mem, NewBuffer, 1, "none")
         begun == [at |-> "reserved", src |-> output, made |-> As(output, "reserved")]
     IN \/ mem' = Referenced(framed, NewBuffer) /\ call' = begun
        \/ /\ Fresh \ {NewBuffer} # {}
           /\ mem' = Alloc(framed, OtherBuffer, 1, "none")
           /\ call' = [begun EXCEPT !.made.buf = OtherBuffer]
  /\ UNCHANGED hand

\* swr fails, or writes the output frame: then the carrier is what was reserved,
\* copied into or narrowed, and the frame goes.  Nothing produced, nothing
\* delivered.
CommitsOutput ==
  /\ call.at = "reserved"
  /\ LET frameless == Unreferenced(mem, call.src.buf)
     IN \/ /\ mem' = frameless
           /\ \E t \in Free : hand' = Given(hand, t, As(call.made, "carrier"))
        \/ /\ mem' = Unreferenced(frameless, call.made.buf)
           /\ UNCHANGED hand
  /\ call' = Idle

CarriersNext ==
  \/ MakesPacket
  \/ \E t \in DOMAIN hand :
       \/ ClonesPacket(hand[t]) \/ WritesPacket(hand[t]) \/ ClonesCarrier(hand[t])
       \/ QueueWrites(hand[t]) \/ ReplaysRecord(hand[t]) \/ CarriesPlane(hand[t])
       \/ Drops(t) \/ CallerConverts(t) \/ DemuxRetries(t) \/ BuildsPacket(t)
  \/ DemuxReads \/ RefusesSource \/ DeliversBodiless \/ JudgesSource
  \/ CapturesPayload \/ CaptureFails \/ TakeEnds
  \/ AttachesSideData \/ SubmitsLoan \/ RecordsAndSubmits \/ HandsBack
  \/ PictureDecoded \/ ReservesOutput \/ CommitsOutput

CarriersSpec == CarriersInit /\ [][CarriersNext]_carrierVars

-----------------------------------------------------------------------------

InUse == {hand[t] : t \in DOMAIN hand} \cup ({call.src, call.made} \ {Nobody})

\* Bytes lent stand: from the moment a packet is judged, and for as long as a
\* carrier or a decoder holds its bytes, nobody writes them and no caller's
\* packet can, whoever clones, keeps or is handed back a packet meanwhile
\* (buffer.rs 1618-1648, boundary.rs 926-955).
LentBytesStand ==
  \A r \in InUse : r.kind \in Readers =>
    /\ r.stands
    /\ \A w \in InUse : w.kind \in Writers => w.buf # r.buf

\* A decoder reads its packet and the padding past it: both lie inside the
\* buffer it was handed, over bytes that libavformat or the library wrote.
DecoderStaysInside ==
  \A r \in InUse : r.kind \in {"built", "codec"} =>
    /\ r.off + r.len + Padding <= mem[r.buf].size
    /\ mem[r.buf].tail \in {"libavformat", "zeroes"}
    /\ r.len <= Budget

HoldersOf(b) ==
  Cardinality({t \in DOMAIN hand : hand[t].buf = b})
    + (IF call.src.buf = b THEN 1 ELSE 0) + (IF call.made.buf = b THEN 1 ELSE 0)

\* Every way out of a call releases what the call held and counts what it
\* leaves: a buffer lives exactly as long as somebody holds it.
NothingStrays ==
  /\ \A b \in DOMAIN mem : mem[b].refs = HoldersOf(b)
  /\ \A r \in InUse : r.buf = NoBuffer \/ r.buf \in DOMAIN mem
=============================================================================
