--------------------------- MODULE BrowserDecoder ---------------------------
(***************************************************************************)
(* EXTERNAL.  The browser's VideoDecoder / AudioDecoder object, modelled   *)
(* from how video.rs and audio.rs of mediadecode-webcodecs use it:         *)
(* decode() enqueues a chunk and decodeQueueSize counts the queued ones,   *)
(* the codec takes chunks off that queue (a dequeue event follows) and may *)
(* hold them back for reordering, output callbacks arrive as tasks of      *)
(* their own, flush() answers with a promise that settles once everything  *)
(* has come out, reset() leaves the decoder unconfigured and close() is    *)
(* terminal.                                                               *)
(***************************************************************************)
EXTENDS Naturals, Sequences, FiniteSets

CONSTANT CodecDepth   \* chunks the codec holds back before it must emit one

ASSUME DepthAssumption == CodecDepth \in Nat \ {0}

VARIABLES
  dec,         \* "configured", "unconfigured" or "closed"
  inputQ,      \* ids of the chunks decodeQueueSize counts
  held,        \* ids of the chunks inside the codec
  outputs,     \* ids of the frames whose output callback has yet to run
  dequeueEvt,  \* a dequeue event has yet to be dispatched
  flushP       \* the promise flush() returned: "none" when nobody holds one

codecVars == <<dec, inputQ, held, dequeueEvt>>
jsVars == <<dec, inputQ, held, outputs, dequeueEvt, flushP>>

DecStates == {"configured", "unconfigured", "closed"}
PromiseStates == {"none", "pending", "resolved", "rejected"}

JsTypeOK ==
  /\ dec \in DecStates
  /\ inputQ \in Seq(Nat)
  /\ held \in SUBSET Nat
  /\ outputs \in Seq(Nat)
  /\ dequeueEvt \in BOOLEAN
  /\ flushP \in PromiseStates

JsInit ==
  /\ dec = "configured"
  /\ inputQ = <<>>
  /\ held = {}
  /\ outputs = <<>>
  /\ dequeueEvt = FALSE
  /\ flushP = "none"

JsDecodeQueueSize == Len(inputQ)

-----------------------------------------------------------------------------
(* Calls the adapter makes.  Callbacks already on their way run whatever    *)
(* is called, so none of these touches outputs: the caller's step does.     *)

JsDecode(id) ==
  /\ dec = "configured"
  /\ inputQ' = Append(inputQ, id)
  /\ UNCHANGED <<dec, held, dequeueEvt, flushP>>

\* What reset() and close() share: queued and held chunks are gone, and a
\* dequeue event reports that the queue has become empty.
JsAbandon ==
  /\ inputQ' = <<>>
  /\ held' = {}
  /\ dequeueEvt' = (dequeueEvt \/ inputQ # <<>>)

\* reset(), which throws (and does nothing) on a closed decoder.
JsReset ==
  IF dec = "closed"
  THEN UNCHANGED codecVars
  ELSE dec' = "unconfigured" /\ JsAbandon

\* The pending flush promise of a decoder that is reset or closed.
JsRejectFlush == flushP' = IF flushP = "pending" THEN "rejected" ELSE flushP

\* flush() on a decoder that is not configured answers a rejected promise.
JsFlush ==
  /\ flushP' = IF dec = "configured" THEN "pending" ELSE "rejected"
  /\ UNCHANGED codecVars

-----------------------------------------------------------------------------
(* What the browser does on its own *)

\* The codec takes the next chunk.
JsDequeue ==
  /\ dec = "configured"
  /\ inputQ # <<>>
  /\ Cardinality(held) < CodecDepth
  /\ held' = held \cup {Head(inputQ)}
  /\ inputQ' = Tail(inputQ)
  /\ dequeueEvt' = TRUE
  /\ UNCHANGED <<dec, outputs, flushP>>

\* A held chunk comes out: as one frame, as none, or as two.
JsEmit(id, frames) ==
  /\ id \in held
  /\ held' = held \ {id}
  /\ outputs' = outputs \o [k \in 1 .. frames |-> id]
  /\ UNCHANGED <<dec, inputQ, dequeueEvt, flushP>>

\* Everything is out and every output callback has run.
JsFlushDone ==
  /\ flushP = "pending"
  /\ inputQ = <<>> /\ held = {} /\ outputs = <<>>
  /\ flushP' = "resolved"
  /\ UNCHANGED <<dec, inputQ, held, outputs, dequeueEvt>>

=============================================================================
