--------------------------- MODULE DispatchSlots ---------------------------
(***************************************************************************)
(* The callback slots of mediadecode-webcodecs (dispatch.rs), with the     *)
(* decoders that allocate and free them.  What the browser holds is a      *)
(* trampoline with a slot id baked in; the handler lives in a slot and is  *)
(* taken out of it while it runs, because a handler may wake a task that   *)
(* drops or flushes the very decoder it belongs to.  Browser callbacks of  *)
(* any decoder ever built may still arrive.                                *)
(*                                                                         *)
(* The value and the void handlers have a map each and share the counter   *)
(* of ids; the two maps are one here, since no id is in both.              *)
(***************************************************************************)
EXTENDS Naturals, FiniteSets, Sequences, Functions

CONSTANTS
  Decoders,     \* decoder objects the program may hold
  Rebuilding,   \* those whose flush() builds another browser decoder: audio's
  MaxSlots,     \* bound: no build starts once so many ids are spent
  MaxDepth      \* bound: callbacks nested in each other

ASSUME DispatchAssumption ==
  Rebuilding \subseteq Decoders /\ MaxSlots \in Nat /\ MaxDepth \in Nat

VARIABLES
  slots,        \* VALUE_HANDLERS and VOID_HANDLERS: id -> Slot, where present
  nextSlotId,   \* NEXT_SLOT_ID
  builds,       \* history: how many decoders were built, to tell them apart
  trampolines,  \* the functions the browser was ever given, by id and build
  decoders,     \* what the program holds: three slot ids each
  stack         \* handlers running, the innermost last

slotsVars == <<slots, nextSlotId, builds, trampolines, decoders, stack>>

Slot == [build : Nat, parked : BOOLEAN]   \* Some(handler), or None while it runs
Trampoline == [id : Nat, build : Nat]
Running == [id : Nat, by : Nat, build : Nat]   \* called by, and handler of
Holder == [held : BOOLEAN, open : BOOLEAN, build : Nat, ids : SUBSET Nat]

Nobody == [held |-> FALSE, open |-> FALSE, build |-> 0, ids |-> {}]

TypeOK ==
  /\ slots \in [DOMAIN slots -> Slot]
  /\ \A id \in DOMAIN slots : id \in Nat /\ id < nextSlotId
  /\ nextSlotId \in Nat /\ builds \in Nat
  /\ trampolines \subseteq Trampoline
  /\ decoders \in [Decoders -> Holder]
  /\ stack \in Seq(Running)

SlotsInit ==
  /\ slots = [id \in {} |-> Nobody]
  /\ nextSlotId = 0 /\ builds = 0 /\ trampolines = {}
  /\ decoders = [d \in Decoders |-> Nobody]
  /\ stack = <<>>

-----------------------------------------------------------------------------
(* Slots *)

\* Mutant: a slot whose handler is running is left alone.
FreedIfParked(map, ids) ==
  [id \in {i \in DOMAIN map : i \in ids => ~map[i].parked} |-> map[id]]

\* free_value_handler, free_void_handler: gone whether parked or running.
Freed(map, ids) == [id \in DOMAIN map \ ids |-> map[id]]

\* Mutant: the counter is narrow and wraps.
FreshWrapping(n) == {(nextSlotId + k) % 4 : k \in 0 .. n - 1}

\* The ids next_slot_id hands out.
Fresh(n) == {nextSlotId + k : k \in 0 .. n - 1}

Allocated(map, n) ==
  [id \in DOMAIN map \cup Fresh(n) |->
     IF id \in Fresh(n) THEN [build |-> builds, parked |-> TRUE] ELSE map[id]]

-----------------------------------------------------------------------------
(* Decoders: open, flush and Drop *)

\* The steps of a build: three allocations, the constructor, configure().
Steps == 1 .. 5
Asked(step) == IF step < 3 THEN step ELSE 3           \* ids it has spent
Obtained(step) == IF step <= 3 THEN step - 1 ELSE 3   \* slots it had by then

\* Mutant: the last slot obtained is forgotten.
RolledBackButOne(step) == Fresh(Obtained(step) - 1)

RolledBack(step) == Fresh(Obtained(step))

MayBuild == nextSlotId + 3 <= MaxSlots

Built(d, map) ==
  /\ MayBuild
  /\ slots' = Allocated(map, 3)
  /\ nextSlotId' = nextSlotId + 3 /\ builds' = builds + 1
  /\ trampolines' = trampolines \cup [id : Fresh(3), build : {builds}]
  /\ decoders' = [decoders EXCEPT ![d] =
       [held |-> TRUE, open |-> TRUE, build |-> builds, ids |-> Fresh(3)]]
  /\ UNCHANGED stack

\* A step fails: what was allocated is freed, the ids are spent.
Unbuilt(step, map) ==
  /\ MayBuild
  /\ slots' = Freed(Allocated(map, Obtained(step)), RolledBack(step))
  /\ nextSlotId' = nextSlotId + Asked(step) /\ builds' = builds + 1
  /\ UNCHANGED <<trampolines, stack>>

Open(d) == ~decoders[d].held /\ Built(d, slots)

OpenFails(d) ==
  /\ ~decoders[d].held
  /\ \E step \in Steps : Unbuilt(step, slots)
  /\ UNCHANGED decoders

\* The audio decoder frees the slots it names, live or not, and builds anew.
Rebuilds(d) ==
  /\ d \in Rebuilding /\ decoders[d].held
  /\ Built(d, Freed(slots, decoders[d].ids))

\* It keeps naming the slots it has freed, and Drop will free them again.
RebuildFails(d) ==
  /\ d \in Rebuilding /\ decoders[d].held
  /\ \E step \in Steps : Unbuilt(step, Freed(slots, decoders[d].ids))
  /\ decoders' = [decoders EXCEPT ![d].open = FALSE]

DropDecoder(d) ==
  /\ decoders[d].held
  /\ slots' = Freed(slots, decoders[d].ids)
  /\ decoders' = [decoders EXCEPT ![d] = Nobody]
  /\ UNCHANGED <<nextSlotId, builds, trampolines, stack>>

-----------------------------------------------------------------------------
(* The dispatchers *)

\* Mutant: the handler is called in its slot.
CalledInPlace(id) == UNCHANGED slots

TakenOut(id) == slots' = [slots EXCEPT ![id].parked = FALSE]

\* Phases 1 and 2: the handler is taken out of its slot and entered.
Dispatch(t) ==
  /\ Len(stack) < MaxDepth
  /\ t.id \in DOMAIN slots /\ slots[t.id].parked
  /\ TakenOut(t.id)
  /\ stack' = Append(stack, [id |-> t.id, by |-> t.build, build |-> slots[t.id].build])
  /\ UNCHANGED <<nextSlotId, builds, trampolines, decoders>>

\* No slot, or its handler is running: the value is closed.
Orphan(t) ==
  /\ Len(stack) < MaxDepth
  /\ t.id \in DOMAIN slots => ~slots[t.id].parked
  /\ UNCHANGED slotsVars

Top == stack[Len(stack)]

\* Mutant: the slot is put back whether or not it still exists.
InsertedAgain ==
  slots' = [id \in DOMAIN slots \cup {Top.id} |->
              IF id = Top.id THEN [build |-> Top.build, parked |-> TRUE] ELSE slots[id]]

\* Phase 3: back into the slot, if the slot was not freed meanwhile.
Reparked ==
  slots' = IF Top.id \in DOMAIN slots
           THEN [slots EXCEPT ![Top.id] = [build |-> Top.build, parked |-> TRUE]]
           ELSE slots

HandlerReturns ==
  /\ stack # <<>>
  /\ Reparked
  /\ stack' = SubSeq(stack, 1, Len(stack) - 1)
  /\ UNCHANGED <<nextSlotId, builds, trampolines, decoders>>

SlotsNext ==
  \/ \E d \in Decoders :
       Open(d) \/ OpenFails(d) \/ Rebuilds(d) \/ RebuildFails(d) \/ DropDecoder(d)
  \/ \E t \in trampolines : Dispatch(t) \/ Orphan(t)
  \/ HandlerReturns

SlotsSpec == SlotsInit /\ [][SlotsNext]_slotsVars

-----------------------------------------------------------------------------
(* Properties *)

Held(d, id) == decoders[d].open /\ id \in decoders[d].ids

\* A slot is there exactly as long as the decoder it was built for is open and
\* names it: none leaks through a failed build or a free inside its own handler,
\* and no free, not the second one of the same id, takes another's.
SlotsAreOwned ==
  /\ \A id \in DOMAIN slots :
       \E d \in Decoders : Held(d, id) /\ decoders[d].build = slots[id].build
  /\ \A d \in Decoders : decoders[d].open => decoders[d].ids \subseteq DOMAIN slots

\* A slot is empty exactly while its handler runs: no handler is lost, and none
\* is missed by a callback because an earlier one forgot to put it back.
EmptyIsRunning ==
  \A id \in DOMAIN slots : ~slots[id].parked <=> \E i \in DOMAIN stack : stack[i].id = id

\* No handler is entered while it runs (it is an FnMut).
NeverReentered == \A i, j \in DOMAIN stack : stack[i].id = stack[j].id => i = j

\* A callback reaches the handler of the decoder it was made for, or none.
NoAlias == \A i \in DOMAIN stack : stack[i].by = stack[i].build

\* Each handler runs in its own place: alone, taken out of its slot and put
\* back, and only for the callbacks of the decoder it was built for.
HandlersApart == EmptyIsRunning /\ NeverReentered /\ NoAlias

\* A handler that has been freed is not entered again.
FreedStaysSilent ==
  [][Len(stack') > Len(stack) =>
       \E d \in Decoders : Held(d, stack'[Len(stack')].id)
                             /\ decoders[d].build = stack'[Len(stack')].by]_slotsVars
=============================================================================
