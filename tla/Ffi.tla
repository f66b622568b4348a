--------------------------------- MODULE Ffi --------------------------------
(***************************************************************************)
(* The C interface, crates/rasen-archive-ffi: handles, output buffers,     *)
(* callback sources and the thread-local error message, called from        *)
(* several threads and, from inside a callback, on the same thread again.  *)
(*                                                                         *)
(* A call is a frame on its thread's stack that goes through the steps of  *)
(* its function in the order in which Rust evaluates them: checks of the   *)
(* arguments, the library call, the allocation of the result, the          *)
(* assignment of the output.  In `*out? = value?` the value comes first.   *)
(* The caller keeps the header's contract: it frees what it owns once, not *)
(* while a call uses it, and passes output buffers that own nothing.       *)
(***************************************************************************)
EXTENDS Naturals, Sequences, FiniteSets, Functions

CONSTANTS
    Threads,
    Slots, Holds,   \* the caller's pointers, and the kind of box each is for
    Users,          \* user_data of the caller's callback sources
    Null,
    MaxBoxes,       \* bound: boxes alive at once
    MaxDepth,       \* bound: calls inside callbacks inside calls
    MaxCalls        \* bound: calls a thread makes

Boxes == 1 .. MaxBoxes
Kinds == {"archive", "buffer", "scratch"}

ASSUME FfiAssumption ==
    /\ Holds \in [Slots -> Kinds]
    /\ Null \notin Boxes \cup Users \cup Slots
    /\ {MaxBoxes, MaxDepth, MaxCalls} \subseteq Nat

VARIABLES
    heap,       \* the kind of each live box, or "free"
    source,     \* per archive box: the user_data its callbacks take
    slot,       \* what the caller's pointers point to
    user,       \* per user_data: "caller", "library" or "destroyed"
    stack,      \* per thread: the calls in progress
    last_error, \* per thread: the call LAST_ERROR tells about, 0 at first
    latest,     \* per thread: the last call that returned an error (history)
    lost,       \* the scratches that failed calls of scratch_new left (history)
    calls       \* per thread: calls made so far

memVars == <<heap, source, slot>>
errVars == <<last_error, latest, lost>>
vars == <<memVars, user, stack, errVars, calls>>

-----------------------------------------------------------------------------
(* The exported functions: their steps, what they allocate for the caller, *)
(* whether they work through an archive or take over a source, and whether *)
(* the library call reads the source.  (Module Reader has the bytes.)      *)
(* "in" stands for the checks of archive, path, key, dst and scratch.      *)

Fn(steps, makes, via, reads) ==
    [steps |-> steps, makes |-> makes, via |-> via, reads |-> reads]

open_memory == Fn(<<"out", "in", "core", "box", "assign">>, "archive", "none", FALSE)
open_source == Fn(<<"out", "in", "core", "box", "assign">>, "archive", "source", TRUE)
info == Fn(<<"in", "out", "assign">>, "none", "archive", FALSE)
entry == Fn(<<"in", "core", "out", "assign">>, "none", "archive", FALSE)
contains == Fn(<<"in", "core", "out", "assign">>, "none", "archive", FALSE)
verify == Fn(<<"in", "core">>, "none", "archive", TRUE)
read_buffer == Fn(<<"in", "out", "core", "box", "assign">>, "buffer", "archive", TRUE)
read_chunk == read_buffer
read_range == read_buffer
read_into == Fn(<<"in", "core">>, "none", "archive", TRUE)
read_chunk_into == read_into
read_range_into == Fn(<<"in", "core", "out", "assign">>, "none", "archive", TRUE)
read_into_with_scratch == read_into
read_range_with_scratch == read_range_into
scratch_new == Fn(<<"box", "out", "assign">>, "scratch", "none", FALSE)
hash_path == Fn(<<"in", "core", "out", "assign">>, "none", "none", FALSE)
normalize_path == Fn(<<"out", "in", "core", "box", "assign">>, "buffer", "none", FALSE)
limits_runtime == Fn(<<"out", "assign">>, "none", "none", FALSE)
pack_memory == Fn(<<"out", "in", "core", "box", "assign">>, "buffer", "none", FALSE)
archive_free == Fn(<<"drop">>, "none", "archive", FALSE)

EntryPoints ==
    {open_memory, open_source, info, entry, contains, verify, read_buffer,
     read_chunk, read_range, read_into, read_chunk_into, read_range_into,
     read_into_with_scratch, read_range_with_scratch, scratch_new, hash_path,
     normalize_path, limits_runtime, pack_memory}

-----------------------------------------------------------------------------
Init ==
    /\ heap = [b \in Boxes |-> "free"]
    /\ source = [b \in Boxes |-> Null]
    /\ slot = [s \in Slots |-> Null]
    /\ user = [u \in Users |-> "caller"]
    /\ stack = [t \in Threads |-> << >>]
    /\ last_error = [t \in Threads |-> 0]
    /\ latest = [t \in Threads |-> 0]
    /\ lost = {}
    /\ calls = [t \in Threads |-> 0]

Running(t) == stack[t] # << >>
Top(t) == stack[t][Len(stack[t])]
Pushed(t, f) == stack' = [stack EXCEPT ![t] = Append(@, f)]
Popped(t) == stack' = [stack EXCEPT ![t] = SubSeq(@, 1, Len(@) - 1)]
SetTop(t, f) == stack' = [stack EXCEPT ![t][Len(stack[t])] = f]

Frames == UNION {{stack[t][d] : d \in DOMAIN stack[t]} : t \in Threads}

\* A callback runs the caller's code, which may call again.
InCallback(f) == f.mode \in {"reading", "destroying"}
Callable(t) ==
    /\ Running(t) => InCallback(Top(t))
    /\ Len(stack[t]) < MaxDepth
    /\ calls[t] < MaxCalls

\* f is about to take the step.
Before(f, step) ==
    /\ f.mode = "running"
    /\ f.at <= Len(f.fn.steps)
    /\ f.fn.steps[f.at] = step

Advanced(f) == [f EXCEPT !.at = @ + 1]
Failed(f) == [f EXCEPT !.mode = "failed"]

\* What the caller may pass: a pointer to put the result in that owns nothing
\* and is not waiting for another call's result; an archive it has, or NULL; a
\* source it still owns.
Outs(fn) ==
    IF fn.makes = "none" THEN {Null}
    ELSE {s \in Slots : /\ Holds[s] = fn.makes /\ slot[s] = Null
                        /\ \A f \in Frames : f.slot # s}
Archives(fn) ==
    IF fn.via = "archive" THEN {slot[s] : s \in {x \in Slots : Holds[x] = "archive"}}
                          ELSE {Null}
Sources(fn) ==
    IF fn.via = "source" THEN {u \in Users : user[u] = "caller"} ELSE {Null}

\* The caller calls fn with the arguments in bad NULL or ill-formed.  A
\* source changes hands before anything is checked.
Call(t, fn, bad, s, b, u) ==
    /\ fn.via = "archive" /\ b = Null => "in" \in bad
    /\ user' = [x \in Users |-> IF x = u THEN "library" ELSE user[x]]
    /\ calls' = [calls EXCEPT ![t] = @ + 1]
    /\ Pushed(t, [fn |-> fn, at |-> 1, mode |-> "running", bad |-> bad, slot |-> s,
                  archive |-> b, user |-> u, box |-> Null, id |-> calls'[t]])
    /\ UNCHANGED <<memVars, errVars>>

\* bytes, utf8, required_ref and required_mut.
Check(t) ==
    /\ Running(t)
    /\ \E step \in {"in", "out"} :
          /\ Before(Top(t), step)
          /\ SetTop(t, IF step \in Top(t).bad THEN Failed(Top(t)) ELSE Advanced(Top(t)))
    /\ UNCHANGED <<memVars, user, errVars, calls>>

\* Where the library reads from: the caller's user_data, or memory or a file.
SourceOf(f) == IF f.archive = Null THEN f.user ELSE source[f.archive]

\* The library reads through read_at, which runs the caller's code.
ReadAt(t) ==
    /\ Running(t)
    /\ Before(Top(t), "core")
    /\ Top(t).fn.reads
    /\ SourceOf(Top(t)) # Null
    /\ SetTop(t, [Top(t) EXCEPT !.mode = "reading"])
    /\ UNCHANGED <<memVars, user, errVars, calls>>

\* read_at has put bytes in dst, or in a buffer of the library's; a status
\* other than 0 fails the call.
ReadAtReturns(t) ==
    LET f == [Top(t) EXCEPT !.mode = "running"] IN
    /\ Running(t)
    /\ Top(t).mode = "reading"
    /\ SetTop(t, f) \/ SetTop(t, Failed(f))
    /\ UNCHANGED <<memVars, user, errVars, calls>>

\* The library call succeeds, or it returns an error or panics.
CoreReturns(t) ==
    /\ Running(t)
    /\ Before(Top(t), "core")
    /\ SetTop(t, Advanced(Top(t))) \/ SetTop(t, Failed(Top(t)))
    /\ UNCHANGED <<memVars, user, errVars, calls>>

\* Box::into_raw; into_buffer, which allocates nothing for no bytes.  The
\* lowest free address is used again first, so that a stale pointer would
\* lead to a newer box.
Allocate(t, b) ==
    LET f == Top(t) IN
    /\ Running(t)
    /\ Before(f, "box")
    /\ IF b = Null
       THEN f.fn.makes = "buffer" /\ UNCHANGED <<heap, source>>
       ELSE /\ heap[b] = "free" /\ \A c \in 1 .. b - 1 : heap[c] # "free"
            /\ heap' = [heap EXCEPT ![b] = f.fn.makes]
            /\ source' = [source EXCEPT ![b] = f.user]
    /\ SetTop(t, Advanced([f EXCEPT !.box = b, !.user = Null]))
    /\ UNCHANGED <<slot, user, errVars, calls>>

Assign(t) ==
    LET f == Top(t) IN
    /\ Running(t)
    /\ Before(f, "assign")
    /\ slot' = [s \in Slots |-> IF s = f.slot THEN f.box ELSE slot[s]]
    /\ SetTop(t, Advanced([f EXCEPT !.box = Null]))
    /\ UNCHANGED <<heap, source, user, errVars, calls>>

ReturnOk(t) ==
    /\ Running(t)
    /\ Top(t).mode = "running"
    /\ Top(t).at > Len(Top(t).fn.steps)
    /\ Popped(t)
    /\ UNCHANGED <<memVars, user, errVars, calls>>

\* Faulty: an open that fails forgets the source it was given.
DropSource_Forgotten(t) ==
    /\ Running(t)
    /\ Top(t).mode = "failed"
    /\ Top(t).user # Null
    /\ SetTop(t, [Top(t) EXCEPT !.user = Null])
    /\ UNCHANGED <<memVars, user, errVars, calls>>

\* A failed open drops the source: the caller's destroy runs.
DropSource(t) ==
    /\ Running(t)
    /\ Top(t).mode = "failed"
    /\ Top(t).user # Null
    /\ user' = [user EXCEPT ![Top(t).user] = "destroyed"]
    /\ SetTop(t, [Top(t) EXCEPT !.mode = "destroying"])
    /\ UNCHANGED <<memVars, errVars, calls>>

\* Faulty: a message that a call inside destroy has set is kept.
SetLastError_KeepsNested(t) ==
    /\ Running(t)
    /\ Top(t).mode = "failed"
    /\ Top(t).user = Null
    /\ last_error' = [last_error EXCEPT ![t] = IF @ > Top(t).id THEN @ ELSE Top(t).id]
    /\ SetTop(t, [Top(t) EXCEPT !.mode = "reported"])
    /\ UNCHANGED <<memVars, user, latest, lost, calls>>

\* ffi_call has the error, everything of the call being dropped: set_last_error.
SetLastError(t) ==
    /\ Running(t)
    /\ Top(t).mode = "failed"
    /\ Top(t).user = Null
    /\ last_error' = [last_error EXCEPT ![t] = Top(t).id]
    /\ SetTop(t, [Top(t) EXCEPT !.mode = "reported"])
    /\ UNCHANGED <<memVars, user, latest, lost, calls>>

\* The status goes to the caller.  A scratch_new whose out is NULL has made
\* its scratch before it looks, and then nobody has it.
ReturnError(t) ==
    /\ Running(t)
    /\ Top(t).mode = "reported"
    /\ latest' = [latest EXCEPT ![t] = Top(t).id]
    /\ lost' = lost \cup {b \in Boxes : Top(t).fn = scratch_new /\ b = Top(t).box}
    /\ Popped(t)
    /\ UNCHANGED <<memVars, user, last_error, calls>>

-----------------------------------------------------------------------------
(* The functions that free *)

\* rasen_archive_free of an archive no call uses; the caller forgets it.
ArchiveFree(t, s) ==
    /\ Callable(t)
    /\ Holds[s] = "archive"
    /\ \A f \in Frames : f.archive = Null \/ f.archive # slot[s]
    /\ calls' = [calls EXCEPT ![t] = @ + 1]
    /\ IF slot[s] = Null THEN UNCHANGED stack   \* free(NULL)
       ELSE Pushed(t, [fn |-> archive_free, at |-> 1, mode |-> "running", bad |-> {},
                       slot |-> Null, archive |-> slot[s], user |-> Null,
                       box |-> Null, id |-> calls'[t]])
    /\ slot' = [slot EXCEPT ![s] = Null]
    /\ UNCHANGED <<heap, source, user, errVars>>

\* Dropping the archive drops its source first: the caller's destroy runs.
DropArchive(t) ==
    LET f == Top(t) IN
    /\ Running(t)
    /\ Before(f, "drop")
    /\ SetTop(t, [f EXCEPT !.mode = "destroying"])
    /\ user' = [u \in Users |-> IF u = source[f.archive] THEN "destroyed" ELSE user[u]]
    /\ UNCHANGED <<memVars, errVars, calls>>

\* destroy returns (or there was none): an archive's box is given back, a
\* failed open goes on to report its error.
DestroyReturns(t) ==
    LET f == Top(t) IN
    /\ Running(t)
    /\ f.mode = "destroying"
    /\ IF f.fn = archive_free
       THEN /\ heap' = [heap EXCEPT ![f.archive] = "free"]
            /\ source' = [source EXCEPT ![f.archive] = Null]
            /\ Popped(t)
       ELSE /\ SetTop(t, [f EXCEPT !.mode = "failed", !.user = Null])
            /\ UNCHANGED <<heap, source>>
    /\ UNCHANGED <<slot, user, errVars, calls>>

\* Faulty: the caller's buffer keeps the pointer that was freed.
BoxFree_KeepsPointer(t, s) ==
    /\ Callable(t)
    /\ Holds[s] \in {"buffer", "scratch"}
    /\ \A f \in Frames : f.slot # s
    /\ heap' = [b \in Boxes |-> IF b = slot[s] THEN "free" ELSE heap[b]]
    /\ calls' = [calls EXCEPT ![t] = @ + 1]
    /\ UNCHANGED <<source, slot, user, stack, errVars>>

\* rasen_buffer_free, which resets the caller's buffer, and rasen_scratch_free,
\* after which the caller forgets the scratch.  Both accept NULL.
BoxFree(t, s) ==
    /\ Callable(t)
    /\ Holds[s] \in {"buffer", "scratch"}
    /\ \A f \in Frames : f.slot # s
    /\ heap' = [b \in Boxes |-> IF b = slot[s] THEN "free" ELSE heap[b]]
    /\ slot' = [slot EXCEPT ![s] = Null]
    /\ calls' = [calls EXCEPT ![t] = @ + 1]
    /\ UNCHANGED <<source, user, stack, errVars>>

-----------------------------------------------------------------------------
ThreadStep(t) ==
    \/ Check(t) \/ ReadAt(t) \/ ReadAtReturns(t) \/ CoreReturns(t)
    \/ \E b \in Boxes \cup {Null} : Allocate(t, b)
    \/ Assign(t) \/ ReturnOk(t) \/ DropSource(t) \/ SetLastError(t)
    \/ ReturnError(t) \/ DropArchive(t) \/ DestroyReturns(t)

Client(t) ==
    \/ /\ Callable(t)
       /\ \E fn \in EntryPoints : \E bad \in SUBSET ({"in", "out"} \cap Range(fn.steps)),
             s \in Outs(fn), b \in Archives(fn), u \in Sources(fn) :
                Call(t, fn, bad, s, b, u)
    \/ \E s \in Slots : ArchiveFree(t, s) \/ BoxFree(t, s)

\* Every thread has made its calls.
Quiet ==
    /\ \A t \in Threads : ~Running(t) /\ calls[t] = MaxCalls
    /\ UNCHANGED vars

Next == Quiet \/ \E t \in Threads : ThreadStep(t) \/ Client(t)

Spec == Init /\ [][Next]_vars

-----------------------------------------------------------------------------
(* Properties *)

Frame == [fn : EntryPoints \cup {archive_free}, at : 1 .. 6,
          mode : {"running", "reading", "failed", "destroying", "reported"},
          bad : SUBSET {"in", "out"}, slot : Slots \cup {Null},
          archive : Boxes \cup {Null}, user : Users \cup {Null},
          box : Boxes \cup {Null}, id : 1 .. MaxCalls]

\* Frames, boxes and pointers have the shape the interface gives them, and a
\* pointer of the caller's points to a box of its own kind, or nowhere.
TypeOK ==
    /\ heap \in [Boxes -> Kinds \cup {"free"}]
    /\ source \in [Boxes -> Users \cup {Null}]
    /\ slot \in [Slots -> Boxes \cup {Null}]
    /\ user \in [Users -> {"caller", "library", "destroyed"}]
    /\ \A t \in Threads : Len(stack[t]) <= MaxDepth
    /\ Frames \subseteq Frame
    /\ last_error \in [Threads -> 0 .. MaxCalls]
    /\ latest \in [Threads -> 0 .. MaxCalls]
    /\ lost \subseteq Boxes
    /\ calls \in [Threads -> 0 .. MaxCalls]

\* Who answers for a box: the caller's pointers to it, and the calls that
\* have just made it or are freeing it.
Owners(b) ==
    {s \in Slots : slot[s] = b} \cup
    {x \in Threads \X (1 .. MaxDepth) :
        x[2] \in DOMAIN stack[x[1]] /\ LET f == stack[x[1]][x[2]] IN
            f.box = b \/ (f.fn = archive_free /\ f.archive = b)}

\* No box is leaked, freed twice or left with two owners, on any path of any
\* call on any thread: each live box has exactly one owner, and no pointer
\* leads to a box that is not live or of another kind.  The one leak of the
\* interface is the scratch of a scratch_new whose out was NULL, which nobody
\* ever has or frees.
OwnedOnce ==
    /\ \A b \in Boxes \ lost :
          Cardinality(Owners(b)) = IF heap[b] = "free" THEN 0 ELSE 1
    /\ \A b \in lost : heap[b] = "scratch" /\ Owners(b) = {}
    /\ \A s \in Slots : slot[s] # Null => heap[slot[s]] = Holds[s]

\* rasen_archive_free has come to the destroy of b's source.
Destroying(b) ==
    \E t \in Threads : \E d \in DOMAIN stack[t] :
        /\ stack[t][d].fn = archive_free /\ stack[t][d].archive = b
        /\ stack[t][d].mode = "destroying"

\* Who still has to destroy a source: the archive that reads it, until its
\* rasen_archive_free does; the call it was passed to, until that does.
Holders(u) ==
    {b \in Boxes : heap[b] = "archive" /\ source[b] = u /\ ~Destroying(b)} \cup
    {x \in Threads \X (1 .. MaxDepth) :
        x[2] \in DOMAIN stack[x[1]] /\ LET f == stack[x[1]][x[2]] IN
            f.user = u /\ f.mode # "destroying"}

\* Ownership of user_data passes to the library with open_source, also when
\* it fails: destroy runs exactly once, when the archive or the failed call
\* lets go of it, for there is one holder until it runs and none after; and
\* read_at never runs after it.
SourceDestroyedOnce ==
    /\ \A u \in Users :
          Cardinality(Holders(u)) = IF user[u] = "library" THEN 1 ELSE 0
    /\ \A f \in Frames : f.mode = "reading" => user[SourceOf(f)] = "library"

\* Whenever the caller's code runs on a thread, outside any call or in a
\* callback, rasen_last_error_message tells about the last call on this thread
\* that returned an error: whatever other threads do, and although destroy,
\* which runs between a call's failure and its return, may make calls that fail.
ErrorIsLatest ==
    \A t \in Threads :
        (Running(t) => InCallback(Top(t))) => last_error[t] = latest[t]
=============================================================================
