------------------------------ MODULE FfiProofs ------------------------------
(***************************************************************************)
(* What the C interface keeps true for any number of threads, callers'     *)
(* pointers, sources, boxes, nested calls and calls: who owns what.        *)
(***************************************************************************)
EXTENDS Ffi, FiniteSetTheorems, SequenceTheorems, TLAPS

\* The steps from the i-th on, once the result has been allocated: the
\* assignment, after a look at out in scratch_new alone.
AfterBox(fn, i) ==
    /\ fn.steps[Len(fn.steps)] = "assign"
    /\ \A j \in i .. Len(fn.steps) :
          /\ fn.steps[j] \in {"out", "assign"}
          /\ fn.steps[j] = "out" => fn.makes = "scratch"

\* The result is still to be allocated.
BoxAhead(fn, i) == \E j \in i .. Len(fn.steps) : fn.steps[j] = "box"

\* A call's arguments and its result, when h, sl, so and us are the boxes, the
\* caller's pointers, the archives' sources and who has each source.
FrameOk(h, sl, so, us, f) ==
    /\ f.fn = archive_free =>
          /\ f.mode \in {"running", "destroying"} /\ f.at = 1
          /\ f.archive \in Boxes /\ h[f.archive] = "archive"
          /\ f.slot = Null /\ f.box = Null /\ f.user = Null
          /\ f.mode = "destroying" /\ so[f.archive] # Null => us[so[f.archive]] = "destroyed"
    /\ f.box # Null =>
          /\ h[f.box] = f.fn.makes /\ f.fn.makes # "none"
          /\ f.at <= Len(f.fn.steps) /\ AfterBox(f.fn, f.at)
          /\ f.mode # "running" => f.fn.makes = "scratch"
    /\ f.fn.makes = "none" => f.slot = Null
    /\ f.fn.makes # "none" =>
          /\ f.slot \in Slots /\ Holds[f.slot] = f.fn.makes
          /\ f.at <= Len(f.fn.steps) => sl[f.slot] = Null
    /\ f.mode = "reading" =>
          /\ f.at <= Len(f.fn.steps) /\ f.fn.steps[f.at] = "core"
          /\ (IF f.archive = Null THEN f.user ELSE so[f.archive]) # Null
    /\ f.archive # Null /\ f.fn # archive_free =>
          \E s \in Slots : Holds[s] = "archive" /\ sl[s] = f.archive
    /\ f.user # Null =>
          /\ f.fn.via = "source" /\ f.archive = Null /\ f.box = Null
          /\ BoxAhead(f.fn, f.at)
          /\ f.mode # "reported"
          /\ us[f.user] = IF f.mode = "destroying" THEN "destroyed" ELSE "library"

FramesInv ==
    \A t \in Threads : \A d \in DOMAIN stack[t] :
        FrameOk(heap, slot, source, user, stack[t][d])

Owns(f, b) == f.box = b \/ (f.fn = archive_free /\ f.archive = b)

\* Two calls share no result, no output and no source.
Apart(f, g) ==
    /\ f.slot = Null \/ f.slot # g.slot
    /\ f.user = Null \/ f.user # g.user
    /\ \A b \in Boxes : ~(Owns(f, b) /\ Owns(g, b))

ApartInv ==
    \A t, u \in Threads : \A d \in DOMAIN stack[t], e \in DOMAIN stack[u] :
        t # u \/ d # e => Apart(stack[t][d], stack[u][e])

\* The caller's pointers, and theirs against the calls'.
SlotInv ==
    /\ \A s \in Slots : slot[s] # Null =>
          /\ heap[slot[s]] = Holds[s]
          /\ \A r \in Slots \ {s} : slot[r] # slot[s]
          /\ \A t \in Threads : \A d \in DOMAIN stack[t] : ~Owns(stack[t][d], slot[s])
    /\ \A b \in Boxes : heap[b] # "free" /\ b \notin lost =>
          \/ \E s \in Slots : slot[s] = b
          \/ \E t \in Threads : \E d \in DOMAIN stack[t] : Owns(stack[t][d], b)
    /\ \A b \in lost :
          /\ heap[b] = "scratch" /\ \A s \in Slots : slot[s] # b
          /\ \A t \in Threads : \A d \in DOMAIN stack[t] : ~Owns(stack[t][d], b)

\* A source is the library's from the call that passes it until it is
\* destroyed, and one call or one archive has it.
SourceInv ==
    /\ \A b \in Boxes : heap[b] = "archive" /\ source[b] # Null =>
          /\ \/ user[source[b]] = "library"
             \/ user[source[b]] = "destroyed" /\ Destroying(b)
          /\ \A c \in Boxes \ {b} : heap[c] = "archive" => source[c] # source[b]
          /\ \A t \in Threads : \A d \in DOMAIN stack[t] : stack[t][d].user # source[b]
    /\ \A u \in Users : user[u] = "library" =>
          \/ \E b \in Boxes : heap[b] = "archive" /\ source[b] = u
          \/ \E t \in Threads : \E d \in DOMAIN stack[t] : stack[t][d].user = u

OwnInv == FramesInv /\ ApartInv /\ SlotInv /\ SourceInv

Typing ==
    /\ heap \in [Boxes -> Kinds \cup {"free"}]
    /\ source \in [Boxes -> Users \cup {Null}]
    /\ slot \in [Slots -> Boxes \cup {Null}]
    /\ user \in [Users -> {"caller", "library", "destroyed"}]
    /\ stack \in [Threads -> Seq(Frame)]
    /\ \A t \in Threads : Len(stack[t]) <= MaxDepth
    /\ last_error \in [Threads -> 0 .. MaxCalls]
    /\ latest \in [Threads -> 0 .. MaxCalls]
    /\ lost \subseteq Boxes
    /\ calls \in [Threads -> 0 .. MaxCalls]

-----------------------------------------------------------------------------
(* The exported functions *)

FnFacts(fn) ==
    /\ Len(fn.steps) \in 1 .. 5 /\ DOMAIN fn.steps = 1 .. Len(fn.steps)
    /\ fn.makes \in Kinds \cup {"none"}
    /\ \A i \in 1 .. Len(fn.steps) :
          /\ fn.steps[i] \in {"in", "out", "core", "box", "assign"}
          /\ fn.steps[i] = "box" =>
                fn.makes # "none" /\ i < Len(fn.steps) /\ AfterBox(fn, i + 1)
          /\ fn.steps[i] = "assign" => i = Len(fn.steps)
    /\ fn.via = "source" => fn.makes = "archive" /\ BoxAhead(fn, 1)

LEMMA ShapeFacts ==
    ASSUME NEW makes \in Kinds \cup {"none"}, NEW via, NEW reads,
           NEW steps,
           \/ /\ steps \in {<<"out", "in", "core", "box", "assign">>,
                             <<"in", "out", "core", "box", "assign">>}
              /\ makes # "none" /\ (via = "source" => makes = "archive")
           \/ steps = <<"box", "out", "assign">> /\ makes = "scratch" /\ via # "source"
           \/ /\ steps \in {<<"in", "out", "assign">>, <<"in", "core", "out", "assign">>,
                             <<"in", "core">>, <<"out", "assign">>}
              /\ via # "source"
    PROVE  FnFacts(Fn(steps, makes, via, reads))
<1> DEFINE fn == Fn(steps, makes, via, reads)
<1>0. fn.steps = steps /\ fn.makes = makes /\ fn.via = via
  BY DEF Fn
<1> SUFFICES FnFacts(fn)
  OBVIOUS
<1> HIDE DEF fn
<1>1. CASE steps = <<"out", "in", "core", "box", "assign">> /\ makes # "none"
           /\ (via = "source" => makes = "archive")
  <2>1. /\ Len(fn.steps) = 5 /\ DOMAIN fn.steps = 1 .. 5
        /\ fn.steps[1] = "out" /\ fn.steps[2] = "in" /\ fn.steps[3] = "core" /\ fn.steps[4] = "box" /\ fn.steps[5] = "assign"
    BY <1>0, <1>1
  <2>2. AfterBox(fn, 5) /\ BoxAhead(fn, 1)
    BY <1>0, <1>1, <2>1 DEF AfterBox, BoxAhead
  <2>3. fn.makes \in Kinds \cup {"none"} /\ fn.makes # "none" /\ (fn.via = "source" => fn.makes = "archive")
    BY <1>0, <1>1 DEF Kinds
  <2>4. \A i \in 1 .. 5 : i = 1 \/ i = 2 \/ i = 3 \/ i = 4 \/ i = 5
    OBVIOUS
  <2>5. \A i \in 1 .. Len(fn.steps) :
          /\ fn.steps[i] \in {"in", "out", "core", "box", "assign"}
          /\ fn.steps[i] = "box" =>
                fn.makes # "none" /\ i < Len(fn.steps) /\ AfterBox(fn, i + 1)
          /\ fn.steps[i] = "assign" => i = Len(fn.steps)
    BY <2>1, <2>2, <2>3, <2>4
  <2> QED
    BY <2>1, <2>2, <2>3, <2>5 DEF FnFacts
<1>2. CASE steps = <<"in", "out", "core", "box", "assign">> /\ makes # "none"
           /\ (via = "source" => makes = "archive")
  <2>1. /\ Len(fn.steps) = 5 /\ DOMAIN fn.steps = 1 .. 5
        /\ fn.steps[1] = "in" /\ fn.steps[2] = "out" /\ fn.steps[3] = "core" /\ fn.steps[4] = "box" /\ fn.steps[5] = "assign"
    BY <1>0, <1>2
  <2>2. AfterBox(fn, 5) /\ BoxAhead(fn, 1)
    BY <1>0, <1>2, <2>1 DEF AfterBox, BoxAhead
  <2>3. fn.makes \in Kinds \cup {"none"} /\ fn.makes # "none" /\ (fn.via = "source" => fn.makes = "archive")
    BY <1>0, <1>2 DEF Kinds
  <2>4. \A i \in 1 .. 5 : i = 1 \/ i = 2 \/ i = 3 \/ i = 4 \/ i = 5
    OBVIOUS
  <2>5. \A i \in 1 .. Len(fn.steps) :
          /\ fn.steps[i] \in {"in", "out", "core", "box", "assign"}
          /\ fn.steps[i] = "box" =>
                fn.makes # "none" /\ i < Len(fn.steps) /\ AfterBox(fn, i + 1)
          /\ fn.steps[i] = "assign" => i = Len(fn.steps)
    BY <2>1, <2>2, <2>3, <2>4
  <2> QED
    BY <2>1, <2>2, <2>3, <2>5 DEF FnFacts
<1>3. CASE steps = <<"box", "out", "assign">> /\ makes = "scratch" /\ via # "source"
  <2>1. /\ Len(fn.steps) = 3 /\ DOMAIN fn.steps = 1 .. 3
        /\ fn.steps[1] = "box" /\ fn.steps[2] = "out" /\ fn.steps[3] = "assign"
    BY <1>0, <1>3
  <2>2. AfterBox(fn, 2) /\ BoxAhead(fn, 1)
    BY <1>0, <1>3, <2>1 DEF AfterBox, BoxAhead
  <2>3. fn.makes \in Kinds \cup {"none"} /\ fn.makes # "none" /\ (fn.via = "source" => fn.makes = "archive")
    BY <1>0, <1>3 DEF Kinds
  <2>4. \A i \in 1 .. 3 : i = 1 \/ i = 2 \/ i = 3
    OBVIOUS
  <2>5. \A i \in 1 .. Len(fn.steps) :
          /\ fn.steps[i] \in {"in", "out", "core", "box", "assign"}
          /\ fn.steps[i] = "box" =>
                fn.makes # "none" /\ i < Len(fn.steps) /\ AfterBox(fn, i + 1)
          /\ fn.steps[i] = "assign" => i = Len(fn.steps)
    BY <2>1, <2>2, <2>3, <2>4
  <2> QED
    BY <2>1, <2>2, <2>3, <2>5 DEF FnFacts
<1>4. CASE steps = <<"in", "out", "assign">> /\ via # "source"
  <2>1. /\ Len(fn.steps) = 3 /\ DOMAIN fn.steps = 1 .. 3
        /\ fn.steps[1] = "in" /\ fn.steps[2] = "out" /\ fn.steps[3] = "assign"
    BY <1>0, <1>4
  <2>2. fn.makes \in Kinds \cup {"none"} /\ fn.via # "source"
    BY <1>0, <1>4 DEF Kinds
  <2>3. \A i \in 1 .. 3 : i = 1 \/ i = 2 \/ i = 3
    OBVIOUS
  <2>4. \A i \in 1 .. Len(fn.steps) :
          /\ fn.steps[i] \in {"in", "out", "core", "box", "assign"}
          /\ fn.steps[i] = "box" =>
                fn.makes # "none" /\ i < Len(fn.steps) /\ AfterBox(fn, i + 1)
          /\ fn.steps[i] = "assign" => i = Len(fn.steps)
    BY <2>1, <2>2, <2>3
  <2> QED
    BY <2>1, <2>2, <2>4 DEF FnFacts
<1>5. CASE steps = <<"in", "core", "out", "assign">> /\ via # "source"
  <2>1. /\ Len(fn.steps) = 4 /\ DOMAIN fn.steps = 1 .. 4
        /\ fn.steps[1] = "in" /\ fn.steps[2] = "core" /\ fn.steps[3] = "out" /\ fn.steps[4] = "assign"
    BY <1>0, <1>5
  <2>2. fn.makes \in Kinds \cup {"none"} /\ fn.via # "source"
    BY <1>0, <1>5 DEF Kinds
  <2>3. \A i \in 1 .. 4 : i = 1 \/ i = 2 \/ i = 3 \/ i = 4
    OBVIOUS
  <2>4. \A i \in 1 .. Len(fn.steps) :
          /\ fn.steps[i] \in {"in", "out", "core", "box", "assign"}
          /\ fn.steps[i] = "box" =>
                fn.makes # "none" /\ i < Len(fn.steps) /\ AfterBox(fn, i + 1)
          /\ fn.steps[i] = "assign" => i = Len(fn.steps)
    BY <2>1, <2>2, <2>3
  <2> QED
    BY <2>1, <2>2, <2>4 DEF FnFacts
<1>6. CASE steps = <<"in", "core">> /\ via # "source"
  <2>1. /\ Len(fn.steps) = 2 /\ DOMAIN fn.steps = 1 .. 2
        /\ fn.steps[1] = "in" /\ fn.steps[2] = "core"
    BY <1>0, <1>6
  <2>2. fn.makes \in Kinds \cup {"none"} /\ fn.via # "source"
    BY <1>0, <1>6 DEF Kinds
  <2>3. \A i \in 1 .. 2 : i = 1 \/ i = 2
    OBVIOUS
  <2>4. \A i \in 1 .. Len(fn.steps) :
          /\ fn.steps[i] \in {"in", "out", "core", "box", "assign"}
          /\ fn.steps[i] = "box" =>
                fn.makes # "none" /\ i < Len(fn.steps) /\ AfterBox(fn, i + 1)
          /\ fn.steps[i] = "assign" => i = Len(fn.steps)
    BY <2>1, <2>2, <2>3
  <2> QED
    BY <2>1, <2>2, <2>4 DEF FnFacts
<1>7. CASE steps = <<"out", "assign">> /\ via # "source"
  <2>1. /\ Len(fn.steps) = 2 /\ DOMAIN fn.steps = 1 .. 2
        /\ fn.steps[1] = "out" /\ fn.steps[2] = "assign"
    BY <1>0, <1>7
  <2>2. fn.makes \in Kinds \cup {"none"} /\ fn.via # "source"
    BY <1>0, <1>7 DEF Kinds
  <2>3. \A i \in 1 .. 2 : i = 1 \/ i = 2
    OBVIOUS
  <2>4. \A i \in 1 .. Len(fn.steps) :
          /\ fn.steps[i] \in {"in", "out", "core", "box", "assign"}
          /\ fn.steps[i] = "box" =>
                fn.makes # "none" /\ i < Len(fn.steps) /\ AfterBox(fn, i + 1)
          /\ fn.steps[i] = "assign" => i = Len(fn.steps)
    BY <2>1, <2>2, <2>3
  <2> QED
    BY <2>1, <2>2, <2>4 DEF FnFacts
<1> QED
  BY <1>1, <1>2, <1>3, <1>4, <1>5, <1>6, <1>7, Zenon

LEMMA EntryPointFacts == \A fn \in EntryPoints : FnFacts(fn)
<1>1. FnFacts(open_memory) /\ FnFacts(open_source) /\ FnFacts(normalize_path)
      /\ FnFacts(pack_memory)
  BY ShapeFacts DEF open_memory, open_source, normalize_path, pack_memory, Kinds
<1>2. FnFacts(read_buffer) /\ FnFacts(scratch_new)
  BY ShapeFacts DEF read_buffer, scratch_new, Kinds
<1>3. /\ FnFacts(info) /\ FnFacts(entry) /\ FnFacts(contains) /\ FnFacts(verify)
      /\ FnFacts(read_into) /\ FnFacts(read_range_into) /\ FnFacts(hash_path)
      /\ FnFacts(limits_runtime)
  BY ShapeFacts DEF info, entry, contains, verify, read_into, read_range_into, hash_path,
                    limits_runtime, Kinds
<1> QED
  BY <1>1, <1>2, <1>3
     DEF EntryPoints, read_chunk, read_range, read_chunk_into, read_into_with_scratch,
         read_range_with_scratch

LEMMA FreeFacts ==
    /\ archive_free.steps = <<"drop">> /\ archive_free.makes = "none"
    /\ archive_free.via = "archive" /\ archive_free.reads = FALSE
    /\ archive_free \notin EntryPoints
<1>1. archive_free.steps = <<"drop">> /\ archive_free.makes = "none"
      /\ archive_free.via = "archive" /\ archive_free.reads = FALSE
  BY DEF archive_free, Fn
<1>2. archive_free.steps[1] = "drop" /\ Len(archive_free.steps) = 1
  BY <1>1
<1>3. ~FnFacts(archive_free)
  BY <1>2 DEF FnFacts
<1> QED
  BY <1>1, <1>3, EntryPointFacts

-----------------------------------------------------------------------------
(* Frames and stacks *)

LEMMA FrameFields ==
    ASSUME NEW f \in Frame
    PROVE  /\ f.fn \in EntryPoints \cup {archive_free} /\ f.at \in 1 .. 6
           /\ f.mode \in {"running", "reading", "failed", "destroying", "reported"}
           /\ f.bad \in SUBSET {"in", "out"} /\ f.slot \in Slots \cup {Null}
           /\ f.archive \in Boxes \cup {Null} /\ f.user \in Users \cup {Null}
           /\ f.box \in Boxes \cup {Null} /\ f.id \in 1 .. MaxCalls
  BY DEF Frame

\* A frame that has moved on, or changed its mode, and may have given up its
\* source or got or assigned its result.
Moved(f, a, m, u, b) == [f EXCEPT !.at = a, !.mode = m, !.user = u, !.box = b]

LEMMA MovedForms ==
    ASSUME NEW f \in Frame
    PROVE  /\ Advanced(f) = Moved(f, f.at + 1, f.mode, f.user, f.box)
           /\ Failed(f) = Moved(f, f.at, "failed", f.user, f.box)
           /\ \A m : [f EXCEPT !.mode = m] = Moved(f, f.at, m, f.user, f.box)
           /\ \A m, u : [f EXCEPT !.mode = m, !.user = u] = Moved(f, f.at, m, u, f.box)
           /\ \A b, u : Advanced([f EXCEPT !.box = b, !.user = u])
                          = Moved(f, f.at + 1, f.mode, u, b)
           /\ \A b : Advanced([f EXCEPT !.box = b]) = Moved(f, f.at + 1, f.mode, f.user, b)
           /\ Failed([f EXCEPT !.mode = "running"]) = Moved(f, f.at, "failed", f.user, f.box)
  BY DEF Frame, Moved, Advanced, Failed

LEMMA TopFacts ==
    ASSUME Typing, NEW t \in Threads, Running(t)
    PROVE  /\ Len(stack[t]) \in Nat \ {0} /\ Len(stack[t]) <= MaxDepth
           /\ DOMAIN stack[t] = 1 .. Len(stack[t]) /\ Len(stack[t]) \in DOMAIN stack[t]
           /\ Top(t) = stack[t][Len(stack[t])] /\ Top(t) \in Frame
<1>1. stack[t] \in Seq(Frame) /\ stack[t] # << >>
  BY DEF Typing, Running
<1> QED
  BY <1>1 DEF Typing, Top

LEMMA SetTopStack ==
    ASSUME Typing, NEW t \in Threads, Running(t), NEW g \in Frame, SetTop(t, g)
    PROVE  /\ stack' \in [Threads -> Seq(Frame)]
           /\ \A u \in Threads : Len(stack'[u]) = Len(stack[u])
           /\ \A u \in Threads : DOMAIN stack'[u] = DOMAIN stack[u]
           /\ \A u \in Threads : \A d \in DOMAIN stack[u] :
                 stack'[u][d] = IF u = t /\ d = Len(stack[t]) THEN g ELSE stack[u][d]
           /\ \A u \in Threads \ {t} : stack'[u] = stack[u]
<1> DEFINE q == stack[t]
           k == Len(q)
           n == [q EXCEPT ![k] = g]
<1>1. stack \in [Threads -> Seq(Frame)] /\ q \in Seq(Frame) /\ q # << >>
  BY DEF Typing, Running
<1>2. stack' = [stack EXCEPT ![t] = n]
  BY DEF SetTop
<1>3. /\ n \in Seq(Frame) /\ Len(n) = Len(q) /\ DOMAIN n = DOMAIN q
      /\ \A d \in DOMAIN q : n[d] = IF d = k THEN g ELSE q[d]
  <2> HIDE DEF q
  <2>1. k \in 1 .. Len(q) /\ DOMAIN q = 1 .. Len(q)
    BY <1>1
  <2> QED
    BY <1>1, <2>1
<1>4. stack'[t] = n /\ \A u \in Threads \ {t} : stack'[u] = stack[u]
  <2> HIDE DEF n
  <2> QED
    BY <1>1, <1>2
<1> HIDE DEF n, k
<1> QED
  BY <1>1, <1>2, <1>3, <1>4 DEF k

LEMMA PushStack ==
    ASSUME Typing, NEW t \in Threads, NEW g \in Frame, Pushed(t, g),
           Len(stack[t]) < MaxDepth
    PROVE  /\ stack' \in [Threads -> Seq(Frame)]
           /\ \A u \in Threads : Len(stack'[u]) <= MaxDepth
           /\ \A u \in Threads : \A d : d \in DOMAIN stack'[u] <=>
                 d \in DOMAIN stack[u] \/ (u = t /\ d = Len(stack[t]) + 1)
           /\ Len(stack[t]) + 1 \notin DOMAIN stack[t]
           /\ stack'[t][Len(stack[t]) + 1] = g
           /\ \A u \in Threads : \A d \in DOMAIN stack[u] : stack'[u][d] = stack[u][d]
           /\ Len(stack'[t]) = Len(stack[t]) + 1
           /\ \A u \in Threads \ {t} : stack'[u] = stack[u]
<1> DEFINE q == stack[t]
           n == Append(q, g)
<1>1. /\ stack \in [Threads -> Seq(Frame)] /\ q \in Seq(Frame) /\ Len(q) \in Nat
      /\ MaxDepth \in Nat /\ \A u \in Threads : Len(stack[u]) <= MaxDepth
  BY FfiAssumption DEF Typing
<1>2. stack' = [stack EXCEPT ![t] = n]
  BY DEF Pushed
<1>3. /\ n \in Seq(Frame) /\ Len(n) = Len(q) + 1 /\ DOMAIN q = 1 .. Len(q)
      /\ \A d : d \in DOMAIN n <=> d \in DOMAIN q \/ d = Len(q) + 1
      /\ n[Len(q) + 1] = g /\ \A d \in DOMAIN q : n[d] = q[d]
  <2> HIDE DEF q
  <2> QED
    BY <1>1
<1>4. stack'[t] = n /\ \A u \in Threads \ {t} : stack'[u] = stack[u]
  <2> HIDE DEF n
  <2> QED
    BY <1>1, <1>2
<1>5. Len(n) <= MaxDepth /\ Len(q) + 1 \notin DOMAIN q
  BY <1>1, <1>3
<1>6. stack' \in [Threads -> Seq(Frame)]
  <2> HIDE DEF n
  <2> QED
    BY <1>1, <1>2, <1>3
<1> HIDE DEF n
<1> QED
  BY <1>1, <1>3, <1>4, <1>5, <1>6

LEMMA PopStack ==
    ASSUME Typing, NEW t \in Threads, Running(t), Popped(t)
    PROVE  /\ stack' \in [Threads -> Seq(Frame)]
           /\ \A u \in Threads : Len(stack'[u]) <= MaxDepth
           /\ \A u \in Threads : \A d : d \in DOMAIN stack'[u] <=>
                 d \in DOMAIN stack[u] /\ ~(u = t /\ d = Len(stack[t]))
           /\ \A u \in Threads : \A d \in DOMAIN stack'[u] : stack'[u][d] = stack[u][d]
           /\ Len(stack'[t]) = Len(stack[t]) - 1
           /\ \A u \in Threads \ {t} : stack'[u] = stack[u]
<1> DEFINE q == stack[t]
           n == SubSeq(q, 1, Len(q) - 1)
<1>1. /\ stack \in [Threads -> Seq(Frame)] /\ q \in Seq(Frame) /\ Len(q) \in Nat \ {0}
      /\ MaxDepth \in Nat /\ \A u \in Threads : Len(stack[u]) <= MaxDepth
  BY FfiAssumption, TopFacts DEF Typing
<1>2. stack' = [stack EXCEPT ![t] = n]
  BY DEF Popped
<1>3. /\ n \in Seq(Frame) /\ Len(n) = Len(q) - 1
      /\ \A d : d \in DOMAIN n <=> d \in DOMAIN q /\ d # Len(q)
      /\ \A d \in DOMAIN n : n[d] = q[d]
  <2> HIDE DEF q
  <2>1. DOMAIN q = 1 .. Len(q)
    BY <1>1
  <2>2. n \in Seq(Frame) /\ Len(n) = Len(q) - 1
    <3>1. Len(q) - 1 \in Int /\ 1 \in Int /\ \A i \in 1 .. Len(q) - 1 : q[i] \in Frame
      BY <1>1
    <3>2. /\ n \in Seq(Frame)
          /\ Len(n) = IF 1 <= Len(q) - 1 THEN (Len(q) - 1) - 1 + 1 ELSE 0
      BY <3>1, SubSeqProperties
    <3>3. \A a \in Nat \ {0} : (IF 1 <= a - 1 THEN (a - 1) - 1 + 1 ELSE 0) = a - 1
      OBVIOUS
    <3>4. Len(q) \in Nat \ {0}
      BY <1>1
    <3> HIDE DEF n
    <3> QED
      BY <3>2, <3>3, <3>4
  <2>3. DOMAIN n = 1 .. Len(q) - 1
    BY <1>1, <2>2
  <2>4. \A d \in 1 .. Len(q) - 1 : n[d] = q[d]
    BY <1>1
  <2> HIDE DEF n
  <2> QED
    BY <1>1, <2>1, <2>2, <2>3, <2>4
<1>4. stack'[t] = n /\ \A u \in Threads \ {t} : stack'[u] = stack[u]
  <2> HIDE DEF n
  <2> QED
    BY <1>1, <1>2
<1>5. Len(n) <= MaxDepth
  BY <1>1, <1>3
<1>6. stack' \in [Threads -> Seq(Frame)]
  <2> HIDE DEF n
  <2> QED
    BY <1>1, <1>2, <1>3
<1> HIDE DEF n
<1> QED
  BY <1>1, <1>3, <1>4, <1>5, <1>6

-----------------------------------------------------------------------------
(* Preservation: what several kinds of step have in common *)

LEMMA FrameFnFacts ==
    ASSUME NEW f \in Frame, f.fn # archive_free
    PROVE  FnFacts(f.fn)
  BY FrameFields, EntryPointFacts

\* A frame whose boxes, pointers and source are left alone.
LEMMA FrameKept ==
    ASSUME NEW f \in Frame, NEW h, NEW sl, NEW so, NEW us, FrameOk(h, sl, so, us, f),
           NEW h2, NEW sl2, NEW so2, NEW us2,
           f.fn = archive_free =>
              /\ h2[f.archive] = h[f.archive] /\ so2[f.archive] = so[f.archive]
              /\ so[f.archive] # Null /\ us[so[f.archive]] = "destroyed" =>
                    us2[so[f.archive]] = "destroyed",
           f.box # Null => h2[f.box] = h[f.box],
           f.slot # Null => sl2[f.slot] \in {sl[f.slot], Null},
           f.archive # Null /\ f.fn # archive_free =>
              /\ so2[f.archive] = so[f.archive]
              /\ \A s \in Slots : Holds[s] = "archive" /\ sl[s] = f.archive => sl2[s] = sl[s],
           f.user # Null => us2[f.user] = us[f.user]
    PROVE  FrameOk(h2, sl2, so2, us2, f)
<1>0. Null \notin Slots /\ f.mode \in {"running", "reading", "failed", "destroying", "reported"}
  BY FfiAssumption, FrameFields
<1>1. f.fn = archive_free =>
          /\ f.mode \in {"running", "destroying"} /\ f.at = 1
          /\ f.archive \in Boxes /\ h2[f.archive] = "archive"
          /\ f.slot = Null /\ f.box = Null /\ f.user = Null
          /\ f.mode = "destroying" /\ so2[f.archive] # Null => us2[so2[f.archive]] = "destroyed"
  BY DEF FrameOk
<1>2. f.box # Null =>
          /\ h2[f.box] = f.fn.makes /\ f.fn.makes # "none"
          /\ f.at <= Len(f.fn.steps) /\ AfterBox(f.fn, f.at)
          /\ f.mode # "running" => f.fn.makes = "scratch"
  BY DEF FrameOk
<1>3. f.fn.makes # "none" =>
          /\ f.slot \in Slots /\ Holds[f.slot] = f.fn.makes
          /\ f.at <= Len(f.fn.steps) => sl2[f.slot] = Null
  BY <1>0 DEF FrameOk
<1>4. f.mode = "reading" =>
          /\ f.at <= Len(f.fn.steps) /\ f.fn.steps[f.at] = "core"
          /\ (IF f.archive = Null THEN f.user ELSE so2[f.archive]) # Null
  BY DEF FrameOk
<1>5. f.archive # Null /\ f.fn # archive_free =>
          \E s \in Slots : Holds[s] = "archive" /\ sl2[s] = f.archive
  BY DEF FrameOk
<1>6. f.user # Null =>
          /\ f.fn.via = "source" /\ f.archive = Null /\ f.box = Null
          /\ BoxAhead(f.fn, f.at)
          /\ f.mode # "reported"
          /\ us2[f.user] = IF f.mode = "destroying" THEN "destroyed" ELSE "library"
  BY DEF FrameOk
<1>7. f.fn.makes = "none" => f.slot = Null
  BY DEF FrameOk
<1> QED
  BY <1>1, <1>2, <1>3, <1>4, <1>5, <1>6, <1>7 DEF FrameOk

\* What a call holds.
SameView(f, g) ==
    /\ g.fn = f.fn /\ g.slot = f.slot /\ g.archive = f.archive
    /\ g.user = f.user /\ g.box = f.box
    /\ f.fn = archive_free => g.mode = f.mode

LEMMA ViewsKeep ==
    ASSUME Typing, ApartInv, SlotInv, SourceInv, UNCHANGED <<heap, source, slot, user, lost>>,
           \A t \in Threads : DOMAIN stack'[t] = DOMAIN stack[t],
           \A t \in Threads : \A d \in DOMAIN stack[t] : SameView(stack[t][d], stack'[t][d])
    PROVE  ApartInv' /\ SlotInv' /\ SourceInv'
<1>1. \A t \in Threads : \A d \in DOMAIN stack[t] :
         /\ stack'[t][d].slot = stack[t][d].slot /\ stack'[t][d].user = stack[t][d].user
         /\ \A b : Owns(stack'[t][d], b) <=> Owns(stack[t][d], b)
  BY DEF SameView, Owns
<1>2. ApartInv'
  <2>1. ASSUME NEW t \in Threads, NEW u \in Threads, NEW d \in DOMAIN stack[t],
               NEW e \in DOMAIN stack[u], t # u \/ d # e
        PROVE  Apart(stack'[t][d], stack'[u][e])
    <3>1. Apart(stack[t][d], stack[u][e])
      BY <2>1 DEF ApartInv
    <3> QED
      BY <1>1, <3>1 DEF Apart
  <2> QED
    BY <2>1 DEF ApartInv
<1>3. SlotInv'
  BY <1>1 DEF SlotInv
<1>4. SourceInv'
  <2>1. ASSUME NEW b \in Boxes, heap[b] = "archive", source[b] # Null
        PROVE  /\ \/ user[source[b]] = "library"
                  \/ user[source[b]] = "destroyed" /\ Destroying(b)'
               /\ \A c \in Boxes \ {b} : heap[c] = "archive" => source[c] # source[b]
               /\ \A t \in Threads : \A d \in DOMAIN stack'[t] : stack'[t][d].user # source[b]
    <3>1. Destroying(b) => Destroying(b)'
      BY DEF SameView, Destroying
    <3> QED
      BY <1>1, <2>1, <3>1 DEF SourceInv
  <2>2. ASSUME NEW u \in Users, user[u] = "library"
        PROVE  \/ \E b \in Boxes : heap[b] = "archive" /\ source[b] = u
               \/ \E t \in Threads : \E d \in DOMAIN stack'[t] : stack'[t][d].user = u
    BY <1>1, <2>2 DEF SourceInv
  <2> QED
    BY <2>1, <2>2 DEF SourceInv
<1> QED
  BY <1>2, <1>3, <1>4

\* The top call moves on and holds what it held.
LEMMA TopKeeps ==
    ASSUME Typing, OwnInv, NEW t \in Threads, Running(t), NEW f \in Frame, f = Top(t),
           f.fn # archive_free, NEW g \in Frame, SetTop(t, g),
           UNCHANGED <<heap, source, slot, user, lost>>, SameView(f, g),
           FrameOk(heap, slot, source, user, g)
    PROVE  OwnInv'
<1>1. /\ \A u \in Threads : DOMAIN stack'[u] = DOMAIN stack[u]
      /\ \A u \in Threads : \A d \in DOMAIN stack[u] :
            stack'[u][d] = IF u = t /\ d = Len(stack[t]) THEN g ELSE stack[u][d]
      /\ f = stack[t][Len(stack[t])]
  BY SetTopStack, TopFacts
<1>2. FramesInv'
  BY <1>1 DEF FramesInv, OwnInv
<1>3. \A u \in Threads : \A d \in DOMAIN stack[u] : SameView(stack[u][d], stack'[u][d])
  BY <1>1 DEF SameView
<1>4. ApartInv' /\ SlotInv' /\ SourceInv'
  BY <1>1, <1>3, ViewsKeep DEF OwnInv
<1> QED
  BY <1>2, <1>4 DEF OwnInv

LEMMA TopOk ==
    ASSUME Typing, OwnInv, NEW t \in Threads, Running(t)
    PROVE  FrameOk(heap, slot, source, user, Top(t))
  BY TopFacts DEF OwnInv, FramesInv

\* The top call ends, and holds nothing that must not be lost.
LEMMA PopKeeps ==
    ASSUME Typing, OwnInv, NEW t \in Threads, Running(t), NEW f \in Frame, f = Top(t),
           f.fn # archive_free, f.user = Null, f.box # Null => heap[f.box] = "scratch",
           lost' = lost \cup {b \in Boxes : b = f.box},
           Popped(t), UNCHANGED <<heap, source, slot, user>>
    PROVE  OwnInv'
<1>1. /\ \A u \in Threads : \A d : d \in DOMAIN stack'[u] <=>
            d \in DOMAIN stack[u] /\ ~(u = t /\ d = Len(stack[t]))
      /\ \A u \in Threads : \A d \in DOMAIN stack'[u] : stack'[u][d] = stack[u][d]
      /\ f = stack[t][Len(stack[t])]
  BY PopStack, TopFacts
<1>2. FramesInv'
  BY <1>1 DEF OwnInv, FramesInv
<1>3. ApartInv'
  BY <1>1 DEF OwnInv, ApartInv
<1>4. SlotInv'
  <2>1. \A s \in Slots : slot[s] # Null =>
          /\ heap[slot[s]] = Holds[s]
          /\ \A r \in Slots \ {s} : slot[r] # slot[s]
          /\ \A u \in Threads : \A d \in DOMAIN stack'[u] : ~Owns(stack'[u][d], slot[s])
    BY <1>1 DEF OwnInv, SlotInv
  <2>2. ASSUME NEW b \in Boxes, heap[b] # "free", b \notin lost'
        PROVE  \/ \E s \in Slots : slot[s] = b
               \/ \E u \in Threads : \E d \in DOMAIN stack'[u] : Owns(stack'[u][d], b)
    <3>1. ~Owns(f, b) /\ b \notin lost
      BY <2>2 DEF Owns
    <3> QED
      BY <1>1, <2>2, <3>1 DEF OwnInv, SlotInv
  <2>3. ASSUME NEW b \in lost'
        PROVE  /\ heap[b] = "scratch" /\ \A s \in Slots : slot[s] # b
               /\ \A u \in Threads : \A d \in DOMAIN stack'[u] : ~Owns(stack'[u][d], b)
    <3>1. CASE b \in lost
      BY <1>1, <3>1 DEF OwnInv, SlotInv
    <3>2. CASE b \in Boxes /\ b = f.box
      <4>1. b # Null /\ Owns(f, b) /\ Len(stack[t]) \in DOMAIN stack[t]
        BY <3>2, TopFacts, FfiAssumption DEF Owns
      <4>2. \A s \in Slots : slot[s] # b
        BY <1>1, <4>1 DEF OwnInv, SlotInv
      <4>3. \A u \in Threads : \A d \in DOMAIN stack[u] :
               u # t \/ d # Len(stack[t]) => ~Owns(stack[u][d], b)
        BY <1>1, <3>2, <4>1 DEF OwnInv, ApartInv, Apart
      <4> QED
        BY <1>1, <3>2, <4>1, <4>2, <4>3
    <3> QED
      BY <2>3, <3>1, <3>2
  <2> QED
    BY <2>1, <2>2, <2>3 DEF SlotInv
<1>5. SourceInv'
  <2>1. ASSUME NEW b \in Boxes, heap[b] = "archive", source[b] # Null
        PROVE  /\ \/ user[source[b]] = "library"
                  \/ user[source[b]] = "destroyed" /\ Destroying(b)'
               /\ \A c \in Boxes \ {b} : heap[c] = "archive" => source[c] # source[b]
               /\ \A u \in Threads : \A d \in DOMAIN stack'[u] : stack'[u][d].user # source[b]
    <3>1. Destroying(b) => Destroying(b)'
      BY <1>1 DEF Destroying
    <3> QED
      BY <1>1, <2>1, <3>1 DEF OwnInv, SourceInv
  <2>2. ASSUME NEW v \in Users, user[v] = "library"
        PROVE  \/ \E b \in Boxes : heap[b] = "archive" /\ source[b] = v
               \/ \E u \in Threads : \E d \in DOMAIN stack'[u] : stack'[u][d].user = v
    BY <1>1, <2>2, FfiAssumption DEF OwnInv, SourceInv
  <2> QED
    BY <2>1, <2>2 DEF SourceInv
<1> QED
  BY <1>2, <1>3, <1>4, <1>5 DEF OwnInv

\* A call that goes past a check or the library call.
LEMMA AdvanceOk ==
    ASSUME NEW f \in Frame, NEW h, NEW sl, NEW so, NEW us, FrameOk(h, sl, so, us, f),
           f.fn # archive_free, f.mode = "running", f.at <= Len(f.fn.steps),
           f.fn.steps[f.at] \in {"in", "out", "core"}
    PROVE  /\ Advanced(f) \in Frame /\ SameView(f, Advanced(f))
           /\ FrameOk(h, sl, so, us, Advanced(f))
<1>1. FnFacts(f.fn) /\ f.at \in 1 .. 6 /\ f.user \in Users \cup {Null}
      /\ f.box \in Boxes \cup {Null}
  BY FrameFnFacts, FrameFields
<1>2. Len(f.fn.steps) \in 1 .. 5 /\ f.at + 1 \in 1 .. 6
  BY <1>1 DEF FnFacts
<1>3. PICK g : g = Advanced(f)
  OBVIOUS
<1>8. /\ g = Moved(f, f.at + 1, "running", f.user, f.box)
      /\ "running" \in {"running", "reading", "failed", "destroying", "reported"}
  BY <1>3, MovedForms
<1>4. /\ g \in Frame /\ g.at = f.at + 1 /\ g.mode = "running" /\ g.user = f.user
      /\ g.box = f.box /\ g.fn = f.fn /\ g.slot = f.slot /\ g.archive = f.archive
  BY <1>1, <1>2, <1>8 DEF Frame, Moved
<1>5. f.box # Null => g.at <= Len(g.fn.steps) /\ AfterBox(g.fn, g.at)
  BY <1>1, <1>2, <1>4 DEF FrameOk, AfterBox
<1>6. f.user # Null => BoxAhead(g.fn, g.at)
  <2>1. SUFFICES ASSUME f.user # Null
                 PROVE  BoxAhead(f.fn, f.at + 1)
    BY <1>4
  <2>2. PICK j \in f.at .. Len(f.fn.steps) : f.fn.steps[j] = "box"
    BY <2>1 DEF FrameOk, BoxAhead
  <2>3. j \in f.at + 1 .. Len(f.fn.steps)
    BY <1>1, <1>2, <2>2
  <2> QED
    BY <2>2, <2>3 DEF BoxAhead
<1>7. FrameOk(h, sl, so, us, g)
  BY <1>1, <1>2, <1>4, <1>5, <1>6 DEF FrameOk
<1> QED
  BY <1>3, <1>4, <1>7 DEF SameView

\* A call that changes its mode where it stands, and not to "destroying".
LEMMA ModeOk ==
    ASSUME NEW f \in Frame, NEW h, NEW sl, NEW so, NEW us, FrameOk(h, sl, so, us, f),
           f.fn # archive_free, f.mode \in {"running", "reading"},
           f.at <= Len(f.fn.steps), f.fn.steps[f.at] \in {"in", "out", "core"},
           NEW m \in {"running", "reading", "failed"},
           m = "reading" => /\ f.fn.steps[f.at] = "core"
                            /\ (IF f.archive = Null THEN f.user ELSE so[f.archive]) # Null,
           NEW g, g = Moved(f, f.at, m, f.user, f.box)
    PROVE  g \in Frame /\ SameView(f, g) /\ FrameOk(h, sl, so, us, g)
<1>1. FnFacts(f.fn) /\ f.at \in 1 .. 6 /\ f.user \in Users \cup {Null}
      /\ f.box \in Boxes \cup {Null}
  BY FrameFnFacts, FrameFields
<1>2. /\ Len(f.fn.steps) \in 1 .. 5
      /\ m \in {"running", "reading", "failed", "destroying", "reported"}
  BY <1>1 DEF FnFacts
<1>4. /\ g \in Frame /\ g.at = f.at /\ g.mode = m /\ g.user = f.user
      /\ g.box = f.box /\ g.fn = f.fn /\ g.slot = f.slot /\ g.archive = f.archive
  BY <1>1, <1>2 DEF Frame, Moved
<1>5. f.box # Null => f.fn.makes = "scratch"
  <2>1. SUFFICES ASSUME f.box # Null
                 PROVE  f.fn.makes = "scratch"
    OBVIOUS
  <2>2. AfterBox(f.fn, f.at)
    BY <2>1 DEF FrameOk
  <2> QED
    BY <1>1, <1>2, <2>2 DEF AfterBox
<1>6. f.user # Null => us[f.user] = "library"
  BY DEF FrameOk
<1>7. FrameOk(h, sl, so, us, g)
  BY <1>1, <1>4, <1>5, <1>6 DEF FrameOk
<1> QED
  BY <1>4, <1>7 DEF SameView

\* Before a check, the library call, the allocation or the assignment a call
\* is not archive_free's.
LEMMA NotFree ==
    ASSUME NEW f \in Frame, f.mode = "reading" \/ (f.at <= Len(f.fn.steps) /\ f.fn.steps[f.at] # "drop"),
           NEW h, NEW sl, NEW so, NEW us, FrameOk(h, sl, so, us, f)
    PROVE  f.fn # archive_free
<1>1. SUFFICES ASSUME f.fn = archive_free
               PROVE  FALSE
  OBVIOUS
<1>2. f.mode \in {"running", "destroying"} /\ f.at = 1
  BY <1>1 DEF FrameOk
<1>3. f.fn.steps[1] = "drop"
  BY <1>1, FreeFacts
<1> QED
  BY <1>2, <1>3

LEMMA TypingKept ==
    ASSUME Typing, NEW t \in Threads, Running(t), NEW g \in Frame, SetTop(t, g),
           UNCHANGED <<heap, source, slot, user, last_error, latest, lost, calls>>
    PROVE  Typing'
<1>1. /\ stack' \in [Threads -> Seq(Frame)]
      /\ \A u \in Threads : Len(stack'[u]) = Len(stack[u])
  BY SetTopStack
<1> QED
  BY <1>1 DEF Typing

LEMMA CheckKeeps ==
    ASSUME Typing, OwnInv, NEW t \in Threads, Check(t)
    PROVE  Typing' /\ OwnInv'
<1>1. Running(t) /\ UNCHANGED <<heap, source, slot, user, last_error, latest, lost, calls>>
  BY DEF Check, memVars, errVars
<1>2. PICK f \in Frame : f = Top(t)
  BY <1>1, TopFacts
<1>3. PICK step \in {"in", "out"} :
        /\ Before(f, step)
        /\ SetTop(t, Failed(f)) \/ SetTop(t, Advanced(f))
  BY <1>2, Zenon DEF Check
<1>4. /\ f.mode = "running" /\ f.at <= Len(f.fn.steps)
      /\ f.fn.steps[f.at] \in {"in", "out", "core"} /\ f.fn.steps[f.at] # "drop"
  BY <1>3 DEF Before
<1>5. FrameOk(heap, slot, source, user, f)
  BY <1>1, <1>2, TopOk
<1>6. f.fn # archive_free
  BY <1>4, <1>5, NotFree
<1>7. PICK g \in Frame : SetTop(t, g) /\ SameView(f, g) /\ FrameOk(heap, slot, source, user, g)
  <2>1. CASE SetTop(t, Advanced(f))
    BY <1>4, <1>5, <1>6, <2>1, AdvanceOk, Zenon
  <2>2. CASE SetTop(t, Failed(f))
    <3>1. Failed(f) = Moved(f, f.at, "failed", f.user, f.box)
      BY MovedForms
    <3>2. PICK g : g = Moved(f, f.at, "failed", f.user, f.box)
      OBVIOUS
    <3>3. g \in Frame /\ SameView(f, g) /\ FrameOk(heap, slot, source, user, g)
      BY <1>4, <1>5, <1>6, <3>2, ModeOk
    <3> QED
      BY <2>2, <3>1, <3>2, <3>3, Zenon
  <2> QED
    BY <1>3, <2>1, <2>2
<1> QED
  BY <1>1, <1>2, <1>6, <1>7, TypingKept, TopKeeps
LEMMA ReadAtKeeps ==
    ASSUME Typing, OwnInv, NEW t \in Threads, ReadAt(t) \/ ReadAtReturns(t) \/ CoreReturns(t)
    PROVE  Typing' /\ OwnInv'
<1>1. Running(t) /\ UNCHANGED <<heap, source, slot, user, last_error, latest, lost, calls>>
  BY DEF ReadAt, ReadAtReturns, CoreReturns, memVars, errVars
<1>2. PICK f \in Frame : f = Top(t)
  BY <1>1, TopFacts
<1>3. FrameOk(heap, slot, source, user, f)
  BY <1>1, <1>2, TopOk
<1>4. \/ /\ Before(f, "core")
         /\ SetTop(t, Failed(f)) \/ SetTop(t, Advanced(f))
      \/ /\ Before(f, "core") /\ SourceOf(f) # Null
         /\ SetTop(t, [f EXCEPT !.mode = "reading"])
      \/ /\ f.mode = "reading"
         /\ \/ SetTop(t, [f EXCEPT !.mode = "running"])
            \/ SetTop(t, Failed([f EXCEPT !.mode = "running"]))
  BY <1>2, Zenon DEF ReadAt, ReadAtReturns, CoreReturns
<1>5. /\ f.at <= Len(f.fn.steps) /\ f.fn.steps[f.at] = "core"
      /\ f.mode \in {"running", "reading"}
  BY <1>3, <1>4 DEF Before, FrameOk
<1>6. f.fn # archive_free /\ f.fn.steps[f.at] \in {"in", "out", "core"}
  BY <1>3, <1>5, NotFree
<1>7. \/ SetTop(t, Advanced(f)) /\ f.mode = "running"
      \/ \E m \in {"running", "reading", "failed"} :
            /\ SetTop(t, Moved(f, f.at, m, f.user, f.box))
            /\ m = "reading" => /\ f.fn.steps[f.at] = "core"
                                /\ (IF f.archive = Null THEN f.user ELSE source[f.archive]) # Null
  <2>1. /\ Failed(f) = Moved(f, f.at, "failed", f.user, f.box)
        /\ [f EXCEPT !.mode = "reading"] = Moved(f, f.at, "reading", f.user, f.box)
        /\ [f EXCEPT !.mode = "running"] = Moved(f, f.at, "running", f.user, f.box)
        /\ Failed([f EXCEPT !.mode = "running"]) = Moved(f, f.at, "failed", f.user, f.box)
    BY MovedForms
  <2>2. /\ Before(f, "core") => f.mode = "running"
        /\ SourceOf(f) # Null => (IF f.archive = Null THEN f.user ELSE source[f.archive]) # Null
    BY DEF Before, SourceOf
  <2>3. CASE Before(f, "core") /\ (SetTop(t, Failed(f)) \/ SetTop(t, Advanced(f)))
    BY <2>1, <2>2, <2>3
  <2>4. CASE /\ Before(f, "core") /\ SourceOf(f) # Null
             /\ SetTop(t, [f EXCEPT !.mode = "reading"])
    BY <1>5, <2>1, <2>2, <2>4
  <2>5. CASE /\ f.mode = "reading"
             /\ \/ SetTop(t, [f EXCEPT !.mode = "running"])
                \/ SetTop(t, Failed([f EXCEPT !.mode = "running"]))
    BY <2>1, <2>5
  <2> QED
    BY <1>4, <2>3, <2>4, <2>5
<1>8. PICK g \in Frame : SetTop(t, g) /\ SameView(f, g) /\ FrameOk(heap, slot, source, user, g)
  <2>1. CASE SetTop(t, Advanced(f)) /\ f.mode = "running"
    BY <1>3, <1>5, <1>6, <2>1, AdvanceOk, Zenon
  <2>2. CASE \E m \in {"running", "reading", "failed"} :
               /\ SetTop(t, Moved(f, f.at, m, f.user, f.box))
               /\ m = "reading" => /\ f.fn.steps[f.at] = "core"
                                   /\ (IF f.archive = Null THEN f.user ELSE source[f.archive]) # Null
    <3>1. PICK m \in {"running", "reading", "failed"} :
               /\ SetTop(t, Moved(f, f.at, m, f.user, f.box))
               /\ m = "reading" => /\ f.fn.steps[f.at] = "core"
                                   /\ (IF f.archive = Null THEN f.user ELSE source[f.archive]) # Null
      BY <2>2
    <3>2. PICK g : g = Moved(f, f.at, m, f.user, f.box)
      OBVIOUS
    <3>3. g \in Frame /\ SameView(f, g) /\ FrameOk(heap, slot, source, user, g)
      BY <1>3, <1>5, <1>6, <3>1, <3>2, ModeOk
    <3> QED
      BY <3>1, <3>2, <3>3, Zenon
  <2> QED
    BY <1>7, <2>1, <2>2
<1> QED
  BY <1>1, <1>2, <1>6, <1>8, TypingKept, TopKeeps

\* What only scratch_new makes.
LEMMA ScratchMaker == \A fn \in EntryPoints : fn.makes = "scratch" => fn = scratch_new
  BY DEF EntryPoints, Fn, open_memory, open_source, info, entry, contains, verify,
         read_buffer, read_chunk, read_range, read_into, read_chunk_into, read_range_into,
         read_into_with_scratch, read_range_with_scratch, scratch_new, hash_path,
         normalize_path, limits_runtime, pack_memory

LEMMA SetLastErrorKeeps ==
    ASSUME Typing, OwnInv, NEW t \in Threads, SetLastError(t)
    PROVE  Typing' /\ OwnInv'
<1>1. Running(t) /\ UNCHANGED <<heap, source, slot, user, latest, lost, calls>>
  BY DEF SetLastError, memVars
<1>2. PICK f \in Frame : f = Top(t)
  BY <1>1, TopFacts
<1>3. FrameOk(heap, slot, source, user, f)
  BY <1>1, <1>2, TopOk
<1>4. /\ f.mode = "failed" /\ f.user = Null
      /\ SetTop(t, [f EXCEPT !.mode = "reported"])
      /\ last_error' = [last_error EXCEPT ![t] = f.id]
  BY <1>2 DEF SetLastError
<1>5. PICK g : g = [f EXCEPT !.mode = "reported"]
  OBVIOUS
<1>6. /\ g \in Frame /\ g.at = f.at /\ g.mode = "reported" /\ g.user = f.user
      /\ g.box = f.box /\ g.fn = f.fn /\ g.slot = f.slot /\ g.archive = f.archive
      /\ SetTop(t, g)
  BY <1>4, <1>5 DEF Frame
<1>7. f.fn # archive_free
  BY <1>3, <1>4 DEF FrameOk
<1>8. SameView(f, g) /\ FrameOk(heap, slot, source, user, g)
  BY <1>3, <1>4, <1>6, <1>7 DEF SameView, FrameOk
<1>9. OwnInv'
  BY <1>1, <1>2, <1>6, <1>7, <1>8, TopKeeps
<1>10. Typing'
  <2>1. /\ stack' \in [Threads -> Seq(Frame)]
        /\ \A u \in Threads : Len(stack'[u]) = Len(stack[u])
    BY <1>1, <1>6, SetTopStack
  <2>2. f.id \in 0 .. MaxCalls
    BY FrameFields
  <2>3. last_error' \in [Threads -> 0 .. MaxCalls]
    BY <1>4, <2>2 DEF Typing
  <2> QED
    BY <1>1, <2>1, <2>3 DEF Typing
<1> QED
  BY <1>9, <1>10

LEMMA ReturnKeeps ==
    ASSUME Typing, OwnInv, NEW t \in Threads, ReturnOk(t) \/ ReturnError(t)
    PROVE  Typing' /\ OwnInv'
<1>1. /\ Running(t) /\ Popped(t) /\ UNCHANGED <<heap, source, slot, user, last_error, calls>>
      /\ latest' = latest \/ latest' = [latest EXCEPT ![t] = Top(t).id]
      /\ \/ /\ Top(t).mode = "running" /\ Top(t).at > Len(Top(t).fn.steps)
            /\ lost' = lost
         \/ /\ Top(t).mode = "reported"
            /\ lost' = lost \cup {b \in Boxes : Top(t).fn = scratch_new /\ b = Top(t).box}
  BY DEF ReturnOk, ReturnError, memVars, errVars
<1>2. PICK f \in Frame : f = Top(t)
  BY <1>1, TopFacts
<1>3. FrameOk(heap, slot, source, user, f)
  BY <1>1, <1>2, TopOk
<1>4. f.id \in 0 .. MaxCalls
  BY <1>2, FrameFields
<1>5. Typing'
  <2>1. stack' \in [Threads -> Seq(Frame)] /\ \A u \in Threads : Len(stack'[u]) <= MaxDepth
    BY <1>1, PopStack
  <2>2. latest' \in [Threads -> 0 .. MaxCalls] /\ lost' \subseteq Boxes
    BY <1>1, <1>2, <1>4 DEF Typing
  <2> QED
    BY <1>1, <2>1, <2>2 DEF Typing
<1>6. f.fn # archive_free
  <2>1. SUFFICES ASSUME f.fn = archive_free
                 PROVE  FALSE
    OBVIOUS
  <2>2. f.mode \in {"running", "destroying"} /\ f.at = 1 /\ Len(f.fn.steps) = 1
    BY <1>3, <2>1, FreeFacts DEF FrameOk
  <2> QED
    BY <1>1, <1>2, <2>2
<1>7. FnFacts(f.fn) /\ f.at \in 1 .. 6
  BY <1>6, FrameFnFacts, FrameFields
<1>8. f.user = Null
  <2>1. SUFFICES ASSUME f.mode = "running", f.at > Len(f.fn.steps), f.user # Null
                 PROVE  FALSE
    BY <1>1, <1>2, <1>3 DEF FrameOk
  <2>2. BoxAhead(f.fn, f.at)
    BY <1>3, <2>1 DEF FrameOk
  <2> QED
    BY <1>7, <2>1, <2>2 DEF BoxAhead, FnFacts
<1>9. f.box # Null =>
         f.mode = "reported" /\ f.fn = scratch_new /\ heap[f.box] = "scratch"
  <2>1. SUFFICES ASSUME f.box # Null
                 PROVE  f.mode = "reported" /\ f.fn.makes = "scratch"
                        /\ heap[f.box] = f.fn.makes
    BY <1>6, ScratchMaker, FrameFields
  <2>2. f.at <= Len(f.fn.steps) /\ heap[f.box] = f.fn.makes
        /\ (f.mode # "running" => f.fn.makes = "scratch")
    BY <1>3, <2>1 DEF FrameOk
  <2>3. ~(f.at > Len(f.fn.steps))
    BY <1>7, <2>2 DEF FnFacts
  <2> QED
    BY <1>1, <1>2, <2>2, <2>3
<1>10. lost' = lost \cup {b \in Boxes : b = f.box}
  <2>1. \A b \in Boxes : b # Null
    BY FfiAssumption
  <2>2. CASE f.box = Null
    BY <1>1, <1>2, <2>1, <2>2
  <2>3. CASE f.box # Null
    BY <1>1, <1>2, <1>9, <2>3
  <2> QED
    BY <2>2, <2>3
<1> QED
  BY <1>1, <1>2, <1>5, <1>6, <1>8, <1>9, <1>10, PopKeeps

-----------------------------------------------------------------------------
(* Preservation: the steps that give, take or pass on what is owned *)

LEMMA TopIs ==
    ASSUME Typing, NEW t \in Threads, Running(t), NEW f, f = Top(t), NEW g \in Frame,
           SetTop(t, g), NEW k, k = Len(stack[t])
    PROVE  /\ \A u \in Threads : DOMAIN stack'[u] = DOMAIN stack[u]
           /\ k \in DOMAIN stack[t] /\ stack[t][k] = f /\ stack'[t][k] = g
           /\ \A u \in Threads : \A d \in DOMAIN stack[u] :
                 u # t \/ d # k => stack'[u][d] = stack[u][d]
           /\ stack' \in [Threads -> Seq(Frame)]
           /\ \A u \in Threads : Len(stack'[u]) <= MaxDepth
<1>1. k \in DOMAIN stack[t] /\ stack[t][k] = f
  BY TopFacts
<1>2. /\ stack' \in [Threads -> Seq(Frame)]
      /\ \A u \in Threads : Len(stack'[u]) = Len(stack[u])
      /\ \A u \in Threads : DOMAIN stack'[u] = DOMAIN stack[u]
      /\ \A u \in Threads : \A d \in DOMAIN stack[u] :
            stack'[u][d] = IF u = t /\ d = Len(stack[t]) THEN g ELSE stack[u][d]
  BY SetTopStack
<1>3. \A u \in Threads : Len(stack'[u]) <= MaxDepth
  BY <1>2 DEF Typing
<1> QED
  BY <1>1, <1>2, <1>3

LEMMA FrameIn ==
    ASSUME Typing, NEW t \in Threads, NEW d \in DOMAIN stack[t]
    PROVE  /\ stack[t][d] \in Frame /\ stack[t][d] \in Frames
           /\ FramesInv => FrameOk(heap, slot, source, user, stack[t][d])
<1>1. stack[t] \in Seq(Frame)
  BY DEF Typing
<1>2. stack[t][d] \in Frame
  BY <1>1
<1> QED
  BY <1>2 DEF Frames, FramesInv

\* What a call owns is live.
LEMMA OwnedLive ==
    ASSUME NEW f \in Frame, NEW h, NEW sl, NEW so, NEW us, FrameOk(h, sl, so, us, f),
           NEW b \in Boxes, Owns(f, b)
    PROVE  h[b] \in Kinds /\ b # Null
<1>1. b # Null
  BY FfiAssumption
<1>2. CASE f.box = b
  <2>1. f.fn # archive_free /\ h[b] = f.fn.makes /\ f.fn.makes # "none"
    BY <1>1, <1>2 DEF FrameOk
  <2>2. FnFacts(f.fn)
    BY <2>1, FrameFnFacts
  <2> QED
    BY <1>1, <2>1, <2>2 DEF FnFacts
<1>3. CASE f.fn = archive_free /\ f.archive = b
  BY <1>1, <1>3 DEF FrameOk, Kinds
<1> QED
  BY <1>2, <1>3 DEF Owns

LEMMA ApartBoth ==
    ASSUME NEW f, NEW g, Apart(f, g)
    PROVE  Apart(g, f)
  BY DEF Apart

LEMMA ApartTop ==
    ASSUME Typing, OwnInv, NEW t \in Threads, Running(t), NEW f \in Frame, f = Top(t),
           NEW g \in Frame, SetTop(t, g), g.slot = f.slot, g.user \in {f.user, Null},
           \A b \in Boxes : Owns(g, b) =>
              \/ Owns(f, b)
              \/ \A u \in Threads : \A d \in DOMAIN stack[u] : ~Owns(stack[u][d], b)
    PROVE  ApartInv'
<1>0. PICK k : k = Len(stack[t])
  OBVIOUS
<1>1. /\ \A u \in Threads : DOMAIN stack'[u] = DOMAIN stack[u]
      /\ k \in DOMAIN stack[t] /\ stack[t][k] = f /\ stack'[t][k] = g
      /\ \A u \in Threads : \A d \in DOMAIN stack[u] :
            u # t \/ d # k => stack'[u][d] = stack[u][d]
  BY <1>0, TopIs
<1>2. ASSUME NEW u \in Threads, NEW e \in DOMAIN stack[u], u # t \/ e # k
      PROVE  Apart(g, stack[u][e])
  <2>1. Apart(f, stack[u][e])
    BY <1>1, <1>2 DEF OwnInv, ApartInv
  <2> QED
    BY <1>2, <2>1 DEF Apart
<1>3. ASSUME NEW u \in Threads, NEW v \in Threads, NEW d \in DOMAIN stack'[u],
             NEW e \in DOMAIN stack'[v], u # v \/ d # e
      PROVE  Apart(stack'[u][d], stack'[v][e])
  <2>0. d \in DOMAIN stack[u] /\ e \in DOMAIN stack[v]
    BY <1>1
  <2>1. CASE u = t /\ d = k
    BY <1>1, <1>2, <1>3, <2>0, <2>1
  <2>2. CASE v = t /\ e = k
    BY <1>1, <1>2, <1>3, <2>0, <2>2, ApartBoth
  <2>3. CASE ~(u = t /\ d = k) /\ ~(v = t /\ e = k)
    BY <1>1, <1>3, <2>0, <2>3 DEF OwnInv, ApartInv
  <2> QED
    BY <2>1, <2>2, <2>3
<1> QED
  BY <1>3 DEF ApartInv

LEMMA ApartPush ==
    ASSUME Typing, OwnInv, NEW t \in Threads, NEW g \in Frame, Pushed(t, g),
           Len(stack[t]) < MaxDepth,
           \A u \in Threads : \A d \in DOMAIN stack[u] : Apart(stack[u][d], g)
    PROVE  ApartInv'
<1>0. PICK k : k = Len(stack[t]) + 1
  OBVIOUS
<1>1. /\ \A u \in Threads : \A d : d \in DOMAIN stack'[u] <=>
            d \in DOMAIN stack[u] \/ (u = t /\ d = k)
      /\ k \notin DOMAIN stack[t] /\ stack'[t][k] = g
      /\ \A u \in Threads : \A d \in DOMAIN stack[u] : stack'[u][d] = stack[u][d]
  BY <1>0, PushStack
<1>2. ASSUME NEW u \in Threads, NEW v \in Threads, NEW d \in DOMAIN stack'[u],
             NEW e \in DOMAIN stack'[v], u # v \/ d # e
      PROVE  Apart(stack'[u][d], stack'[v][e])
  <2>1. CASE d \in DOMAIN stack[u] /\ e \in DOMAIN stack[v]
    BY <1>1, <1>2, <2>1 DEF OwnInv, ApartInv
  <2>2. CASE d \notin DOMAIN stack[u]
    <3>1. u = t /\ d = k /\ stack'[u][d] = g /\ e \in DOMAIN stack[v]
      BY <1>1, <1>2, <2>2
    <3> QED
      BY <1>1, <3>1, ApartBoth
  <2>3. CASE e \notin DOMAIN stack[v]
    <3>1. v = t /\ e = k /\ stack'[v][e] = g /\ d \in DOMAIN stack[u]
      BY <1>1, <1>2, <2>3
    <3> QED
      BY <1>1, <3>1
  <2> QED
    BY <2>1, <2>2, <2>3
<1> QED
  BY <1>2 DEF ApartInv
LEMMA AllocateKeeps ==
    ASSUME Typing, OwnInv, NEW t \in Threads, NEW b \in Boxes \cup {Null}, Allocate(t, b)
    PROVE  Typing' /\ OwnInv'
<1>1. Running(t) /\ UNCHANGED <<slot, user, last_error, latest, lost, calls>>
  BY DEF Allocate, errVars
<1>2. PICK f \in Frame : f = Top(t)
  BY <1>1, TopFacts
<1>3. /\ Before(f, "box")
      /\ SetTop(t, Advanced([f EXCEPT !.box = b, !.user = Null]))
      /\ \/ b = Null /\ f.fn.makes = "buffer" /\ UNCHANGED <<heap, source>>
         \/ /\ b # Null /\ heap[b] = "free"
            /\ heap' = [heap EXCEPT ![b] = f.fn.makes]
            /\ source' = [source EXCEPT ![b] = f.user]
  BY <1>2 DEF Allocate
<1>4. FrameOk(heap, slot, source, user, f)
  BY <1>1, <1>2, TopOk
<1>5. f.mode = "running" /\ f.at <= Len(f.fn.steps) /\ f.fn.steps[f.at] = "box"
  BY <1>3 DEF Before
<1>6. f.fn # archive_free
  BY <1>4, <1>5, NotFree
<1>7. FnFacts(f.fn) /\ f.at \in 1 .. 6 /\ f.user \in Users \cup {Null}
  BY <1>6, FrameFnFacts, FrameFields
<1>8. /\ Len(f.fn.steps) \in 1 .. 5 /\ f.at \in 1 .. Len(f.fn.steps)
      /\ f.fn.makes \in Kinds /\ f.fn.makes # "none" /\ f.at + 1 <= Len(f.fn.steps)
      /\ AfterBox(f.fn, f.at + 1) /\ f.at + 1 \in 1 .. 6
  <2>1. Len(f.fn.steps) \in 1 .. 5 /\ f.at \in 1 .. Len(f.fn.steps)
    BY <1>5, <1>7 DEF FnFacts
  <2>2. /\ f.fn.makes \in Kinds \cup {"none"} /\ f.fn.makes # "none"
        /\ f.at < Len(f.fn.steps) /\ AfterBox(f.fn, f.at + 1)
    BY <1>5, <1>7, <2>1 DEF FnFacts
  <2>3. f.fn.makes \in Kinds
    BY <2>2
  <2>4. f.at + 1 <= Len(f.fn.steps) /\ f.at + 1 \in 1 .. 6
    <3>1. PICK n : n = Len(f.fn.steps)
      OBVIOUS
    <3>2. PICK a : a = f.at
      OBVIOUS
    <3>3. n \in 1 .. 5 /\ a \in 1 .. n /\ a < n
      BY <2>1, <2>2, <3>1, <3>2
    <3>4. a + 1 <= n /\ a + 1 \in 1 .. 6
      BY <3>3
    <3> QED
      BY <3>1, <3>2, <3>4
  <2> QED
    BY <2>1, <2>2, <2>3, <2>4
<1>9. f.box = Null
  <2>1. SUFFICES ASSUME f.box # Null
                 PROVE  FALSE
    OBVIOUS
  <2>2. AfterBox(f.fn, f.at)
    BY <1>4, <2>1 DEF FrameOk
  <2> QED
    BY <1>5, <1>8, <2>2 DEF AfterBox
<1>10. PICK g : g = Moved(f, f.at + 1, "running", Null, b)
  OBVIOUS
<1>11. /\ g \in Frame /\ g.at = f.at + 1 /\ g.mode = "running" /\ g.user = Null
       /\ g.box = b /\ g.fn = f.fn /\ g.slot = f.slot /\ g.archive = f.archive
  BY <1>7, <1>8, <1>10 DEF Frame, Moved
<1>12. SetTop(t, g)
  <2>1. Advanced([f EXCEPT !.box = b, !.user = Null]) = g
    BY <1>5, <1>10 DEF Frame, Moved, Advanced
  <2> QED
    BY <1>3, <2>1
<1>13. FrameOk(heap', slot, source, user, g)
  <2>1. b # Null => heap'[b] = f.fn.makes
    BY <1>3 DEF Typing
  <2> QED
    BY <1>4, <1>5, <1>6, <1>8, <1>11, <2>1 DEF FrameOk
<1>14. PICK k : k = Len(stack[t])
  OBVIOUS
<1>15. /\ \A u \in Threads : DOMAIN stack'[u] = DOMAIN stack[u]
       /\ k \in DOMAIN stack[t] /\ stack[t][k] = f /\ stack'[t][k] = g
       /\ \A u \in Threads : \A d \in DOMAIN stack[u] :
             u # t \/ d # k => stack'[u][d] = stack[u][d]
       /\ stack' \in [Threads -> Seq(Frame)]
       /\ \A u \in Threads : Len(stack'[u]) <= MaxDepth
  BY <1>1, <1>2, <1>11, <1>12, <1>14, TopIs
<1>16. CASE b = Null
  <2>1. UNCHANGED <<heap, source>> /\ f.fn.makes = "buffer"
    BY <1>3, <1>16
  <2>2. f.user = Null
    BY <1>4, <1>7, <2>1 DEF FrameOk, FnFacts
  <2>3. SameView(f, g)
    BY <1>6, <1>9, <1>11, <1>16, <2>2 DEF SameView
  <2>4. FrameOk(heap, slot, source, user, g)
    BY <1>13, <2>1
  <2>5. OwnInv'
    BY <1>1, <1>2, <1>6, <1>11, <1>12, <2>1, <2>3, <2>4, TopKeeps
  <2>6. Typing'
    BY <1>1, <1>11, <1>12, <2>1, TypingKept
  <2> QED
    BY <2>5, <2>6
<1>17. CASE b # Null
  <2>1. /\ b \in Boxes /\ heap[b] = "free"
        /\ heap' = [heap EXCEPT ![b] = f.fn.makes]
        /\ source' = [source EXCEPT ![b] = f.user]
    BY <1>3, <1>17
  <2>2. /\ heap' \in [Boxes -> Kinds \cup {"free"}] /\ source' \in [Boxes -> Users \cup {Null}]
        /\ heap'[b] = f.fn.makes /\ source'[b] = f.user
        /\ \A c \in Boxes : c # b => heap'[c] = heap[c] /\ source'[c] = source[c]
    BY <1>7, <1>8, <2>1 DEF Typing
  <2>3. Typing'
    BY <1>1, <1>15, <2>2 DEF Typing
  <2>4. \A s \in Slots : slot[s] # b
    <3>1. SUFFICES ASSUME NEW s \in Slots, slot[s] = b
                   PROVE  FALSE
      OBVIOUS
    <3>2. heap[b] = Holds[s] /\ Holds[s] \in Kinds
      BY <1>17, <3>1, FfiAssumption DEF OwnInv, SlotInv
    <3> QED
      BY <2>1, <3>2 DEF Kinds
  <2>5. \A u \in Threads : \A d \in DOMAIN stack[u] :
           FrameOk(heap, slot, source, user, stack[u][d]) /\ stack[u][d] \in Frame
    BY FrameIn DEF OwnInv
  <2>6. \A u \in Threads : \A d \in DOMAIN stack[u] : ~Owns(stack[u][d], b)
    BY <2>1, <2>5, OwnedLive DEF Kinds
  <2>7. \A c \in Boxes : (Owns(g, c) <=> c = b) /\ ~Owns(f, c)
    <3>1. \A c \in Boxes : c # Null
      BY FfiAssumption
    <3> QED
      BY <1>6, <1>9, <1>11, <3>1 DEF Owns
  <2>8. FramesInv'
    <3>1. ASSUME NEW u \in Threads, NEW d \in DOMAIN stack[u], u # t \/ d # k
          PROVE  FrameOk(heap', slot', source', user', stack[u][d])
      <4>1. PICK x \in Frame : x = stack[u][d] /\ FrameOk(heap, slot, source, user, x)
        BY <2>5
      <4>2. x.box \in Boxes \cup {Null} /\ x.archive \in Boxes \cup {Null} /\ ~Owns(x, b)
        BY <2>6, <4>1, FrameFields
      <4>3. x.fn = archive_free => x.archive \in Boxes /\ x.archive # b
        BY <4>1, <4>2 DEF FrameOk, Owns
      <4>4. x.archive # Null => x.archive # b
        BY <2>4, <4>1, <4>3 DEF FrameOk
      <4>5. x.box # Null => x.box # b
        BY <4>2 DEF Owns
      <4> QED
        BY <1>1, <2>2, <4>1, <4>2, <4>3, <4>4, <4>5, FrameKept
    <3>2. FrameOk(heap', slot', source', user', g)
      <4>1. g.mode = "running" /\ g.user = Null
        BY <1>11
      <4>2. g.fn # archive_free
        BY <1>6, <1>11
      <4> QED
        BY <1>1, <1>13, <4>1, <4>2 DEF FrameOk
    <3> QED
      BY <1>15, <3>1, <3>2 DEF FramesInv
  <2>9. ApartInv'
    BY <1>1, <1>2, <1>11, <1>12, <2>6, <2>7, ApartTop
  <2>10. SlotInv'
    <3>1. ASSUME NEW s \in Slots, slot[s] # Null
          PROVE  /\ heap'[slot[s]] = Holds[s]
                 /\ \A r \in Slots \ {s} : slot[r] # slot[s]
                 /\ \A u \in Threads : \A d \in DOMAIN stack'[u] : ~Owns(stack'[u][d], slot[s])
      <4>1. slot[s] \in Boxes /\ slot[s] # b
        BY <2>4, <3>1 DEF Typing
      <4>2. /\ heap[slot[s]] = Holds[s]
            /\ \A r \in Slots \ {s} : slot[r] # slot[s]
            /\ \A u \in Threads : \A d \in DOMAIN stack[u] : ~Owns(stack[u][d], slot[s])
        BY <3>1 DEF OwnInv, SlotInv
      <4> QED
        BY <1>15, <2>2, <2>7, <4>1, <4>2
    <3>2. ASSUME NEW c \in Boxes, heap'[c] # "free", c \notin lost
          PROVE  \/ \E s \in Slots : slot[s] = c
                 \/ \E u \in Threads : \E d \in DOMAIN stack'[u] : Owns(stack'[u][d], c)
      <4>1. CASE c = b
        BY <1>15, <2>7, <4>1
      <4>2. CASE c # b
        <5>1. \/ \E s \in Slots : slot[s] = c
              \/ \E u \in Threads : \E d \in DOMAIN stack[u] : Owns(stack[u][d], c)
          BY <2>2, <3>2, <4>2 DEF OwnInv, SlotInv
        <5> QED
          BY <1>15, <2>7, <5>1
      <4> QED
        BY <4>1, <4>2
    <3>3. ASSUME NEW c \in lost
         PROVE  /\ heap'[c] = "scratch" /\ \A r \in Slots : slot[r] # c
                /\ \A u \in Threads : \A d \in DOMAIN stack'[u] : ~Owns(stack'[u][d], c)
      <4>1. /\ c \in Boxes /\ heap[c] = "scratch" /\ \A r \in Slots : slot[r] # c
           /\ \A u \in Threads : \A d \in DOMAIN stack[u] : ~Owns(stack[u][d], c)
        BY <3>3 DEF OwnInv, SlotInv, Typing
      <4>2. c # b
        BY <2>1, <4>1
      <4> QED
        BY <1>15, <2>2, <2>7, <4>1, <4>2
    <3> QED
      BY <1>1, <3>1, <3>2, <3>3 DEF SlotInv
  <2>11. SourceInv'
    <3>0. /\ f.user # Null => user[f.user] = "library" /\ f.fn.makes = "archive"
          /\ \A c \in Boxes : heap[c] = "archive" /\ source[c] # Null => f.user # source[c]
          /\ f.user # Null => \A u \in Threads : \A d \in DOMAIN stack[u] :
                u # t \/ d # k => stack[u][d].user # f.user
      <4>1. f.user # Null => user[f.user] = "library" /\ f.fn.makes = "archive"
        BY <1>4, <1>5, <1>7 DEF FrameOk, FnFacts
      <4>2. \A c \in Boxes : heap[c] = "archive" /\ source[c] # Null => f.user # source[c]
        BY <1>15 DEF OwnInv, SourceInv
      <4>3. f.user # Null => \A u \in Threads : \A d \in DOMAIN stack[u] :
                u # t \/ d # k => stack[u][d].user # f.user
        BY <1>15 DEF OwnInv, ApartInv, Apart
      <4> QED
        BY <4>1, <4>2, <4>3
    <3>1. ASSUME NEW c \in Boxes, heap'[c] = "archive", source'[c] # Null
          PROVE  /\ \/ user[source'[c]] = "library"
                    \/ user[source'[c]] = "destroyed" /\ Destroying(c)'
                 /\ \A e \in Boxes \ {c} : heap'[e] = "archive" => source'[e] # source'[c]
                 /\ \A u \in Threads : \A d \in DOMAIN stack'[u] : stack'[u][d].user # source'[c]
      <4>1. CASE c = b
        <5>1. source'[c] = f.user /\ f.user # Null
          BY <2>2, <3>1, <4>1
        <5>2. \A e \in Boxes \ {c} : heap'[e] = "archive" => source'[e] # source'[c]
          BY <2>2, <3>0, <4>1, <5>1
        <5>3. \A u \in Threads : \A d \in DOMAIN stack'[u] : stack'[u][d].user # source'[c]
          BY <1>11, <1>15, <3>0, <5>1
        <5> QED
          BY <3>0, <5>1, <5>2, <5>3
      <4>2. CASE c # b
        <5>1. heap[c] = "archive" /\ source[c] # Null /\ source'[c] = source[c]
          BY <2>2, <3>1, <4>2
        <5>2. /\ \/ user[source[c]] = "library"
                 \/ user[source[c]] = "destroyed" /\ Destroying(c)
              /\ \A e \in Boxes \ {c} : heap[e] = "archive" => source[e] # source[c]
              /\ \A u \in Threads : \A d \in DOMAIN stack[u] : stack[u][d].user # source[c]
          BY <5>1 DEF OwnInv, SourceInv
        <5>3. \A e \in Boxes \ {c} : heap'[e] = "archive" => source'[e] # source'[c]
          BY <2>2, <3>0, <5>1, <5>2
        <5>4. \A u \in Threads : \A d \in DOMAIN stack'[u] : stack'[u][d].user # source'[c]
          BY <1>11, <1>15, <5>1, <5>2
        <5>5. Destroying(c) => Destroying(c)'
          BY <1>6, <1>15 DEF Destroying
        <5> QED
          BY <5>1, <5>2, <5>3, <5>4, <5>5
      <4> QED
        BY <4>1, <4>2
    <3>2. ASSUME NEW v \in Users, user[v] = "library"
          PROVE  \/ \E c \in Boxes : heap'[c] = "archive" /\ source'[c] = v
                 \/ \E u \in Threads : \E d \in DOMAIN stack'[u] : stack'[u][d].user = v
      <4>1. \/ \E c \in Boxes : heap[c] = "archive" /\ source[c] = v
            \/ \E u \in Threads : \E d \in DOMAIN stack[u] : stack[u][d].user = v
        BY <3>2 DEF OwnInv, SourceInv
      <4>2. v # Null
        BY FfiAssumption
      <4>3. CASE \E c \in Boxes : heap[c] = "archive" /\ source[c] = v
        BY <2>1, <2>2, <4>3
      <4>4. CASE \E u \in Threads : \E d \in DOMAIN stack[u] : stack[u][d].user = v
        <5>0. PICK u \in Threads : \E d \in DOMAIN stack[u] : stack[u][d].user = v
          BY <4>4
        <5>1. PICK d \in DOMAIN stack[u] : stack[u][d].user = v
          BY <5>0
        <5>2. CASE u = t /\ d = k
          BY <1>15, <2>1, <2>2, <3>0, <4>2, <5>1, <5>2
        <5>3. CASE u # t \/ d # k
          BY <1>15, <5>1, <5>3
        <5> QED
          BY <5>2, <5>3
      <4> QED
        BY <4>1, <4>3, <4>4
    <3> QED
      BY <1>1, <3>1, <3>2 DEF SourceInv
  <2> QED
    BY <2>3, <2>8, <2>9, <2>10, <2>11 DEF OwnInv
<1> QED
  BY <1>16, <1>17
LEMMA SourceKept ==
    ASSUME SourceInv, UNCHANGED <<heap, source, user>>,
           \A u \in Threads : DOMAIN stack'[u] = DOMAIN stack[u],
           \A u \in Threads : \A d \in DOMAIN stack[u] :
              stack'[u][d].user = stack[u][d].user,
           \A b \in Boxes : Destroying(b) => Destroying(b)'
    PROVE  SourceInv'
<1>1. ASSUME NEW b \in Boxes, heap[b] = "archive", source[b] # Null
      PROVE  /\ \/ user[source[b]] = "library"
                \/ user[source[b]] = "destroyed" /\ Destroying(b)'
             /\ \A c \in Boxes \ {b} : heap[c] = "archive" => source[c] # source[b]
             /\ \A t \in Threads : \A d \in DOMAIN stack'[t] : stack'[t][d].user # source[b]
  BY <1>1 DEF SourceInv
<1>2. ASSUME NEW u \in Users, user[u] = "library"
      PROVE  \/ \E b \in Boxes : heap[b] = "archive" /\ source[b] = u
             \/ \E t \in Threads : \E d \in DOMAIN stack'[t] : stack'[t][d].user = u
  BY <1>2 DEF SourceInv
<1> QED
  BY <1>1, <1>2 DEF SourceInv

LEMMA AssignKeeps ==
    ASSUME Typing, OwnInv, NEW t \in Threads, Assign(t)
    PROVE  Typing' /\ OwnInv'
<1>1. Running(t) /\ UNCHANGED <<heap, source, user, last_error, latest, lost, calls>>
  BY DEF Assign, errVars
<1>2. PICK f \in Frame : f = Top(t)
  BY <1>1, TopFacts
<1>3. /\ Before(f, "assign") /\ SetTop(t, Advanced([f EXCEPT !.box = Null]))
      /\ slot' = [s \in Slots |-> IF s = f.slot THEN f.box ELSE slot[s]]
  BY <1>2 DEF Assign
<1>4. FrameOk(heap, slot, source, user, f)
  BY <1>1, <1>2, TopOk
<1>5. f.mode = "running" /\ f.at <= Len(f.fn.steps) /\ f.fn.steps[f.at] = "assign"
  BY <1>3 DEF Before
<1>6. f.fn # archive_free
  BY <1>4, <1>5, NotFree
<1>7. /\ FnFacts(f.fn) /\ f.at \in 1 .. 6 /\ f.user \in Users \cup {Null}
      /\ f.box \in Boxes \cup {Null} /\ f.slot \in Slots \cup {Null}
  BY <1>6, FrameFnFacts, FrameFields
<1>8. /\ Len(f.fn.steps) \in 1 .. 5 /\ f.at = Len(f.fn.steps) /\ f.at + 1 \in 1 .. 6
      /\ ~(f.at + 1 <= Len(f.fn.steps))
  BY <1>5, <1>7 DEF FnFacts
<1>9. f.user = Null
  <2>1. SUFFICES ASSUME f.user # Null
                 PROVE  FALSE
    OBVIOUS
  <2>2. BoxAhead(f.fn, f.at)
    BY <1>4, <2>1 DEF FrameOk
  <2>3. PICK j \in f.at .. Len(f.fn.steps) : f.fn.steps[j] = "box"
    BY <2>2 DEF BoxAhead
  <2>4. j = f.at
    BY <1>8, <2>3
  <2> QED
    BY <1>5, <2>3, <2>4
<1>10. PICK g : g = Moved(f, f.at + 1, "running", Null, Null)
  OBVIOUS
<1>11. /\ g \in Frame /\ g.at = f.at + 1 /\ g.mode = "running" /\ g.user = Null
       /\ g.box = Null /\ g.fn = f.fn /\ g.slot = f.slot /\ g.archive = f.archive
  BY <1>7, <1>8, <1>10 DEF Frame, Moved
<1>12. SetTop(t, g)
  <2>1. Advanced([f EXCEPT !.box = Null]) = g
    BY <1>5, <1>9, <1>10 DEF Frame, Moved, Advanced
  <2> QED
    BY <1>3, <2>1
<1>13. PICK k : k = Len(stack[t])
  OBVIOUS
<1>14. /\ \A u \in Threads : DOMAIN stack'[u] = DOMAIN stack[u]
       /\ k \in DOMAIN stack[t] /\ stack[t][k] = f /\ stack'[t][k] = g
       /\ \A u \in Threads : \A d \in DOMAIN stack[u] :
             u # t \/ d # k => stack'[u][d] = stack[u][d]
       /\ stack' \in [Threads -> Seq(Frame)]
       /\ \A u \in Threads : Len(stack'[u]) <= MaxDepth
  BY <1>1, <1>2, <1>11, <1>12, <1>13, TopIs
<1>15. /\ f.slot \in Slots => slot[f.slot] = Null /\ slot'[f.slot] = f.box
                              /\ Holds[f.slot] = f.fn.makes
       /\ \A s \in Slots : s # f.slot => slot'[s] = slot[s]
       /\ f.box # Null => f.slot \in Slots /\ heap[f.box] = f.fn.makes
       /\ slot' \in [Slots -> Boxes \cup {Null}]
  <2>1. f.slot \in Slots => f.slot # Null
    BY FfiAssumption
  <2>2. f.slot \in Slots => slot[f.slot] = Null /\ Holds[f.slot] = f.fn.makes
    BY <1>4, <1>5, <2>1 DEF FrameOk
  <2>3. f.box # Null => f.slot \in Slots /\ heap[f.box] = f.fn.makes
    BY <1>4 DEF FrameOk
  <2> QED
    BY <1>3, <1>7, <2>2, <2>3 DEF Typing
<1>16. Typing'
  BY <1>1, <1>14, <1>15 DEF Typing
<1>17. \A c \in Boxes : ~Owns(g, c) /\ (Owns(f, c) <=> f.box = c)
  <2>1. \A c \in Boxes : c # Null
    BY FfiAssumption
  <2> QED
    BY <1>6, <1>11, <2>1 DEF Owns
<1>18. FramesInv'
  <2>1. ASSUME NEW x \in Frame, FrameOk(heap, slot, source, user, x),
               x.slot = Null \/ x.slot # f.slot
        PROVE  FrameOk(heap', slot', source', user', x)
    <3>1. x.slot # Null => slot'[x.slot] \in {slot[x.slot], Null}
      <4>1. x.slot \in Slots \cup {Null}
        BY FrameFields
      <4> QED
        BY <1>15, <2>1, <4>1
    <3>2. x.archive # Null =>
             \A s \in Slots : Holds[s] = "archive" /\ slot[s] = x.archive => slot'[s] = slot[s]
      BY <1>15
    <3> QED
      BY <1>1, <2>1, <3>1, <3>2, FrameKept
  <2>2. ASSUME NEW u \in Threads, NEW d \in DOMAIN stack[u], u # t \/ d # k
        PROVE  FrameOk(heap', slot', source', user', stack[u][d])
    <3>1. PICK x \in Frame : x = stack[u][d] /\ FrameOk(heap, slot, source, user, x)
      BY FrameIn DEF OwnInv
    <3>2. x.slot = Null \/ x.slot # f.slot
      BY <1>14, <2>2, <3>1 DEF OwnInv, ApartInv, Apart
    <3> QED
      BY <2>1, <3>1, <3>2
  <2>3. FrameOk(heap', slot', source', user', g)
    <3>1. g.archive # Null =>
             \E s \in Slots : Holds[s] = "archive" /\ slot'[s] = g.archive
      BY <1>4, <1>6, <1>11, <1>15 DEF FrameOk
    <3>2. g.fn.makes = "none" => g.slot = Null
      BY <1>4, <1>11 DEF FrameOk
    <3>3. g.fn.makes # "none" =>
            /\ g.slot \in Slots /\ Holds[g.slot] = g.fn.makes
            /\ ~(g.at <= Len(g.fn.steps))
      BY <1>4, <1>8, <1>11 DEF FrameOk
    <3>4. g.fn # archive_free /\ g.box = Null /\ g.user = Null /\ g.mode = "running"
      BY <1>6, <1>11
    <3> QED
      BY <3>1, <3>2, <3>3, <3>4 DEF FrameOk
  <2> QED
    BY <1>14, <2>2, <2>3 DEF FramesInv
<1>19. ApartInv'
  BY <1>1, <1>2, <1>11, <1>12, <1>17, ApartTop
<1>20. SlotInv'
  <2>1. ASSUME NEW s \in Slots, slot'[s] # Null
        PROVE  /\ heap[slot'[s]] = Holds[s]
               /\ \A r \in Slots \ {s} : slot'[r] # slot'[s]
               /\ \A u \in Threads : \A d \in DOMAIN stack'[u] : ~Owns(stack'[u][d], slot'[s])
    <3>1. CASE s = f.slot
      <4>1. slot'[s] = f.box /\ f.box # Null /\ f.box \in Boxes /\ Owns(f, f.box)
        BY <1>7, <1>15, <2>1, <3>1 DEF Owns
      <4>2. heap[f.box] = Holds[s]
        BY <1>15, <3>1, <4>1
      <4>3. \A r \in Slots \ {s} : slot[r] # f.box
        BY <1>14, <4>1 DEF OwnInv, SlotInv
      <4>4. \A u \in Threads : \A d \in DOMAIN stack[u] :
               u # t \/ d # k => ~Owns(stack[u][d], f.box)
        BY <1>14, <4>1 DEF OwnInv, ApartInv, Apart
      <4>5. \A r \in Slots \ {s} : slot'[r] # f.box
        BY <1>15, <3>1, <4>3
      <4>6. \A u \in Threads : \A d \in DOMAIN stack'[u] : ~Owns(stack'[u][d], f.box)
        <5>1. ~Owns(g, f.box)
          BY <1>17, <4>1
        <5>2. ASSUME NEW u \in Threads, NEW d \in DOMAIN stack[u]
              PROVE  ~Owns(stack'[u][d], f.box)
          <6>1. CASE u = t /\ d = k
            BY <1>14, <5>1, <6>1
          <6>2. CASE u # t \/ d # k
            BY <1>14, <4>4, <6>2
          <6> QED
            BY <6>1, <6>2
        <5> QED
          BY <1>14, <5>2
      <4> QED
        BY <4>1, <4>2, <4>5, <4>6
    <3>2. CASE s # f.slot
      <4>1. slot'[s] = slot[s] /\ slot[s] \in Boxes
        BY <1>15, <2>1, <3>2 DEF Typing
      <4>2. /\ heap[slot[s]] = Holds[s]
            /\ \A r \in Slots \ {s} : slot[r] # slot[s]
            /\ \A u \in Threads : \A d \in DOMAIN stack[u] : ~Owns(stack[u][d], slot[s])
        BY <2>1, <4>1 DEF OwnInv, SlotInv
      <4>3. f.box # slot[s]
        BY <1>14, <1>17, <4>1, <4>2
      <4>4. \A r \in Slots \ {s} : slot'[r] # slot[s]
        BY <1>15, <4>2, <4>3
      <4> QED
        BY <1>14, <1>17, <4>1, <4>2, <4>4
    <3> QED
      BY <3>1, <3>2
  <2>2. ASSUME NEW c \in Boxes, heap[c] # "free", c \notin lost
        PROVE  \/ \E s \in Slots : slot'[s] = c
               \/ \E u \in Threads : \E d \in DOMAIN stack'[u] : Owns(stack'[u][d], c)
    <3>0. c # Null
      BY FfiAssumption
    <3>1. CASE \E s \in Slots : slot[s] = c
      BY <1>15, <3>0, <3>1
    <3>2. CASE \E u \in Threads : \E d \in DOMAIN stack[u] : Owns(stack[u][d], c)
      <4>1. PICK u \in Threads : \E d \in DOMAIN stack[u] : Owns(stack[u][d], c)
        BY <3>2
      <4>2. PICK d \in DOMAIN stack[u] : Owns(stack[u][d], c)
        BY <4>1
      <4>3. CASE u = t /\ d = k
        BY <1>14, <1>15, <1>17, <3>0, <4>2, <4>3
      <4>4. CASE u # t \/ d # k
        BY <1>14, <4>2, <4>4
      <4> QED
        BY <4>3, <4>4
    <3> QED
      BY <2>2, <3>1, <3>2 DEF OwnInv, SlotInv
  <2>3. ASSUME NEW c \in lost
       PROVE  /\ heap[c] = "scratch" /\ \A r \in Slots : slot'[r] # c
              /\ \A u \in Threads : \A d \in DOMAIN stack'[u] : ~Owns(stack'[u][d], c)
    <3>1. /\ c \in Boxes /\ heap[c] = "scratch" /\ \A r \in Slots : slot[r] # c
         /\ \A u \in Threads : \A d \in DOMAIN stack[u] : ~Owns(stack[u][d], c)
      BY <2>3 DEF OwnInv, SlotInv, Typing
    <3>2. f.box # c
      BY <1>14, <1>17, <3>1
    <3>3. \A r \in Slots : slot'[r] # c
      BY <1>15, <3>1, <3>2
    <3> QED
      BY <1>14, <1>17, <3>1, <3>3
  <2> QED
    BY <1>1, <2>1, <2>2, <2>3 DEF SlotInv
<1>21. SourceInv'
  <2>1. \A u \in Threads : \A d \in DOMAIN stack[u] : stack'[u][d].user = stack[u][d].user
    BY <1>9, <1>11, <1>14
  <2>2. ASSUME NEW c \in Boxes, Destroying(c)
        PROVE  Destroying(c)'
    BY <1>6, <1>14, <2>2 DEF Destroying
  <2> QED
    BY <1>1, <1>14, <2>1, <2>2, SourceKept DEF OwnInv
<1> QED
  BY <1>16, <1>18, <1>19, <1>20, <1>21 DEF OwnInv
LEMMA SlotKept ==
    ASSUME SlotInv, UNCHANGED <<heap, slot, lost>>,
           \A u \in Threads : DOMAIN stack'[u] = DOMAIN stack[u],
           \A u \in Threads : \A d \in DOMAIN stack[u] : \A b :
              Owns(stack'[u][d], b) <=> Owns(stack[u][d], b)
    PROVE  SlotInv'
  BY DEF SlotInv

LEMMA DropSourceKeeps ==
    ASSUME Typing, OwnInv, NEW t \in Threads, DropSource(t)
    PROVE  Typing' /\ OwnInv'
<1>1. Running(t) /\ UNCHANGED <<heap, source, slot, last_error, latest, lost, calls>>
  BY DEF DropSource, errVars, memVars
<1>2. PICK f \in Frame : f = Top(t)
  BY <1>1, TopFacts
<1>3. /\ f.mode = "failed" /\ f.user # Null
      /\ SetTop(t, [f EXCEPT !.mode = "destroying"])
      /\ user' = [user EXCEPT ![f.user] = "destroyed"]
  BY <1>2 DEF DropSource
<1>4. FrameOk(heap, slot, source, user, f)
  BY <1>1, <1>2, TopOk
<1>5. f.fn # archive_free
  BY <1>3, <1>4 DEF FrameOk
<1>6. PICK g : g = [f EXCEPT !.mode = "destroying"]
  OBVIOUS
<1>7. /\ g \in Frame /\ g.at = f.at /\ g.mode = "destroying" /\ g.user = f.user
      /\ g.box = f.box /\ g.fn = f.fn /\ g.slot = f.slot /\ g.archive = f.archive
      /\ SetTop(t, g)
  BY <1>3, <1>6 DEF Frame
<1>8. f.user \in Users
  BY <1>3, FrameFields
<1>9. /\ user' \in [Users -> {"caller", "library", "destroyed"}]
      /\ user'[f.user] = "destroyed" /\ \A v \in Users : v # f.user => user'[v] = user[v]
  BY <1>3, <1>8 DEF Typing
<1>10. PICK k : k = Len(stack[t])
  OBVIOUS
<1>11. /\ \A u \in Threads : DOMAIN stack'[u] = DOMAIN stack[u]
       /\ k \in DOMAIN stack[t] /\ stack[t][k] = f /\ stack'[t][k] = g
       /\ \A u \in Threads : \A d \in DOMAIN stack[u] :
             u # t \/ d # k => stack'[u][d] = stack[u][d]
       /\ stack' \in [Threads -> Seq(Frame)]
       /\ \A u \in Threads : Len(stack'[u]) <= MaxDepth
  BY <1>1, <1>2, <1>7, <1>10, TopIs
<1>12. Typing'
  BY <1>1, <1>9, <1>11 DEF Typing
<1>13. FramesInv'
  <2>1. ASSUME NEW u \in Threads, NEW d \in DOMAIN stack[u], u # t \/ d # k
        PROVE  FrameOk(heap', slot', source', user', stack[u][d])
    <3>1. PICK x \in Frame : x = stack[u][d] /\ FrameOk(heap, slot, source, user, x)
      BY FrameIn DEF OwnInv
    <3>2. x.user # Null => x.user # f.user
      BY <1>11, <2>1, <3>1 DEF OwnInv, ApartInv, Apart
    <3>3. x.user # Null => user'[x.user] = user[x.user]
      BY <1>9, <3>2, FrameFields
    <3>4. x.fn = archive_free => x.archive \in Boxes
      BY <3>1 DEF FrameOk
    <3>5. x.fn = archive_free /\ source[x.archive] # Null /\ user[source[x.archive]] = "destroyed"
             => user'[source[x.archive]] = "destroyed"
      BY <1>9, <3>4 DEF Typing
    <3> QED
      BY <1>1, <3>1, <3>3, <3>5, FrameKept
  <2>2. FrameOk(heap', slot', source', user', g)
    BY <1>1, <1>3, <1>4, <1>5, <1>7, <1>9 DEF FrameOk
  <2> QED
    BY <1>11, <2>1, <2>2 DEF FramesInv
<1>14. \A b : Owns(g, b) <=> Owns(f, b)
  BY <1>7 DEF Owns
<1>15. ApartInv'
  BY <1>1, <1>2, <1>7, <1>14, ApartTop
<1>16. SlotInv'
  <2>1. \A u \in Threads : \A d \in DOMAIN stack[u] : \A b :
           Owns(stack'[u][d], b) <=> Owns(stack[u][d], b)
    BY <1>11, <1>14
  <2> QED
    BY <1>1, <1>11, <2>1, SlotKept DEF OwnInv
<1>17. SourceInv'
  <2>0. \A u \in Threads : \A d \in DOMAIN stack[u] : stack'[u][d].user = stack[u][d].user
    BY <1>7, <1>11
  <2>1. ASSUME NEW b \in Boxes, heap[b] = "archive", source[b] # Null
        PROVE  /\ \/ user'[source[b]] = "library"
                  \/ user'[source[b]] = "destroyed" /\ Destroying(b)'
               /\ \A c \in Boxes \ {b} : heap[c] = "archive" => source[c] # source[b]
               /\ \A u \in Threads : \A d \in DOMAIN stack'[u] : stack'[u][d].user # source[b]
    <3>1. source[b] \in Users /\ source[b] # f.user
      BY <1>11, <2>1 DEF OwnInv, SourceInv, Typing
    <3>2. Destroying(b) => Destroying(b)'
      BY <1>5, <1>11 DEF Destroying
    <3>3. /\ \A c \in Boxes \ {b} : heap[c] = "archive" => source[c] # source[b]
          /\ \A u \in Threads : \A d \in DOMAIN stack[u] : stack[u][d].user # source[b]
          /\ user[source[b]] = "library" \/ (user[source[b]] = "destroyed" /\ Destroying(b))
      BY <2>1 DEF OwnInv, SourceInv
    <3>4. \A u \in Threads : \A d \in DOMAIN stack'[u] : stack'[u][d].user # source[b]
      BY <1>11, <2>0, <3>3
    <3>5. user'[source[b]] = user[source[b]]
      BY <1>9, <3>1
    <3> QED
      BY <3>2, <3>3, <3>4, <3>5
  <2>2. ASSUME NEW v \in Users, user'[v] = "library"
        PROVE  \/ \E b \in Boxes : heap[b] = "archive" /\ source[b] = v
               \/ \E u \in Threads : \E d \in DOMAIN stack'[u] : stack'[u][d].user = v
    <3>1. user[v] = "library"
      BY <1>9, <2>2
    <3> QED
      BY <1>11, <2>0, <3>1 DEF OwnInv, SourceInv
  <2> QED
    BY <1>1, <2>1, <2>2 DEF SourceInv
<1> QED
  BY <1>12, <1>13, <1>15, <1>16, <1>17 DEF OwnInv

LEMMA DropArchiveKeeps ==
    ASSUME Typing, OwnInv, NEW t \in Threads, DropArchive(t)
    PROVE  Typing' /\ OwnInv'
<1>1. Running(t) /\ UNCHANGED <<heap, source, slot, last_error, latest, lost, calls>>
  BY DEF DropArchive, errVars, memVars
<1>2. PICK f \in Frame : f = Top(t)
  BY <1>1, TopFacts
<1>3. /\ Before(f, "drop") /\ SetTop(t, [f EXCEPT !.mode = "destroying"])
      /\ user' = [u \in Users |-> IF u = source[f.archive] THEN "destroyed" ELSE user[u]]
  BY <1>2 DEF DropArchive
<1>4. FrameOk(heap, slot, source, user, f)
  BY <1>1, <1>2, TopOk
<1>5. f.fn = archive_free
  <2>1. SUFFICES ASSUME f.fn # archive_free
                 PROVE  FALSE
    OBVIOUS
  <2>2. FnFacts(f.fn) /\ f.at \in 1 .. 6 /\ f.at <= Len(f.fn.steps) /\ f.fn.steps[f.at] = "drop"
    BY <1>3, <2>1, FrameFnFacts, FrameFields DEF Before
  <2> QED
    BY <2>2 DEF FnFacts
<1>6. PICK g : g = [f EXCEPT !.mode = "destroying"]
  OBVIOUS
<1>7. /\ g \in Frame /\ g.at = f.at /\ g.mode = "destroying" /\ g.user = f.user
      /\ g.box = f.box /\ g.fn = f.fn /\ g.slot = f.slot /\ g.archive = f.archive
      /\ SetTop(t, g)
  BY <1>3, <1>6 DEF Frame
<1>8. f.archive \in Boxes /\ heap[f.archive] = "archive" /\ Null \notin Users
  BY <1>4, <1>5, FfiAssumption DEF FrameOk
<1>9. /\ user' \in [Users -> {"caller", "library", "destroyed"}]
      /\ source[f.archive] # Null => user'[source[f.archive]] = "destroyed"
      /\ \A v \in Users : v # source[f.archive] => user'[v] = user[v]
  BY <1>3, <1>8 DEF Typing
<1>10. PICK k : k = Len(stack[t])
  OBVIOUS
<1>11. /\ \A u \in Threads : DOMAIN stack'[u] = DOMAIN stack[u]
       /\ k \in DOMAIN stack[t] /\ stack[t][k] = f /\ stack'[t][k] = g
       /\ \A u \in Threads : \A d \in DOMAIN stack[u] :
             u # t \/ d # k => stack'[u][d] = stack[u][d]
       /\ stack' \in [Threads -> Seq(Frame)]
       /\ \A u \in Threads : Len(stack'[u]) <= MaxDepth
  BY <1>1, <1>2, <1>7, <1>10, TopIs
<1>12. Typing'
  BY <1>1, <1>9, <1>11 DEF Typing
<1>13. FramesInv'
  <2>1. ASSUME NEW u \in Threads, NEW d \in DOMAIN stack[u], u # t \/ d # k
        PROVE  FrameOk(heap', slot', source', user', stack[u][d])
    <3>1. PICK x \in Frame : x = stack[u][d] /\ FrameOk(heap, slot, source, user, x)
      BY FrameIn DEF OwnInv
    <3>2. x.user # Null => x.user # source[f.archive]
      BY <1>8, <3>1 DEF OwnInv, SourceInv
    <3>3. x.user # Null => user'[x.user] = user[x.user]
      BY <1>9, <3>2, FrameFields
    <3>4. x.fn = archive_free => x.archive \in Boxes
      BY <3>1 DEF FrameOk
    <3>5. x.fn = archive_free /\ source[x.archive] # Null /\ user[source[x.archive]] = "destroyed"
             => user'[source[x.archive]] = "destroyed"
      BY <1>9, <3>4 DEF Typing
    <3> QED
      BY <1>1, <3>1, <3>3, <3>5, FrameKept
  <2>2. FrameOk(heap', slot', source', user', g)
    <3>1. /\ f.mode \in {"running", "destroying"} /\ f.at = 1
          /\ f.slot = Null /\ f.box = Null /\ f.user = Null
          /\ f.fn.makes = "none"
      BY <1>4, <1>5, FreeFacts DEF FrameOk
    <3> QED
      BY <1>1, <1>5, <1>7, <1>8, <1>9, <3>1 DEF FrameOk
  <2> QED
    BY <1>11, <2>1, <2>2 DEF FramesInv
<1>14. \A b : Owns(g, b) <=> Owns(f, b)
  BY <1>7 DEF Owns
<1>15. ApartInv'
  BY <1>1, <1>2, <1>7, <1>14, ApartTop
<1>16. SlotInv'
  <2>1. \A u \in Threads : \A d \in DOMAIN stack[u] : \A b :
           Owns(stack'[u][d], b) <=> Owns(stack[u][d], b)
    BY <1>11, <1>14
  <2> QED
    BY <1>1, <1>11, <2>1, SlotKept DEF OwnInv
<1>17. SourceInv'
  <2>0. \A u \in Threads : \A d \in DOMAIN stack[u] : stack'[u][d].user = stack[u][d].user
    BY <1>7, <1>11
  <2>1. ASSUME NEW b \in Boxes, heap[b] = "archive", source[b] # Null
        PROVE  /\ \/ user'[source[b]] = "library"
                  \/ user'[source[b]] = "destroyed" /\ Destroying(b)'
               /\ \A c \in Boxes \ {b} : heap[c] = "archive" => source[c] # source[b]
               /\ \A u \in Threads : \A d \in DOMAIN stack'[u] : stack'[u][d].user # source[b]
    <3>0. /\ \A c \in Boxes \ {b} : heap[c] = "archive" => source[c] # source[b]
          /\ \A u \in Threads : \A d \in DOMAIN stack'[u] : stack'[u][d].user # source[b]
          /\ user[source[b]] = "library" \/ (user[source[b]] = "destroyed" /\ Destroying(b))
      <4>1. /\ \A c \in Boxes \ {b} : heap[c] = "archive" => source[c] # source[b]
            /\ \A u \in Threads : \A d \in DOMAIN stack[u] : stack[u][d].user # source[b]
            /\ user[source[b]] = "library" \/ (user[source[b]] = "destroyed" /\ Destroying(b))
        BY <2>1 DEF OwnInv, SourceInv
      <4>2. \A u \in Threads : \A d \in DOMAIN stack'[u] : stack'[u][d].user # source[b]
        BY <1>11, <2>0, <4>1
      <4> QED
        BY <4>1, <4>2
    <3>1. CASE b = f.archive
      <4>1. Destroying(b)'
        BY <1>5, <1>7, <1>11, <3>1 DEF Destroying
      <4> QED
        BY <1>9, <2>1, <3>0, <3>1, <4>1
    <3>2. CASE b # f.archive
      <4>1. source[b] \in Users /\ source[f.archive] # source[b]
        BY <1>8, <2>1, <3>0, <3>2 DEF Typing
      <4>2. Destroying(b) => Destroying(b)'
        BY <1>11, <3>2 DEF Destroying
      <4> QED
        BY <1>9, <3>0, <4>1, <4>2
    <3> QED
      BY <3>1, <3>2
  <2>2. ASSUME NEW v \in Users, user'[v] = "library"
        PROVE  \/ \E b \in Boxes : heap[b] = "archive" /\ source[b] = v
               \/ \E u \in Threads : \E d \in DOMAIN stack'[u] : stack'[u][d].user = v
    <3>1. user[v] = "library"
      BY <1>3, <2>2
    <3> QED
      BY <1>11, <2>0, <3>1 DEF OwnInv, SourceInv
  <2> QED
    BY <1>1, <2>1, <2>2 DEF SourceInv
<1> QED
  BY <1>12, <1>13, <1>15, <1>16, <1>17 DEF OwnInv
\* A failed open has destroyed the source it was given.
LEMMA DestroyedSourceKeeps ==
    ASSUME Typing, OwnInv, NEW t \in Threads, DestroyReturns(t), Top(t).fn # archive_free
    PROVE  Typing' /\ OwnInv'
<1>1. Running(t) /\ UNCHANGED <<heap, source, slot, user, last_error, latest, lost, calls>>
  BY DEF DestroyReturns, errVars
<1>2. PICK f \in Frame : f = Top(t)
  BY <1>1, TopFacts
<1>3. /\ f.mode = "destroying" /\ f.fn # archive_free
      /\ SetTop(t, [f EXCEPT !.mode = "failed", !.user = Null])
  BY <1>2 DEF DestroyReturns
<1>4. FrameOk(heap, slot, source, user, f)
  BY <1>1, <1>2, TopOk
<1>6. PICK g : g = [f EXCEPT !.mode = "failed", !.user = Null]
  OBVIOUS
<1>7. /\ g \in Frame /\ g.at = f.at /\ g.mode = "failed" /\ g.user = Null
      /\ g.box = f.box /\ g.fn = f.fn /\ g.slot = f.slot /\ g.archive = f.archive
      /\ SetTop(t, g)
  BY <1>3, <1>6 DEF Frame
<1>10. PICK k : k = Len(stack[t])
  OBVIOUS
<1>11. /\ \A u \in Threads : DOMAIN stack'[u] = DOMAIN stack[u]
       /\ k \in DOMAIN stack[t] /\ stack[t][k] = f /\ stack'[t][k] = g
       /\ \A u \in Threads : \A d \in DOMAIN stack[u] :
             u # t \/ d # k => stack'[u][d] = stack[u][d]
  BY <1>1, <1>2, <1>7, <1>10, TopIs
<1>12. Typing'
  BY <1>1, <1>7, TypingKept
<1>13. FramesInv'
  <2>1. FrameOk(heap, slot, source, user, g)
    BY <1>3, <1>4, <1>7 DEF FrameOk
  <2> QED
    BY <1>1, <1>11, <2>1 DEF OwnInv, FramesInv
<1>14. \A b : Owns(g, b) <=> Owns(f, b)
  BY <1>7 DEF Owns
<1>15. ApartInv'
  BY <1>1, <1>2, <1>7, <1>14, ApartTop
<1>16. SlotInv'
  <2>1. \A u \in Threads : \A d \in DOMAIN stack[u] : \A b :
           Owns(stack'[u][d], b) <=> Owns(stack[u][d], b)
    BY <1>11, <1>14
  <2> QED
    BY <1>1, <1>11, <2>1, SlotKept DEF OwnInv
<1>17. SourceInv'
  <2>1. ASSUME NEW b \in Boxes, heap[b] = "archive", source[b] # Null
        PROVE  /\ \/ user[source[b]] = "library"
                  \/ user[source[b]] = "destroyed" /\ Destroying(b)'
               /\ \A c \in Boxes \ {b} : heap[c] = "archive" => source[c] # source[b]
               /\ \A u \in Threads : \A d \in DOMAIN stack'[u] : stack'[u][d].user # source[b]
    <3>1. Destroying(b) => Destroying(b)'
      BY <1>3, <1>11 DEF Destroying
    <3>2. /\ \A c \in Boxes \ {b} : heap[c] = "archive" => source[c] # source[b]
          /\ \A u \in Threads : \A d \in DOMAIN stack[u] : stack[u][d].user # source[b]
          /\ user[source[b]] = "library" \/ (user[source[b]] = "destroyed" /\ Destroying(b))
      BY <2>1 DEF OwnInv, SourceInv
    <3>3. \A u \in Threads : \A d \in DOMAIN stack'[u] : stack'[u][d].user # source[b]
      BY <1>7, <1>11, <2>1, <3>2
    <3> QED
      BY <3>1, <3>2, <3>3
  <2>2. ASSUME NEW v \in Users, user[v] = "library"
        PROVE  \/ \E b \in Boxes : heap[b] = "archive" /\ source[b] = v
               \/ \E u \in Threads : \E d \in DOMAIN stack'[u] : stack'[u][d].user = v
    <3>1. f.user # v
      <4>1. f.user # Null => user[f.user] = "destroyed"
        BY <1>3, <1>4 DEF FrameOk
      <4> QED
        BY <2>2, <4>1, FfiAssumption
    <3> QED
      BY <1>11, <2>2, <3>1 DEF OwnInv, SourceInv
  <2> QED
    BY <1>1, <2>1, <2>2 DEF SourceInv
<1> QED
  BY <1>12, <1>13, <1>15, <1>16, <1>17 DEF OwnInv

\* rasen_archive_free gives the box back.
LEMMA FreedArchiveKeeps ==
    ASSUME Typing, OwnInv, NEW t \in Threads, DestroyReturns(t), Top(t).fn = archive_free
    PROVE  Typing' /\ OwnInv'
<1>1. Running(t) /\ UNCHANGED <<slot, user, last_error, latest, lost, calls>>
  BY DEF DestroyReturns, errVars
<1>2. PICK f \in Frame : f = Top(t)
  BY <1>1, TopFacts
<1>3. PICK a : a = f.archive
  OBVIOUS
<1>4. /\ f.mode = "destroying" /\ f.fn = archive_free /\ Popped(t)
      /\ heap' = [heap EXCEPT ![a] = "free"] /\ source' = [source EXCEPT ![a] = Null]
  BY <1>2, <1>3 DEF DestroyReturns
<1>5. FrameOk(heap, slot, source, user, f)
  BY <1>1, <1>2, TopOk
<1>6. /\ a \in Boxes /\ heap[a] = "archive" /\ f.box = Null /\ f.user = Null
      /\ source[a] # Null => user[source[a]] = "destroyed"
  BY <1>3, <1>4, <1>5 DEF FrameOk
<1>7. /\ heap' \in [Boxes -> Kinds \cup {"free"}] /\ source' \in [Boxes -> Users \cup {Null}]
      /\ heap'[a] = "free"
      /\ \A c \in Boxes : c # a => heap'[c] = heap[c] /\ source'[c] = source[c]
  BY <1>4, <1>6 DEF Typing
<1>8. PICK k : k = Len(stack[t])
  OBVIOUS
<1>9. /\ \A u \in Threads : \A d : d \in DOMAIN stack'[u] <=>
            d \in DOMAIN stack[u] /\ ~(u = t /\ d = k)
      /\ \A u \in Threads : \A d \in DOMAIN stack'[u] : stack'[u][d] = stack[u][d]
      /\ k \in DOMAIN stack[t] /\ stack[t][k] = f
      /\ stack' \in [Threads -> Seq(Frame)]
      /\ \A u \in Threads : Len(stack'[u]) <= MaxDepth
  BY <1>1, <1>2, <1>4, <1>8, PopStack, TopFacts
<1>10. Typing'
  BY <1>1, <1>7, <1>9 DEF Typing
<1>11. \A c \in Boxes : Owns(f, c) <=> c = a
  <2>1. \A c \in Boxes : c # Null
    BY FfiAssumption
  <2> QED
    BY <1>3, <1>4, <1>6, <2>1 DEF Owns
<1>12. /\ \A u \in Threads : \A d \in DOMAIN stack'[u] : ~Owns(stack[u][d], a)
       /\ \A s \in Slots : slot[s] # a
  <2>1. \A u \in Threads : \A d \in DOMAIN stack'[u] : ~Owns(stack[u][d], a)
    BY <1>6, <1>9, <1>11 DEF OwnInv, ApartInv, Apart
  <2>2. \A s \in Slots : slot[s] # a
    <3>1. a # Null /\ Owns(f, a)
      BY <1>6, <1>11, FfiAssumption
    <3> QED
      BY <1>9, <3>1 DEF OwnInv, SlotInv
  <2> QED
    BY <2>1, <2>2
<1>13. FramesInv'
  <2>1. ASSUME NEW u \in Threads, NEW d \in DOMAIN stack'[u]
        PROVE  FrameOk(heap', slot', source', user', stack'[u][d])
    <3>1. PICK x \in Frame : /\ x = stack[u][d] /\ FrameOk(heap, slot, source, user, x)
                             /\ x = stack'[u][d]
      BY <1>9, <2>1, FrameIn DEF OwnInv
    <3>2. x.box \in Boxes \cup {Null} /\ x.archive \in Boxes \cup {Null} /\ ~Owns(x, a)
      BY <1>12, <2>1, <3>1, FrameFields
    <3>3. x.fn = archive_free => x.archive \in Boxes /\ x.archive # a
      BY <3>1, <3>2 DEF FrameOk, Owns
    <3>4. x.archive # Null => x.archive # a
      BY <1>12, <3>1, <3>3 DEF FrameOk
    <3>5. x.box # Null => x.box # a
      BY <3>2 DEF Owns
    <3>6. FrameOk(heap', slot', source', user', x)
      BY <1>1, <1>7, <3>1, <3>2, <3>3, <3>4, <3>5, FrameKept
    <3> QED
      BY <3>1, <3>6
  <2> QED
    BY <2>1 DEF FramesInv
<1>14. ApartInv'
  BY <1>9 DEF OwnInv, ApartInv
<1>15. SlotInv'
  <2>1. ASSUME NEW s \in Slots, slot[s] # Null
        PROVE  /\ heap'[slot[s]] = Holds[s]
               /\ \A r \in Slots \ {s} : slot[r] # slot[s]
               /\ \A u \in Threads : \A d \in DOMAIN stack'[u] : ~Owns(stack'[u][d], slot[s])
    <3>1. slot[s] \in Boxes /\ slot[s] # a
      BY <1>12, <2>1 DEF Typing
    <3>2. /\ heap[slot[s]] = Holds[s]
          /\ \A r \in Slots \ {s} : slot[r] # slot[s]
          /\ \A u \in Threads : \A d \in DOMAIN stack[u] : ~Owns(stack[u][d], slot[s])
      BY <2>1 DEF OwnInv, SlotInv
    <3> QED
      BY <1>7, <1>9, <3>1, <3>2
  <2>2. ASSUME NEW c \in Boxes, heap'[c] # "free", c \notin lost
        PROVE  \/ \E s \in Slots : slot[s] = c
               \/ \E u \in Threads : \E d \in DOMAIN stack'[u] : Owns(stack'[u][d], c)
    <3>1. c # a /\ heap[c] # "free" /\ c \notin lost /\ ~Owns(f, c)
      BY <1>7, <1>11, <2>2
    <3> QED
      BY <1>9, <3>1 DEF OwnInv, SlotInv
  <2>3. ASSUME NEW c \in lost
       PROVE  /\ heap'[c] = "scratch" /\ \A r \in Slots : slot[r] # c
              /\ \A u \in Threads : \A d \in DOMAIN stack'[u] : ~Owns(stack'[u][d], c)
    <3>1. /\ c \in Boxes /\ heap[c] = "scratch" /\ \A r \in Slots : slot[r] # c
         /\ \A u \in Threads : \A d \in DOMAIN stack[u] : ~Owns(stack[u][d], c)
      BY <2>3 DEF OwnInv, SlotInv, Typing
    <3>2. c # a
      BY <1>6, <3>1
    <3> QED
      BY <1>7, <1>9, <3>1, <3>2
  <2> QED
    BY <1>1, <2>1, <2>2, <2>3 DEF SlotInv
<1>16. SourceInv'
  <2>1. ASSUME NEW b \in Boxes, heap'[b] = "archive", source'[b] # Null
        PROVE  /\ \/ user[source'[b]] = "library"
                  \/ user[source'[b]] = "destroyed" /\ Destroying(b)'
               /\ \A c \in Boxes \ {b} : heap'[c] = "archive" => source'[c] # source'[b]
               /\ \A u \in Threads : \A d \in DOMAIN stack'[u] : stack'[u][d].user # source'[b]
    <3>0. b # a /\ heap[b] = "archive" /\ source'[b] = source[b]
      BY <1>7, <2>1
    <3>1. Destroying(b) => Destroying(b)'
      BY <1>3, <1>9, <3>0 DEF Destroying
    <3>2. /\ \A c \in Boxes \ {b} : heap[c] = "archive" => source[c] # source[b]
          /\ \A u \in Threads : \A d \in DOMAIN stack[u] : stack[u][d].user # source[b]
          /\ user[source[b]] = "library" \/ (user[source[b]] = "destroyed" /\ Destroying(b))
      BY <2>1, <3>0 DEF OwnInv, SourceInv
    <3>3. \A u \in Threads : \A d \in DOMAIN stack'[u] : stack'[u][d].user # source[b]
      BY <1>9, <3>2
    <3>4. \A c \in Boxes \ {b} : heap'[c] = "archive" => source'[c] # source[b]
      BY <1>7, <3>2
    <3> QED
      BY <3>0, <3>1, <3>2, <3>3, <3>4
  <2>2. ASSUME NEW v \in Users, user[v] = "library"
        PROVE  \/ \E b \in Boxes : heap'[b] = "archive" /\ source'[b] = v
               \/ \E u \in Threads : \E d \in DOMAIN stack'[u] : stack'[u][d].user = v
    <3>1. f.user # v /\ v # Null /\ source[a] # v
      BY <1>6, <2>2, FfiAssumption
    <3>2. \/ \E b \in Boxes : heap[b] = "archive" /\ source[b] = v
          \/ \E u \in Threads : \E d \in DOMAIN stack[u] : stack[u][d].user = v
      BY <2>2 DEF OwnInv, SourceInv
    <3>3. ASSUME NEW b \in Boxes, heap[b] = "archive", source[b] = v
          PROVE  heap'[b] = "archive" /\ source'[b] = v
      BY <1>7, <3>1, <3>3
    <3>4. ASSUME NEW u \in Threads, NEW d \in DOMAIN stack[u], stack[u][d].user = v
          PROVE  d \in DOMAIN stack'[u] /\ stack'[u][d].user = v
      BY <1>9, <3>1, <3>4
    <3> QED
      BY <3>2, <3>3, <3>4
  <2> QED
    BY <1>1, <2>1, <2>2 DEF SourceInv
<1> QED
  BY <1>10, <1>13, <1>14, <1>15, <1>16 DEF OwnInv
-----------------------------------------------------------------------------
(* Preservation: what the caller does *)

LEMMA BoxFreeKeeps ==
    ASSUME Typing, OwnInv, NEW t \in Threads, NEW s \in Slots, BoxFree(t, s)
    PROVE  Typing' /\ OwnInv'
<1>1. /\ UNCHANGED <<source, user, stack, last_error, latest, lost>> /\ calls[t] < MaxCalls
      /\ Holds[s] \in {"buffer", "scratch"}
      /\ heap' = [b \in Boxes |-> IF b = slot[s] THEN "free" ELSE heap[b]]
      /\ slot' = [slot EXCEPT ![s] = Null] /\ calls' = [calls EXCEPT ![t] = @ + 1]
  BY DEF BoxFree, Callable, errVars
<1>2. /\ heap' \in [Boxes -> Kinds \cup {"free"}] /\ slot' \in [Slots -> Boxes \cup {Null}]
      /\ \A b \in Boxes : b # slot[s] => heap'[b] = heap[b]
      /\ \A b \in Boxes : b = slot[s] => heap'[b] = "free"
      /\ slot'[s] = Null /\ \A r \in Slots : r # s => slot'[r] = slot[r]
  BY <1>1 DEF Typing
<1>3. Typing'
  <2>1. calls' \in [Threads -> 0 .. MaxCalls]
    BY <1>1, FfiAssumption DEF Typing
  <2> QED
    BY <1>1, <1>2, <2>1 DEF Typing
<1>4. slot[s] # Null =>
        /\ heap[slot[s]] = Holds[s]
        /\ \A r \in Slots \ {s} : slot[r] # slot[s]
        /\ \A u \in Threads : \A d \in DOMAIN stack[u] : ~Owns(stack[u][d], slot[s])
  BY DEF OwnInv, SlotInv
<1>5. FramesInv'
  <2>1. ASSUME NEW u \in Threads, NEW d \in DOMAIN stack[u]
        PROVE  FrameOk(heap', slot', source', user', stack[u][d])
    <3>1. PICK x \in Frame : x = stack[u][d] /\ FrameOk(heap, slot, source, user, x)
      BY FrameIn DEF OwnInv
    <3>2. /\ x.box \in Boxes \cup {Null} /\ x.archive \in Boxes \cup {Null}
          /\ x.slot \in Slots \cup {Null}
          /\ slot[s] # Null => ~Owns(x, slot[s])
      BY <1>4, <3>1, FrameFields
    <3>3. x.fn = archive_free => x.archive \in Boxes /\ heap'[x.archive] = heap[x.archive]
      <4>1. SUFFICES ASSUME x.fn = archive_free
                     PROVE  x.archive \in Boxes /\ x.archive # slot[s]
        BY <1>2
      <4>2. x.archive \in Boxes /\ x.archive # Null
        BY <3>1, <4>1, FfiAssumption DEF FrameOk
      <4> QED
        BY <3>2, <4>1, <4>2 DEF Owns
    <3>4. x.box # Null => heap'[x.box] = heap[x.box]
      BY <1>2, <3>2 DEF Owns
    <3>5. x.slot # Null => slot'[x.slot] \in {slot[x.slot], Null}
      BY <1>2, <3>2
    <3>6. \A r \in Slots : Holds[r] = "archive" /\ slot[r] = x.archive => slot'[r] = slot[r]
      BY <1>1, <1>2
    <3>7. source' = source /\ user' = user
      BY <1>1
    <3> QED
      BY <3>1, <3>3, <3>4, <3>5, <3>6, <3>7, FrameKept
  <2> QED
    BY <1>1, <2>1 DEF FramesInv
<1>6. ApartInv'
  BY <1>1 DEF OwnInv, ApartInv
<1>7. SlotInv'
  <2>1. ASSUME NEW r \in Slots, slot'[r] # Null
        PROVE  /\ heap'[slot'[r]] = Holds[r]
               /\ \A q \in Slots \ {r} : slot'[q] # slot'[r]
               /\ \A u \in Threads : \A d \in DOMAIN stack[u] : ~Owns(stack[u][d], slot'[r])
    <3>1. r # s /\ slot'[r] = slot[r] /\ slot[r] \in Boxes
      BY <1>2, <2>1 DEF Typing
    <3>2. /\ heap[slot[r]] = Holds[r]
          /\ \A q \in Slots \ {r} : slot[q] # slot[r]
          /\ \A u \in Threads : \A d \in DOMAIN stack[u] : ~Owns(stack[u][d], slot[r])
      BY <2>1, <3>1 DEF OwnInv, SlotInv
    <3>3. \A q \in Slots \ {r} : slot'[q] # slot[r]
      BY <1>2, <2>1, <3>1, <3>2
    <3>4. heap'[slot[r]] = heap[slot[r]]
      BY <1>2, <3>1, <3>2
    <3> QED
      BY <3>1, <3>2, <3>3, <3>4
  <2>2. ASSUME NEW c \in Boxes, heap'[c] # "free", c \notin lost
        PROVE  \/ \E r \in Slots : slot'[r] = c
               \/ \E u \in Threads : \E d \in DOMAIN stack[u] : Owns(stack[u][d], c)
    <3>1. c # slot[s] /\ heap[c] # "free" /\ c \notin lost
      BY <1>2, <2>2
    <3> QED
      BY <1>2, <3>1 DEF OwnInv, SlotInv
  <2>3. ASSUME NEW c \in lost
       PROVE  /\ heap'[c] = "scratch" /\ \A r \in Slots : slot'[r] # c
              /\ \A u \in Threads : \A d \in DOMAIN stack[u] : ~Owns(stack[u][d], c)
    <3>1. /\ c \in Boxes /\ heap[c] = "scratch" /\ \A r \in Slots : slot[r] # c
         /\ \A u \in Threads : \A d \in DOMAIN stack[u] : ~Owns(stack[u][d], c)
      BY <2>3 DEF OwnInv, SlotInv, Typing
    <3>2. c # slot[s] /\ c # Null
      BY <3>1, FfiAssumption
    <3> QED
      BY <1>2, <3>1, <3>2
  <2> QED
    BY <1>1, <2>1, <2>2, <2>3 DEF SlotInv
<1>8. SourceInv'
  <2>1. \A b \in Boxes : heap'[b] = "archive" <=> heap[b] = "archive"
    <3>1. \A b \in Boxes : b = slot[s] => heap[b] # "archive"
      BY <1>1, <1>4, FfiAssumption
    <3> QED
      BY <1>2, <3>1
  <2>2. \A b \in Boxes : Destroying(b) => Destroying(b)'
    BY <1>1 DEF Destroying
  <2>3. ASSUME NEW b \in Boxes, heap'[b] = "archive", source[b] # Null
        PROVE  /\ \/ user[source[b]] = "library"
                  \/ user[source[b]] = "destroyed" /\ Destroying(b)'
               /\ \A c \in Boxes \ {b} : heap'[c] = "archive" => source[c] # source[b]
               /\ \A u \in Threads : \A d \in DOMAIN stack[u] : stack[u][d].user # source[b]
    BY <2>1, <2>2, <2>3 DEF OwnInv, SourceInv
  <2>4. ASSUME NEW v \in Users, user[v] = "library"
        PROVE  \/ \E b \in Boxes : heap'[b] = "archive" /\ source[b] = v
               \/ \E u \in Threads : \E d \in DOMAIN stack[u] : stack[u][d].user = v
    BY <2>1, <2>4 DEF OwnInv, SourceInv
  <2> QED
    BY <1>1, <2>3, <2>4 DEF SourceInv
<1> QED
  BY <1>3, <1>5, <1>6, <1>7, <1>8 DEF OwnInv

LEMMA ArchiveFreeKeeps ==
    ASSUME Typing, OwnInv, NEW t \in Threads, NEW s \in Slots, ArchiveFree(t, s)
    PROVE  Typing' /\ OwnInv'
<1>1. /\ UNCHANGED <<heap, source, user, last_error, latest, lost>> /\ Holds[s] = "archive"
      /\ calls[t] < MaxCalls /\ Len(stack[t]) < MaxDepth
      /\ slot' = [slot EXCEPT ![s] = Null] /\ calls' = [calls EXCEPT ![t] = @ + 1]
      /\ \A f \in Frames : f.archive = Null \/ f.archive # slot[s]
      /\ slot[s] = Null => UNCHANGED stack
      /\ slot[s] # Null =>
            Pushed(t, [fn |-> archive_free, at |-> 1, mode |-> "running", bad |-> {},
                       slot |-> Null, archive |-> slot[s], user |-> Null,
                       box |-> Null, id |-> calls'[t]])
  BY DEF ArchiveFree, Callable, errVars
<1>2. /\ slot' \in [Slots -> Boxes \cup {Null}]
      /\ slot'[s] = Null /\ \A r \in Slots : r # s => slot'[r] = slot[r]
  BY <1>1 DEF Typing
<1>3. calls' \in [Threads -> 0 .. MaxCalls] /\ calls'[t] \in 1 .. MaxCalls
  BY <1>1, FfiAssumption DEF Typing
<1>4. CASE slot[s] = Null
  <2>1. slot' = slot /\ stack' = stack
    BY <1>1, <1>2, <1>4 DEF Typing
  <2>2. Typing'
    BY <1>1, <1>3, <2>1 DEF Typing
  <2>3. FramesInv' /\ ApartInv' /\ SlotInv'
    BY <1>1, <2>1 DEF OwnInv, FramesInv, ApartInv, SlotInv
  <2>4. \A b \in Boxes : Destroying(b) => Destroying(b)'
    BY <2>1 DEF Destroying
  <2>5. SourceInv'
    BY <1>1, <2>1, <2>4, SourceKept DEF OwnInv
  <2> QED
    BY <2>2, <2>3, <2>5 DEF OwnInv
<1>5. CASE slot[s] # Null
  <2>1. PICK a : a = slot[s]
    OBVIOUS
  <2>2. /\ a \in Boxes /\ a # Null /\ heap[a] = "archive"
        /\ \A r \in Slots \ {s} : slot[r] # a
        /\ \A u \in Threads : \A d \in DOMAIN stack[u] : ~Owns(stack[u][d], a)
    BY <1>1, <1>5, <2>1 DEF OwnInv, SlotInv, Typing
  <2>3. PICK g : g = [fn |-> archive_free, at |-> 1, mode |-> "running", bad |-> {},
                      slot |-> Null, archive |-> a, user |-> Null,
                      box |-> Null, id |-> calls'[t]]
    OBVIOUS
  <2>4. /\ g \in Frame /\ g.fn = archive_free /\ g.at = 1 /\ g.mode = "running"
        /\ g.slot = Null /\ g.archive = a /\ g.user = Null /\ g.box = Null
    BY <1>3, <2>2, <2>3 DEF Frame
  <2>5. Pushed(t, g)
    BY <1>1, <1>5, <2>1, <2>3
  <2>6. PICK k : k = Len(stack[t]) + 1
    OBVIOUS
  <2>7. /\ \A u \in Threads : \A d : d \in DOMAIN stack'[u] <=>
              d \in DOMAIN stack[u] \/ (u = t /\ d = k)
        /\ k \notin DOMAIN stack[t] /\ stack'[t][k] = g
        /\ \A u \in Threads : \A d \in DOMAIN stack[u] : stack'[u][d] = stack[u][d]
        /\ stack' \in [Threads -> Seq(Frame)]
        /\ \A u \in Threads : Len(stack'[u]) <= MaxDepth
    BY <1>1, <2>4, <2>5, <2>6, PushStack
  <2>8. Typing'
    BY <1>1, <1>2, <1>3, <2>7 DEF Typing
  <2>9. \A c \in Boxes : Owns(g, c) <=> c = a
    <3>1. \A c \in Boxes : c # Null
      BY FfiAssumption
    <3> QED
      BY <2>2, <2>4, <3>1 DEF Owns
  <2>10. FramesInv'
    <3>1. ASSUME NEW u \in Threads, NEW d \in DOMAIN stack[u]
          PROVE  FrameOk(heap', slot', source', user', stack[u][d])
      <4>1. PICK x \in Frame : /\ x = stack[u][d] /\ FrameOk(heap, slot, source, user, x)
                               /\ x \in Frames
        BY FrameIn DEF OwnInv
      <4>2. x.slot # Null => slot'[x.slot] \in {slot[x.slot], Null}
        BY <1>2, FrameFields
      <4>3. x.archive # Null => \A r \in Slots : slot[r] = x.archive => slot'[r] = slot[r]
        BY <1>1, <1>2, <4>1
      <4>4. heap' = heap /\ source' = source /\ user' = user
        BY <1>1
      <4> QED
        BY <4>1, <4>2, <4>3, <4>4, FrameKept
    <3>2. FrameOk(heap', slot', source', user', g)
      <4>1. g.fn.makes = "none"
        BY <2>4, FreeFacts
      <4> QED
        BY <1>1, <2>2, <2>4, <4>1 DEF FrameOk
    <3> QED
      BY <2>7, <3>1, <3>2 DEF FramesInv
  <2>11. ApartInv'
    <3>1. \A u \in Threads : \A d \in DOMAIN stack[u] : Apart(stack[u][d], g)
      BY <2>2, <2>4, <2>9 DEF Apart
    <3> QED
      BY <1>1, <2>4, <2>5, <3>1, ApartPush
  <2>12. SlotInv'
    <3>1. ASSUME NEW r \in Slots, slot'[r] # Null
          PROVE  /\ heap[slot'[r]] = Holds[r]
                 /\ \A q \in Slots \ {r} : slot'[q] # slot'[r]
                 /\ \A u \in Threads : \A d \in DOMAIN stack'[u] : ~Owns(stack'[u][d], slot'[r])
      <4>1. r # s /\ slot'[r] = slot[r] /\ slot[r] \in Boxes
        BY <1>2, <3>1 DEF Typing
      <4>2. /\ heap[slot[r]] = Holds[r]
            /\ \A q \in Slots \ {r} : slot[q] # slot[r]
            /\ \A u \in Threads : \A d \in DOMAIN stack[u] : ~Owns(stack[u][d], slot[r])
        BY <3>1, <4>1 DEF OwnInv, SlotInv
      <4>3. \A q \in Slots \ {r} : slot'[q] # slot[r]
        BY <1>2, <3>1, <4>1, <4>2
      <4>4. ~Owns(g, slot[r])
        BY <2>2, <2>9, <4>1
      <4> QED
        BY <2>7, <4>1, <4>2, <4>3, <4>4
    <3>2. ASSUME NEW c \in Boxes, heap[c] # "free", c \notin lost
          PROVE  \/ \E r \in Slots : slot'[r] = c
                 \/ \E u \in Threads : \E d \in DOMAIN stack'[u] : Owns(stack'[u][d], c)
      <4>1. CASE c = a
        BY <2>7, <2>9, <4>1
      <4>2. CASE c # a
        <5>1. \/ \E r \in Slots : slot[r] = c
              \/ \E u \in Threads : \E d \in DOMAIN stack[u] : Owns(stack[u][d], c)
          BY <3>2 DEF OwnInv, SlotInv
        <5> QED
          BY <1>2, <2>1, <2>7, <4>2, <5>1
      <4> QED
        BY <4>1, <4>2
    <3>3. ASSUME NEW c \in lost
         PROVE  /\ heap[c] = "scratch" /\ \A r \in Slots : slot'[r] # c
                /\ \A u \in Threads : \A d \in DOMAIN stack'[u] : ~Owns(stack'[u][d], c)
      <4>1. /\ c \in Boxes /\ heap[c] = "scratch" /\ \A r \in Slots : slot[r] # c
           /\ \A u \in Threads : \A d \in DOMAIN stack[u] : ~Owns(stack[u][d], c)
        BY <3>3 DEF OwnInv, SlotInv, Typing
      <4>2. c # a /\ c # Null
        BY <2>1, <4>1, FfiAssumption
      <4>3. \A r \in Slots : slot'[r] # c
        BY <1>2, <4>1, <4>2
      <4>4. ~Owns(g, c)
        BY <2>9, <4>1, <4>2
      <4>5. \A u \in Threads : \A d \in DOMAIN stack'[u] : ~Owns(stack'[u][d], c)
        BY <2>7, <4>1, <4>4
      <4> QED
        BY <4>1, <4>3, <4>5
    <3> QED
      BY <1>1, <3>1, <3>2, <3>3 DEF SlotInv
  <2>13. SourceInv'
    <3>1. ASSUME NEW b \in Boxes, heap[b] = "archive", source[b] # Null
          PROVE  /\ \/ user[source[b]] = "library"
                    \/ user[source[b]] = "destroyed" /\ Destroying(b)'
                 /\ \A c \in Boxes \ {b} : heap[c] = "archive" => source[c] # source[b]
                 /\ \A u \in Threads : \A d \in DOMAIN stack'[u] : stack'[u][d].user # source[b]
      <4>1. Destroying(b) => Destroying(b)'
        BY <2>7 DEF Destroying
      <4>2. /\ \A c \in Boxes \ {b} : heap[c] = "archive" => source[c] # source[b]
            /\ \A u \in Threads : \A d \in DOMAIN stack[u] : stack[u][d].user # source[b]
            /\ user[source[b]] = "library" \/ (user[source[b]] = "destroyed" /\ Destroying(b))
        BY <3>1 DEF OwnInv, SourceInv
      <4>3. \A u \in Threads : \A d \in DOMAIN stack'[u] : stack'[u][d].user # source[b]
        BY <2>4, <2>7, <3>1, <4>2
      <4> QED
        BY <4>1, <4>2, <4>3
    <3>2. ASSUME NEW v \in Users, user[v] = "library"
          PROVE  \/ \E b \in Boxes : heap[b] = "archive" /\ source[b] = v
                 \/ \E u \in Threads : \E d \in DOMAIN stack'[u] : stack'[u][d].user = v
      <4>1. \/ \E b \in Boxes : heap[b] = "archive" /\ source[b] = v
            \/ \E u \in Threads : \E d \in DOMAIN stack[u] : stack[u][d].user = v
        BY <3>2 DEF OwnInv, SourceInv
      <4> QED
        BY <2>7, <4>1
    <3> QED
      BY <1>1, <3>1, <3>2 DEF SourceInv
  <2> QED
    BY <2>8, <2>10, <2>11, <2>12, <2>13 DEF OwnInv
<1> QED
  BY <1>4, <1>5
LEMMA CallKeeps ==
    ASSUME Typing, OwnInv, NEW t \in Threads, Callable(t), NEW fn \in EntryPoints,
           NEW bad \in SUBSET ({"in", "out"} \cap Range(fn.steps)), NEW s \in Outs(fn),
           NEW b \in Archives(fn), NEW w \in Sources(fn), Call(t, fn, bad, s, b, w)
    PROVE  Typing' /\ OwnInv'
<1>1. /\ UNCHANGED <<heap, source, slot, last_error, latest, lost>>
      /\ calls[t] < MaxCalls /\ Len(stack[t]) < MaxDepth
      /\ user' = [x \in Users |-> IF x = w THEN "library" ELSE user[x]]
      /\ calls' = [calls EXCEPT ![t] = @ + 1]
      /\ Pushed(t, [fn |-> fn, at |-> 1, mode |-> "running", bad |-> bad, slot |-> s,
                    archive |-> b, user |-> w, box |-> Null, id |-> calls'[t]])
  BY DEF Call, Callable, memVars, errVars
<1>2. calls' \in [Threads -> 0 .. MaxCalls] /\ calls'[t] \in 1 .. MaxCalls
  BY <1>1, FfiAssumption DEF Typing
<1>3. /\ fn.makes = "none" => s = Null
      /\ fn.makes # "none" =>
            /\ s \in Slots /\ Holds[s] = fn.makes /\ slot[s] = Null
            /\ \A x \in Frames : x.slot # s
      /\ s \in Slots \cup {Null}
  BY DEF Outs
<1>4. /\ b # Null => fn.via = "archive" /\ \E r \in Slots : Holds[r] = "archive" /\ slot[r] = b
      /\ b \in Boxes \cup {Null}
  BY DEF Archives, Typing
<1>5. /\ w # Null => fn.via = "source" /\ w \in Users /\ user[w] = "caller"
      /\ w \in Users \cup {Null}
  BY DEF Sources
<1>6. fn # archive_free /\ FnFacts(fn)
  BY EntryPointFacts, FreeFacts
<1>7. bad \in SUBSET {"in", "out"}
  OBVIOUS
<1>8. PICK g : g = [fn |-> fn, at |-> 1, mode |-> "running", bad |-> bad, slot |-> s,
                    archive |-> b, user |-> w, box |-> Null, id |-> calls'[t]]
  OBVIOUS
<1>9. /\ g.fn = fn /\ g.at = 1 /\ g.mode = "running" /\ g.slot = s /\ g.archive = b
      /\ g.user = w /\ g.box = Null
      /\ g \in Frame
  BY <1>2, <1>3, <1>4, <1>5, <1>7, <1>8 DEF Frame
<1>10. Pushed(t, g)
  BY <1>1, <1>8
<1>11. PICK k : k = Len(stack[t]) + 1
  OBVIOUS
<1>12. /\ \A u \in Threads : \A d : d \in DOMAIN stack'[u] <=>
             d \in DOMAIN stack[u] \/ (u = t /\ d = k)
       /\ k \notin DOMAIN stack[t] /\ stack'[t][k] = g
       /\ \A u \in Threads : \A d \in DOMAIN stack[u] : stack'[u][d] = stack[u][d]
       /\ stack' \in [Threads -> Seq(Frame)]
       /\ \A u \in Threads : Len(stack'[u]) <= MaxDepth
  BY <1>1, <1>9, <1>10, <1>11, PushStack
<1>13. /\ user' \in [Users -> {"caller", "library", "destroyed"}]
       /\ \A v \in Users : v # w => user'[v] = user[v]
       /\ w # Null => user'[w] = "library"
  BY <1>1, <1>5 DEF Typing
<1>14. Typing'
  BY <1>1, <1>2, <1>12, <1>13 DEF Typing
<1>15. \A u \in Threads : \A d \in DOMAIN stack[u] :
          w # Null => stack[u][d].user # w
  <2>1. SUFFICES ASSUME NEW u \in Threads, NEW d \in DOMAIN stack[u], w # Null,
                        stack[u][d].user = w
                 PROVE  FALSE
    OBVIOUS
  <2>2. FrameOk(heap, slot, source, user, stack[u][d])
    BY FrameIn DEF OwnInv
  <2>3. user[w] \in {"destroyed", "library"}
    BY <2>1, <2>2 DEF FrameOk
  <2> QED
    BY <1>5, <2>1, <2>3
<1>16. FramesInv'
  <2>1. ASSUME NEW u \in Threads, NEW d \in DOMAIN stack[u]
        PROVE  FrameOk(heap', slot', source', user', stack[u][d])
    <3>1. PICK x \in Frame : x = stack[u][d] /\ FrameOk(heap, slot, source, user, x)
      BY FrameIn DEF OwnInv
    <3>2. x.user # Null => user'[x.user] = user[x.user]
      <4>1. x.user # Null => x.user \in Users /\ x.user # w
        BY <1>15, <3>1, FrameFields
      <4> QED
        BY <1>13, <4>1
    <3>3. x.fn = archive_free => x.archive \in Boxes
      BY <3>1 DEF FrameOk
    <3>4. x.fn = archive_free /\ source[x.archive] # Null /\ user[source[x.archive]] = "destroyed"
             => user'[source[x.archive]] = "destroyed"
      BY <1>5, <1>13, <3>3 DEF Typing
    <3> QED
      BY <1>1, <3>1, <3>2, <3>4, FrameKept
  <2>2. FrameOk(heap', slot', source', user', g)
    <3>1. w # Null => b = Null /\ BoxAhead(fn, 1)
      BY <1>4, <1>5, <1>6 DEF FnFacts
    <3> QED
      BY <1>1, <1>3, <1>4, <1>5, <1>6, <1>9, <1>13, <3>1 DEF FrameOk
  <2> QED
    BY <1>12, <2>1, <2>2 DEF FramesInv
<1>17. \A c \in Boxes : ~Owns(g, c)
  <2>1. \A c \in Boxes : c # Null
    BY FfiAssumption
  <2> QED
    BY <1>6, <1>9, <2>1 DEF Owns
<1>18. ApartInv'
  <2>1. ASSUME NEW u \in Threads, NEW d \in DOMAIN stack[u]
        PROVE  Apart(stack[u][d], g)
    <3>1. stack[u][d].slot = Null \/ stack[u][d].slot # s
      BY <1>3, FrameIn
    <3> QED
      BY <1>9, <1>15, <1>17, <3>1 DEF Apart
  <2> QED
    BY <1>1, <1>9, <1>10, <2>1, ApartPush
<1>19. SlotInv'
  <2>1. ASSUME NEW r \in Slots, slot[r] # Null
        PROVE  /\ heap[slot[r]] = Holds[r]
               /\ \A q \in Slots \ {r} : slot[q] # slot[r]
               /\ \A u \in Threads : \A d \in DOMAIN stack'[u] : ~Owns(stack'[u][d], slot[r])
    <3>1. slot[r] \in Boxes
      BY <2>1 DEF Typing
    <3>2. /\ heap[slot[r]] = Holds[r]
          /\ \A q \in Slots \ {r} : slot[q] # slot[r]
          /\ \A u \in Threads : \A d \in DOMAIN stack[u] : ~Owns(stack[u][d], slot[r])
      BY <2>1 DEF OwnInv, SlotInv
    <3> QED
      BY <1>12, <1>17, <3>1, <3>2
  <2>2. ASSUME NEW c \in Boxes, heap[c] # "free", c \notin lost
        PROVE  \/ \E r \in Slots : slot[r] = c
               \/ \E u \in Threads : \E d \in DOMAIN stack'[u] : Owns(stack'[u][d], c)
    BY <1>12, <2>2 DEF OwnInv, SlotInv
  <2>3. ASSUME NEW c \in lost
       PROVE  /\ heap[c] = "scratch" /\ \A r \in Slots : slot[r] # c
              /\ \A u \in Threads : \A d \in DOMAIN stack'[u] : ~Owns(stack'[u][d], c)
    <3>1. /\ c \in Boxes /\ heap[c] = "scratch" /\ \A r \in Slots : slot[r] # c
         /\ \A u \in Threads : \A d \in DOMAIN stack[u] : ~Owns(stack[u][d], c)
      BY <2>3 DEF OwnInv, SlotInv, Typing
    <3> QED
      BY <1>12, <1>17, <3>1
  <2> QED
    BY <1>1, <2>1, <2>2, <2>3 DEF SlotInv
<1>20. SourceInv'
  <2>1. ASSUME NEW c \in Boxes, heap[c] = "archive", source[c] # Null
        PROVE  /\ \/ user'[source[c]] = "library"
                  \/ user'[source[c]] = "destroyed" /\ Destroying(c)'
               /\ \A e \in Boxes \ {c} : heap[e] = "archive" => source[e] # source[c]
               /\ \A u \in Threads : \A d \in DOMAIN stack'[u] : stack'[u][d].user # source[c]
    <3>1. Destroying(c) => Destroying(c)'
      BY <1>12 DEF Destroying
    <3>2. /\ \A e \in Boxes \ {c} : heap[e] = "archive" => source[e] # source[c]
          /\ \A u \in Threads : \A d \in DOMAIN stack[u] : stack[u][d].user # source[c]
          /\ user[source[c]] = "library" \/ (user[source[c]] = "destroyed" /\ Destroying(c))
      BY <2>1 DEF OwnInv, SourceInv
    <3>3. source[c] \in Users /\ source[c] # w
      BY <1>5, <2>1, <3>2 DEF Typing
    <3>4. \A u \in Threads : \A d \in DOMAIN stack'[u] : stack'[u][d].user # source[c]
      BY <1>9, <1>12, <3>2, <3>3
    <3> QED
      BY <1>13, <3>1, <3>2, <3>3, <3>4
  <2>2. ASSUME NEW v \in Users, user'[v] = "library"
        PROVE  \/ \E c \in Boxes : heap[c] = "archive" /\ source[c] = v
               \/ \E u \in Threads : \E d \in DOMAIN stack'[u] : stack'[u][d].user = v
    <3>1. CASE v = w
      BY <1>9, <1>12, <3>1
    <3>2. CASE v # w
      <4>1. \/ \E c \in Boxes : heap[c] = "archive" /\ source[c] = v
            \/ \E u \in Threads : \E d \in DOMAIN stack[u] : stack[u][d].user = v
        BY <1>13, <2>2, <3>2 DEF OwnInv, SourceInv
      <4> QED
        BY <1>12, <4>1
    <3> QED
      BY <3>1, <3>2
  <2>3. heap' = heap /\ source' = source
    BY <1>1
  <2> QED
    BY <2>1, <2>2, <2>3 DEF SourceInv
<1> QED
  BY <1>14, <1>16, <1>18, <1>19, <1>20 DEF OwnInv

-----------------------------------------------------------------------------
(* The theorems *)

LEMMA Start == Init => Typing /\ OwnInv
<1>1. SUFFICES ASSUME Init
               PROVE  Typing /\ OwnInv
  OBVIOUS
<1>2. 0 \in 0 .. MaxCalls /\ 0 <= MaxDepth
  BY FfiAssumption
<1>3. \A t \in Threads : stack[t] = << >> /\ DOMAIN stack[t] = {} /\ Len(stack[t]) = 0
  BY <1>1 DEF Init
<1>4. stack \in [Threads -> Seq(Frame)]
  <2>1. << >> \in Seq(Frame)
    OBVIOUS
  <2> QED
    BY <1>1, <2>1 DEF Init
<1>5. Typing
  BY <1>1, <1>2, <1>3, <1>4 DEF Init, Typing, Kinds
<1>6. FramesInv /\ ApartInv
  BY <1>3 DEF FramesInv, ApartInv
<1>7. SlotInv
  BY <1>1 DEF Init, SlotInv
<1>8. SourceInv
  BY <1>1 DEF Init, SourceInv
<1> QED
  BY <1>5, <1>6, <1>7, <1>8 DEF OwnInv

LEMMA StutterKeeps ==
    ASSUME Typing, OwnInv, UNCHANGED vars
    PROVE  Typing' /\ OwnInv'
<1>1. /\ UNCHANGED <<heap, source, slot, user, last_error, latest, lost, calls>> /\ stack' = stack
  BY DEF vars, memVars, errVars
<1>2. Typing'
  BY <1>1 DEF Typing
<1>3. FramesInv' /\ ApartInv' /\ SlotInv'
  BY <1>1 DEF OwnInv, FramesInv, ApartInv, SlotInv
<1>4. \A b \in Boxes : Destroying(b) => Destroying(b)'
  BY <1>1 DEF Destroying
<1>5. SourceInv'
  BY <1>1, <1>4, SourceKept DEF OwnInv
<1> QED
  BY <1>2, <1>3, <1>5 DEF OwnInv

LEMMA StepKeeps ==
    ASSUME Typing, OwnInv, [Next]_vars
    PROVE  Typing' /\ OwnInv'
<1>1. CASE UNCHANGED vars
  BY <1>1, StutterKeeps
<1>2. CASE Quiet
  BY <1>2, StutterKeeps DEF Quiet
<1>3. ASSUME NEW t \in Threads, ThreadStep(t)
      PROVE  Typing' /\ OwnInv'
  <2>1. CASE Check(t)
    BY <2>1, CheckKeeps
  <2>2. CASE ReadAt(t) \/ ReadAtReturns(t) \/ CoreReturns(t)
    BY <2>2, ReadAtKeeps
  <2>3. CASE \E b \in Boxes \cup {Null} : Allocate(t, b)
    BY <2>3, AllocateKeeps
  <2>4. CASE Assign(t)
    BY <2>4, AssignKeeps
  <2>5. CASE ReturnOk(t) \/ ReturnError(t)
    BY <2>5, ReturnKeeps
  <2>9. CASE SetLastError(t)
    BY <2>9, SetLastErrorKeeps
  <2>6. CASE DropSource(t)
    BY <2>6, DropSourceKeeps
  <2>7. CASE DropArchive(t)
    BY <2>7, DropArchiveKeeps
  <2>8. CASE DestroyReturns(t)
    BY <2>8, DestroyedSourceKeeps, FreedArchiveKeeps
  <2> QED
    BY <1>3, <2>1, <2>2, <2>3, <2>4, <2>5, <2>6, <2>7, <2>8, <2>9, Zenon DEF ThreadStep
<1>4. ASSUME NEW t \in Threads, Client(t)
      PROVE  Typing' /\ OwnInv'
  <2>1. CASE \E s \in Slots : ArchiveFree(t, s) \/ BoxFree(t, s)
    BY <2>1, ArchiveFreeKeeps, BoxFreeKeeps
  <2>2. CASE /\ Callable(t)
             /\ \E fn \in EntryPoints : \E bad \in SUBSET ({"in", "out"} \cap Range(fn.steps)),
                   s \in Outs(fn), b \in Archives(fn), u \in Sources(fn) :
                      Call(t, fn, bad, s, b, u)
    <3>1. PICK fn \in EntryPoints :
             \E bad \in SUBSET ({"in", "out"} \cap Range(fn.steps)),
                s \in Outs(fn), b \in Archives(fn), u \in Sources(fn) :
                   Call(t, fn, bad, s, b, u)
      BY <2>2
    <3>2. PICK bad \in SUBSET ({"in", "out"} \cap Range(fn.steps)), s \in Outs(fn),
               b \in Archives(fn), u \in Sources(fn) : Call(t, fn, bad, s, b, u)
      BY <3>1
    <3> QED
      BY <2>2, <3>2, CallKeeps
  <2> QED
    BY <1>4, <2>1, <2>2, Zenon DEF Client
<1> QED
  BY <1>1, <1>2, <1>3, <1>4, Zenon DEF Next

LEMMA OwnAlways == Spec => [](Typing /\ OwnInv)
<1>1. Typing /\ OwnInv /\ [Next]_vars => (Typing /\ OwnInv)'
  BY StepKeeps
<1> QED
  BY <1>1, Start, PTL DEF Spec
LEMMA FramesAre ==
    ASSUME Typing, OwnInv
    PROVE  \A f \in Frames :
             /\ f \in Frame /\ FrameOk(heap, slot, source, user, f)
             /\ \E t \in Threads : \E d \in DOMAIN stack[t] : f = stack[t][d]
<1>1. ASSUME NEW f \in Frames
      PROVE  \E t \in Threads : \E d \in DOMAIN stack[t] : f = stack[t][d]
  BY DEF Frames
<1> QED
  BY <1>1, FrameIn DEF OwnInv

\* The frames, boxes and pointers of the interface keep their shape, for any
\* number of threads, pointers, sources and boxes and any depth of nesting.
THEOREM TypeCorrect == Spec => []TypeOK
<1>1. Typing /\ OwnInv => TypeOK
  <2>1. SUFFICES ASSUME Typing, OwnInv
                 PROVE  TypeOK
    OBVIOUS
  <2>2. Frames \subseteq Frame
    BY <2>1, FramesAre
  <2> QED
    BY <2>1, <2>2 DEF TypeOK, Typing
<1> QED
  BY <1>1, OwnAlways, PTL

LEMMA OwnerForms ==
    ASSUME Typing, NEW b \in Boxes
    PROVE  /\ \A x \in Owners(b) :
                 \/ x \in Slots /\ slot[x] = b
                 \/ \E t \in Threads : \E d \in DOMAIN stack[t] :
                       x = <<t, d>> /\ Owns(stack[t][d], b)
           /\ \A s \in Slots : slot[s] = b => s \in Owners(b)
           /\ \A t \in Threads : \A d \in DOMAIN stack[t] :
                 Owns(stack[t][d], b) => <<t, d>> \in Owners(b)
<1>1. ASSUME NEW x \in Owners(b), ~(x \in Slots /\ slot[x] = b)
      PROVE  \E t \in Threads : \E d \in DOMAIN stack[t] :
                x = <<t, d>> /\ Owns(stack[t][d], b)
  <2>1. /\ x \in Threads \X (1 .. MaxDepth) /\ x[2] \in DOMAIN stack[x[1]]
        /\ Owns(stack[x[1]][x[2]], b)
    BY <1>1 DEF Owners, Owns
  <2>2. x[1] \in Threads /\ x = <<x[1], x[2]>>
    BY <2>1
  <2> QED
    BY <2>1, <2>2
<1>2. ASSUME NEW t \in Threads, NEW d \in DOMAIN stack[t], Owns(stack[t][d], b)
      PROVE  <<t, d>> \in Owners(b)
  <2>1. stack[t] \in Seq(Frame) /\ Len(stack[t]) <= MaxDepth /\ MaxDepth \in Nat
    BY FfiAssumption DEF Typing
  <2>2. Len(stack[t]) \in Nat /\ d \in 1 .. Len(stack[t])
    BY <2>1
  <2>3. d \in 1 .. MaxDepth
    BY <2>1, <2>2
  <2>4. <<t, d>> \in Threads \X (1 .. MaxDepth) /\ <<t, d>>[1] = t /\ <<t, d>>[2] = d
    BY <2>3
  <2> QED
    BY <1>2, <2>4 DEF Owners, Owns
<1>3. \A s \in Slots : slot[s] = b => s \in Owners(b)
  BY DEF Owners
<1> QED
  BY <1>1, <1>2, <1>3

LEMMA OneOwner ==
    ASSUME Typing, OwnInv, NEW b \in Boxes, NEW x \in Owners(b), NEW y \in Owners(b)
    PROVE  x = y
<1>0. b # Null
  BY FfiAssumption
<1>1. CASE x \in Slots /\ slot[x] = b /\ y \in Slots /\ slot[y] = b
  BY <1>0, <1>1 DEF OwnInv, SlotInv
<1>2. ASSUME NEW z \in Slots, slot[z] = b,
             \E t \in Threads : \E d \in DOMAIN stack[t] : Owns(stack[t][d], b)
      PROVE  FALSE
  BY <1>0, <1>2 DEF OwnInv, SlotInv
<1>3. ASSUME NEW t \in Threads, NEW d \in DOMAIN stack[t], Owns(stack[t][d], b),
             NEW u \in Threads, NEW e \in DOMAIN stack[u], Owns(stack[u][e], b)
      PROVE  t = u /\ d = e
  BY <1>3 DEF OwnInv, ApartInv, Apart
<1> QED
  BY <1>1, <1>2, <1>3, OwnerForms

\* On every path of every call, on any thread and from inside any callback,
\* each live box has exactly one owner, so nothing is leaked or freed twice
\* (the scratch of a scratch_new without out excepted), and the caller's
\* pointers lead to live boxes of their kind.
THEOREM BoxesOwnedOnce == Spec => []OwnedOnce
<1>1. Typing /\ OwnInv => OwnedOnce
  <2>1. SUFFICES ASSUME Typing, OwnInv
                 PROVE  OwnedOnce
    OBVIOUS
  <2>2. \A s \in Slots : slot[s] # Null => heap[slot[s]] = Holds[s]
    BY <2>1 DEF OwnInv, SlotInv
  <2>3. ASSUME NEW b \in Boxes \ lost
        PROVE  Cardinality(Owners(b)) = IF heap[b] = "free" THEN 0 ELSE 1
    <3>1. CASE heap[b] = "free"
      <4>1. \A s \in Slots : slot[s] # b
        <5>1. SUFFICES ASSUME NEW s \in Slots, slot[s] = b
                       PROVE  FALSE
          OBVIOUS
        <5>2. b # Null /\ Holds[s] \in Kinds
          BY FfiAssumption
        <5>3. heap[b] \in Kinds
          BY <2>2, <5>1, <5>2
        <5> QED
          BY <3>1, <5>3 DEF Kinds
      <4>2. \A t \in Threads : \A d \in DOMAIN stack[t] : ~Owns(stack[t][d], b)
        <5>1. "free" \notin Kinds
          BY DEF Kinds
        <5> QED
          BY <2>1, <3>1, <5>1, FrameIn, OwnedLive DEF OwnInv
      <4>3. Owners(b) = {}
        BY <2>1, <4>1, <4>2, OwnerForms
      <4> QED
        BY <3>1, <4>3, FS_EmptySet
    <3>2. CASE heap[b] # "free"
      <4>1. Owners(b) # {}
        <5>1. \/ \E s \in Slots : slot[s] = b
              \/ \E t \in Threads : \E d \in DOMAIN stack[t] : Owns(stack[t][d], b)
          BY <2>1, <3>2 DEF OwnInv, SlotInv
        <5> QED
          BY <2>1, <5>1, OwnerForms
      <4>2. PICK x : x \in Owners(b)
        BY <4>1
      <4>3. Owners(b) = {x}
        BY <2>1, <4>2, OneOwner
      <4> QED
        BY <3>2, <4>3, FS_Singleton
    <3> QED
      BY <3>1, <3>2
  <2>4. ASSUME NEW b \in lost
        PROVE  heap[b] = "scratch" /\ Owners(b) = {}
    <3>1. b \in Boxes /\ heap[b] = "scratch" /\ \A s \in Slots : slot[s] # b
      BY <2>1, <2>4 DEF OwnInv, SlotInv, Typing
    <3>2. \A t \in Threads : \A d \in DOMAIN stack[t] : ~Owns(stack[t][d], b)
      BY <2>1, <2>4 DEF OwnInv, SlotInv
    <3> QED
      BY <2>1, <3>1, <3>2, OwnerForms
  <2> QED
    BY <2>2, <2>3, <2>4 DEF OwnedOnce
<1> QED
  BY <1>1, OwnAlways, PTL

LEMMA HolderForms ==
    ASSUME Typing, NEW u \in Users
    PROVE  /\ \A x \in Holders(u) :
                 \/ /\ x \in Boxes /\ heap[x] = "archive" /\ source[x] = u
                    /\ ~Destroying(x)
                 \/ \E t \in Threads : \E d \in DOMAIN stack[t] :
                       /\ x = <<t, d>> /\ stack[t][d].user = u
                       /\ stack[t][d].mode # "destroying"
           /\ \A b \in Boxes :
                 heap[b] = "archive" /\ source[b] = u /\ ~Destroying(b) => b \in Holders(u)
           /\ \A t \in Threads : \A d \in DOMAIN stack[t] :
                 stack[t][d].user = u /\ stack[t][d].mode # "destroying"
                    => <<t, d>> \in Holders(u)
<1>1. ASSUME NEW x \in Holders(u),
             ~(x \in Boxes /\ heap[x] = "archive" /\ source[x] = u /\ ~Destroying(x))
      PROVE  \E t \in Threads : \E d \in DOMAIN stack[t] :
                /\ x = <<t, d>> /\ stack[t][d].user = u
                /\ stack[t][d].mode # "destroying"
  <2>1. /\ x \in Threads \X (1 .. MaxDepth) /\ x[2] \in DOMAIN stack[x[1]]
        /\ stack[x[1]][x[2]].user = u /\ stack[x[1]][x[2]].mode # "destroying"
    BY <1>1 DEF Holders
  <2>2. x[1] \in Threads /\ x = <<x[1], x[2]>>
    BY <2>1
  <2> QED
    BY <2>1, <2>2
<1>2. ASSUME NEW t \in Threads, NEW d \in DOMAIN stack[t], stack[t][d].user = u,
             stack[t][d].mode # "destroying"
      PROVE  <<t, d>> \in Holders(u)
  <2>1. stack[t] \in Seq(Frame) /\ Len(stack[t]) <= MaxDepth /\ MaxDepth \in Nat
    BY FfiAssumption DEF Typing
  <2>2. Len(stack[t]) \in Nat /\ d \in 1 .. Len(stack[t])
    BY <2>1
  <2>3. d \in 1 .. MaxDepth
    BY <2>1, <2>2
  <2>4. <<t, d>> \in Threads \X (1 .. MaxDepth) /\ <<t, d>>[1] = t /\ <<t, d>>[2] = d
    BY <2>3
  <2> QED
    BY <1>2, <2>4 DEF Holders
<1>3. \A b \in Boxes :
         heap[b] = "archive" /\ source[b] = u /\ ~Destroying(b) => b \in Holders(u)
  BY DEF Holders
<1> QED
  BY <1>1, <1>2, <1>3

LEMMA OneHolder ==
    ASSUME Typing, OwnInv, NEW u \in Users, NEW x \in Holders(u), NEW y \in Holders(u)
    PROVE  x = y
<1>0. u # Null
  BY FfiAssumption
<1>2. ASSUME NEW b \in Boxes, heap[b] = "archive", source[b] = u,
             NEW c \in Boxes, heap[c] = "archive", source[c] = u
      PROVE  b = c
  BY <1>0, <1>2 DEF OwnInv, SourceInv
<1>3. ASSUME NEW b \in Boxes, heap[b] = "archive", source[b] = u,
             NEW t \in Threads, NEW d \in DOMAIN stack[t], stack[t][d].user = u
      PROVE  FALSE
  BY <1>0, <1>3 DEF OwnInv, SourceInv
<1>4. ASSUME NEW t \in Threads, NEW d \in DOMAIN stack[t], stack[t][d].user = u,
             NEW v \in Threads, NEW e \in DOMAIN stack[v], stack[v][e].user = u
      PROVE  t = v /\ d = e
  BY <1>0, <1>4 DEF OwnInv, ApartInv, Apart
<1> QED
  BY <1>2, <1>3, <1>4, HolderForms

\* A source given to open_source has one archive or one call that must still
\* destroy it until its destroy has run, whether the open succeeds or fails,
\* and none afterwards: destroy runs exactly once.  read_at only runs while the
\* source is the library's: never after destroy.
THEOREM SourcesDestroyedOnce == Spec => []SourceDestroyedOnce
<1>1. Typing /\ OwnInv => SourceDestroyedOnce
  <2>1. SUFFICES ASSUME Typing, OwnInv
                 PROVE  SourceDestroyedOnce
    OBVIOUS
  <2>2. ASSUME NEW u \in Users
        PROVE  Cardinality(Holders(u)) = IF user[u] = "library" THEN 1 ELSE 0
    <3>0. u # Null
      BY FfiAssumption
    <3>1. CASE user[u] = "library"
      <4>1. \/ \E b \in Boxes : heap[b] = "archive" /\ source[b] = u
            \/ \E t \in Threads : \E d \in DOMAIN stack[t] : stack[t][d].user = u
        BY <2>1, <3>1 DEF OwnInv, SourceInv
      <4>2. ASSUME NEW b \in Boxes, source[b] = u PROVE ~Destroying(b)
        <5>1. SUFFICES ASSUME NEW t \in Threads, NEW d \in DOMAIN stack[t],
                              stack[t][d].fn = archive_free, stack[t][d].archive = b,
                              stack[t][d].mode = "destroying"
                       PROVE  FALSE
          BY DEF Destroying
        <5>2. FrameOk(heap, slot, source, user, stack[t][d])
          BY <2>1 DEF OwnInv, FramesInv
        <5>3. user[u] = "destroyed"
          BY <3>0, <4>2, <5>1, <5>2 DEF FrameOk
        <5> QED
          BY <3>1, <5>3
      <4>3. ASSUME NEW t \in Threads, NEW d \in DOMAIN stack[t], stack[t][d].user = u
            PROVE  stack[t][d].mode # "destroying"
        <5>1. FrameOk(heap, slot, source, user, stack[t][d])
          BY <2>1 DEF OwnInv, FramesInv
        <5> QED
          BY <3>0, <3>1, <4>3, <5>1 DEF FrameOk
      <4>4. PICK x : x \in Holders(u)
        BY <2>1, <4>1, <4>2, <4>3, HolderForms
      <4>5. Holders(u) = {x}
        BY <2>1, <4>4, OneHolder
      <4> QED
        BY <3>1, <4>5, FS_Singleton
    <3>2. CASE user[u] # "library"
      <4>1. ASSUME NEW b \in Boxes, heap[b] = "archive", source[b] = u, ~Destroying(b)
            PROVE  FALSE
        BY <2>1, <3>0, <3>2, <4>1 DEF OwnInv, SourceInv
      <4>2. ASSUME NEW t \in Threads, NEW d \in DOMAIN stack[t], stack[t][d].user = u,
                   stack[t][d].mode # "destroying"
            PROVE  FALSE
        <5>1. FrameOk(heap, slot, source, user, stack[t][d])
          BY <2>1 DEF OwnInv, FramesInv
        <5> QED
          BY <3>0, <3>2, <4>2, <5>1 DEF FrameOk
      <4>3. Holders(u) = {}
        BY <2>1, <4>1, <4>2, HolderForms
      <4> QED
        BY <3>2, <4>3, FS_EmptySet
    <3> QED
      BY <3>1, <3>2
  <2>3. ASSUME NEW f \in Frames, f.mode = "reading"
        PROVE  user[SourceOf(f)] = "library"
    <3>1. f \in Frame /\ FrameOk(heap, slot, source, user, f)
      BY <2>1, FramesAre
    <3>2. (IF f.archive = Null THEN f.user ELSE source[f.archive]) # Null
      BY <2>3, <3>1 DEF FrameOk
    <3>3. CASE f.archive = Null
      BY <2>3, <3>1, <3>2, <3>3 DEF FrameOk, SourceOf
    <3>4. CASE f.archive # Null
      <4>1. f.fn # archive_free
        BY <2>3, <3>1 DEF FrameOk
      <4>2. PICK s \in Slots : Holds[s] = "archive" /\ slot[s] = f.archive
        BY <3>1, <3>4, <4>1 DEF FrameOk
      <4>3. /\ heap[f.archive] = "archive" /\ f.archive \in Boxes
            /\ \A t \in Threads : \A d \in DOMAIN stack[t] : ~Owns(stack[t][d], f.archive)
        BY <2>1, <3>1, <3>4, <4>2, FrameFields DEF OwnInv, SlotInv
      <4>4. ~Destroying(f.archive)
        BY <4>3 DEF Destroying, Owns
      <4>5. user[source[f.archive]] = "library"
        BY <2>1, <3>2, <3>4, <4>3, <4>4 DEF OwnInv, SourceInv
      <4> QED
        BY <3>4, <4>5 DEF SourceOf
    <3> QED
      BY <3>3, <3>4
  <2> QED
    BY <2>2, <2>3 DEF SourceDestroyedOnce
<1> QED
  BY <1>1, OwnAlways, PTL

\* Between set_last_error and the return the message is the returning call's,
\* at any other time that of the last call that returned an error; and a call
\* under another is in a callback.
ErrOf(t) ==
    /\ Running(t) /\ Top(t).mode = "reported" => last_error[t] = Top(t).id
    /\ ~(Running(t) /\ Top(t).mode = "reported") => last_error[t] = latest[t]
    /\ \A d \in DOMAIN stack[t] : d # Len(stack[t]) => InCallback(stack[t][d])

ErrInv == \A t \in Threads : ErrOf(t)

LEMMA ErrOthers ==
    ASSUME ErrInv, NEW t \in Threads, \A u \in Threads \ {t} :
              /\ stack'[u] = stack[u] /\ last_error'[u] = last_error[u]
              /\ latest'[u] = latest[u],
           ErrOf(t)'
    PROVE  ErrInv'
<1>1. ASSUME NEW u \in Threads \ {t}
      PROVE  ErrOf(u)'
  BY DEF ErrInv, ErrOf, Running, Top
<1> QED
  BY <1>1 DEF ErrInv, ErrOf

\* The top call moves on.
LEMMA ErrSetTop ==
    ASSUME Typing, ErrInv, NEW t \in Threads, Running(t), NEW g \in Frame, SetTop(t, g),
           \/ /\ g.mode # "reported" /\ Top(t).mode # "reported"
              /\ UNCHANGED <<last_error, latest>>
           \/ g.mode = "reported" /\ latest' = latest
              /\ last_error' = [last_error EXCEPT ![t] = g.id]
    PROVE  ErrInv'
<1>1. PICK k : k = Len(stack[t])
  OBVIOUS
<1>2. /\ k \in DOMAIN stack[t] /\ stack'[t][k] = g /\ Len(stack'[t]) = k
      /\ DOMAIN stack'[t] = DOMAIN stack[t]
      /\ \A d \in DOMAIN stack[t] : d # k => stack'[t][d] = stack[t][d]
      /\ \A u \in Threads \ {t} : stack'[u] = stack[u]
  BY <1>1, SetTopStack, TopFacts
<1>3. Top(t)' = g
  BY <1>2 DEF Top
<1>4. Running(t)'
  BY <1>2 DEF Running
<1>5. \A d \in DOMAIN stack'[t] : d # Len(stack'[t]) => InCallback(stack'[t][d])
  BY <1>1, <1>2 DEF ErrInv, ErrOf
<1>6. ErrOf(t)'
  BY <1>3, <1>4, <1>5 DEF ErrInv, ErrOf, Typing
<1> QED
  BY <1>2, <1>6, ErrOthers DEF Typing

\* The top call returns to the caller's code.
LEMMA ErrPop ==
    ASSUME Typing, ErrInv, NEW t \in Threads, Running(t), Popped(t), last_error' = last_error,
           \/ Top(t).mode # "reported" /\ latest' = latest
           \/ Top(t).mode = "reported" /\ latest' = [latest EXCEPT ![t] = Top(t).id]
    PROVE  ErrInv'
<1>1. PICK k : k = Len(stack[t])
  OBVIOUS
<1>2. /\ k \in Nat \ {0} /\ DOMAIN stack[t] = 1 .. k /\ Len(stack'[t]) = k - 1
      /\ stack'[t] \in Seq(Frame)
      /\ \A d \in DOMAIN stack'[t] : d \in DOMAIN stack[t] /\ d # k
      /\ \A d \in DOMAIN stack'[t] : stack'[t][d] = stack[t][d]
      /\ \A u \in Threads \ {t} : stack'[u] = stack[u]
  BY <1>1, PopStack, TopFacts
<1>3. \A d \in DOMAIN stack'[t] : InCallback(stack'[t][d])
  BY <1>1, <1>2 DEF ErrInv, ErrOf
<1>4. Running(t)' => Top(t)'.mode # "reported"
  <2>1. SUFFICES ASSUME stack'[t] # << >>
                 PROVE  stack'[t][Len(stack'[t])].mode # "reported"
    BY DEF Running, Top
  <2>2. Len(stack'[t]) \in DOMAIN stack'[t]
    BY <1>2, <2>1
  <2> QED
    BY <1>3, <2>2 DEF InCallback
<1>5. last_error'[t] = latest'[t]
  BY DEF ErrInv, ErrOf, Typing
<1>6. ErrOf(t)'
  BY <1>3, <1>4, <1>5 DEF ErrOf
<1> QED
  BY <1>2, <1>6, ErrOthers DEF Typing

\* The caller's code calls.
LEMMA ErrPush ==
    ASSUME Typing, ErrInv, NEW t \in Threads, Callable(t), NEW g \in Frame, Pushed(t, g),
           g.mode = "running", UNCHANGED <<last_error, latest>>
    PROVE  ErrInv'
<1>1. PICK k : k = Len(stack[t])
  OBVIOUS
<1>2. /\ stack[t] \in Seq(Frame) /\ k \in Nat /\ DOMAIN stack[t] = 1 .. k
      /\ Len(stack'[t]) = k + 1 /\ stack'[t] \in Seq(Frame) /\ stack'[t][k + 1] = g
      /\ \A d \in DOMAIN stack'[t] : d \in DOMAIN stack[t] \/ d = k + 1
      /\ \A d \in DOMAIN stack[t] : stack'[t][d] = stack[t][d]
      /\ \A u \in Threads \ {t} : stack'[u] = stack[u]
  BY <1>1, PushStack DEF Callable, Typing
<1>3. ASSUME NEW d \in DOMAIN stack[t] PROVE InCallback(stack[t][d])
  <2>1. Running(t)
    BY <1>2, <1>3 DEF Running
  <2>2. CASE d = k
    BY <1>1, <2>1, <2>2 DEF Callable, Top
  <2>3. CASE d # k
    BY <1>1, <2>3 DEF ErrInv, ErrOf
  <2> QED
    BY <2>2, <2>3
<1>4. Top(t)' = g
  BY <1>2 DEF Top
<1>5. last_error[t] = latest[t]
  BY DEF ErrInv, ErrOf, Callable, InCallback
<1>6. \A d \in DOMAIN stack'[t] : d # Len(stack'[t]) => InCallback(stack'[t][d])
  BY <1>2, <1>3
<1>7. ErrOf(t)'
  BY <1>4, <1>5, <1>6 DEF ErrOf
<1> QED
  BY <1>2, <1>7, ErrOthers DEF Typing

LEMMA ErrStill ==
    ASSUME ErrInv, UNCHANGED <<stack, last_error, latest>>
    PROVE  ErrInv'
  BY DEF ErrInv, ErrOf, Running, Top

LEMMA ErrThreadStep ==
    ASSUME Typing, OwnInv, ErrInv, NEW t \in Threads, ThreadStep(t), Typing'
    PROVE  ErrInv'
<1>1. Running(t)
  BY Zenon DEF ThreadStep, Check, ReadAt, ReadAtReturns, CoreReturns, Allocate, Assign,
         ReturnOk, DropSource, SetLastError, ReturnError, DropArchive, DestroyReturns
<1>2. PICK f \in Frame : f = Top(t)
  BY <1>1, TopFacts
<1>3. CASE ReturnOk(t)
  BY <1>1, <1>3, ErrPop DEF ReturnOk, errVars
<1>4. CASE ReturnError(t)
  BY <1>1, <1>4, ErrPop DEF ReturnError
<1>5. CASE DestroyReturns(t) /\ f.fn = archive_free
  BY <1>1, <1>2, <1>5, ErrPop DEF DestroyReturns, errVars
<1>6. CASE SetLastError(t)
  <2>1. PICK g : g = [f EXCEPT !.mode = "reported"]
    OBVIOUS
  <2>2. g \in Frame /\ g.mode = "reported" /\ g.id = f.id
    BY <2>1 DEF Frame
  <2> QED
    BY <1>1, <1>2, <1>6, <2>1, <2>2, ErrSetTop DEF SetLastError
<1>7. ASSUME UNCHANGED <<last_error, latest>>, f.mode # "reported", NEW g, SetTop(t, g),
             g \in Frame, g.mode # "reported"
      PROVE  ErrInv'
  BY <1>1, <1>2, <1>7, ErrSetTop
<1>8. ASSUME UNCHANGED <<last_error, latest>>, f.mode # "reported",
             NEW a \in 1 .. 6, NEW m \in {"running", "reading", "failed", "destroying"},
             NEW v \in Users \cup {Null}, NEW x \in Boxes \cup {Null},
             SetTop(t, Moved(f, a, m, v, x))
      PROVE  ErrInv'
  <2>1. PICK g : g = Moved(f, a, m, v, x)
    OBVIOUS
  <2>2. g \in Frame /\ g.mode = m
    BY <2>1 DEF Moved, Frame
  <2> QED
    BY <1>7, <1>8, <2>1, <2>2
<1>f. /\ f.at \in 1 .. 6 /\ f.user \in Users \cup {Null} /\ f.box \in Boxes \cup {Null}
      /\ f.mode \in {"running", "reading", "failed", "destroying", "reported"}
  BY FrameFields
<1>a. ASSUME NEW step, Before(f, step) PROVE f.mode = "running" /\ f.at + 1 \in 1 .. 6
  <2>1. f.mode = "running" /\ f.at <= Len(f.fn.steps)
    BY <1>a DEF Before
  <2>2. Len(f.fn.steps) \in 1 .. 5
    <3>1. CASE f.fn = archive_free
      BY <3>1, FreeFacts
    <3>2. CASE f.fn # archive_free
      BY <3>2, FrameFnFacts DEF FnFacts
    <3> QED
      BY <3>1, <3>2
  <2>3. \A n \in 1 .. 5 : \A a \in 1 .. 6 : a <= n => a + 1 \in 1 .. 6
    OBVIOUS
  <2> QED
    BY <1>f, <2>1, <2>2, <2>3
<1>m. /\ "running" \in {"running", "reading", "failed", "destroying"}
      /\ "reading" \in {"running", "reading", "failed", "destroying"}
      /\ "failed" \in {"running", "reading", "failed", "destroying"}
      /\ "destroying" \in {"running", "reading", "failed", "destroying"}
      /\ Null \in Users \cup {Null} /\ Null \in Boxes \cup {Null}
      /\ "running" # "reported" /\ "reading" # "reported" /\ "destroying" # "reported"
  OBVIOUS
<1>9. CASE Check(t)
  <2>1. PICK step \in {"in", "out"} :
          Before(f, step) /\ (SetTop(t, Failed(f)) \/ SetTop(t, Advanced(f)))
    BY <1>2, <1>9, Zenon DEF Check
  <2>2. UNCHANGED <<last_error, latest>>
    BY <1>9 DEF Check, errVars
  <2>3. f.mode = "running" /\ f.at + 1 \in 1 .. 6
    BY <1>a, <2>1
  <2>4. \/ SetTop(t, Moved(f, f.at, "failed", f.user, f.box))
        \/ SetTop(t, Moved(f, f.at + 1, "running", f.user, f.box))
    BY <2>1, <2>3, MovedForms
  <2> QED
    BY <1>8, <1>f, <1>m, <2>2, <2>3, <2>4, Zenon
<1>10. CASE ReadAt(t) \/ ReadAtReturns(t) \/ CoreReturns(t)
  <2>1. \/ Before(f, "core") /\ (SetTop(t, Failed(f)) \/ SetTop(t, Advanced(f)))
        \/ Before(f, "core") /\ SetTop(t, [f EXCEPT !.mode = "reading"])
        \/ /\ f.mode = "reading"
           /\ \/ SetTop(t, [f EXCEPT !.mode = "running"])
              \/ SetTop(t, Failed([f EXCEPT !.mode = "running"]))
    BY <1>2, <1>10, Zenon DEF ReadAt, ReadAtReturns, CoreReturns
  <2>2. UNCHANGED <<last_error, latest>>
    BY <1>10 DEF ReadAt, ReadAtReturns, CoreReturns, errVars
  <2>3. Before(f, "core") => f.mode = "running" /\ f.at + 1 \in 1 .. 6
    BY <1>a
  <2>4. \/ Before(f, "core") /\ SetTop(t, Moved(f, f.at + 1, "running", f.user, f.box))
        \/ SetTop(t, Moved(f, f.at, "failed", f.user, f.box))
        \/ SetTop(t, Moved(f, f.at, "reading", f.user, f.box))
        \/ SetTop(t, Moved(f, f.at, "running", f.user, f.box))
    BY <2>1, <2>3, MovedForms
  <2>5. f.mode # "reported"
    BY <1>m, <2>1, <2>3
  <2> QED
    BY <1>8, <1>f, <1>m, <2>2, <2>3, <2>4, <2>5, Zenon
<1>11. CASE \E b \in Boxes \cup {Null} : Allocate(t, b)
  <2>1. PICK b \in Boxes \cup {Null} : Allocate(t, b)
    BY <1>11
  <2>2. /\ Before(f, "box") /\ UNCHANGED <<last_error, latest>>
        /\ SetTop(t, Advanced([f EXCEPT !.box = b, !.user = Null]))
    BY <1>2, <2>1 DEF Allocate, errVars
  <2>3. f.mode = "running" /\ f.at + 1 \in 1 .. 6
    BY <1>a, <2>2
  <2>4. SetTop(t, Moved(f, f.at + 1, "running", Null, b))
    <3>1. Advanced([f EXCEPT !.box = b, !.user = Null])
            = Moved(f, f.at + 1, "running", Null, b)
      BY <2>3 DEF Frame, Moved, Advanced
    <3> QED
      BY <2>2, <3>1, Zenon
  <2> QED
    BY <1>8, <1>m, <2>2, <2>3, <2>4, Zenon
<1>12. CASE Assign(t)
  <2>2. /\ Before(f, "assign") /\ UNCHANGED <<last_error, latest>>
        /\ SetTop(t, Advanced([f EXCEPT !.box = Null]))
    BY <1>2, <1>12 DEF Assign, errVars
  <2>3. f.mode = "running" /\ f.at + 1 \in 1 .. 6
    BY <1>a, <2>2
  <2>4. SetTop(t, Moved(f, f.at + 1, "running", f.user, Null))
    BY <2>2, <2>3, MovedForms
  <2> QED
    BY <1>8, <1>f, <1>m, <2>2, <2>3, <2>4, Zenon
<1>13. CASE DropSource(t) \/ DropArchive(t)
  <2>1. /\ f.mode # "reported" /\ UNCHANGED <<last_error, latest>>
        /\ SetTop(t, [f EXCEPT !.mode = "destroying"])
    BY <1>2, <1>13 DEF DropSource, DropArchive, Before, errVars
  <2>2. SetTop(t, Moved(f, f.at, "destroying", f.user, f.box))
    BY <2>1, MovedForms
  <2> QED
    BY <1>8, <1>f, <1>m, <2>1, <2>2, Zenon
<1>14. CASE DestroyReturns(t) /\ f.fn # archive_free
  <2>1. /\ f.mode = "destroying" /\ UNCHANGED <<last_error, latest>>
        /\ SetTop(t, [f EXCEPT !.mode = "failed", !.user = Null])
    BY <1>2, <1>14 DEF DestroyReturns, errVars
  <2>2. SetTop(t, Moved(f, f.at, "failed", Null, f.box))
    BY <2>1, MovedForms
  <2> QED
    BY <1>8, <1>f, <1>m, <2>1, <2>2, Zenon
<1> QED
  BY <1>3, <1>4, <1>5, <1>6, <1>9, <1>10, <1>11, <1>12, <1>13, <1>14, Zenon
     DEF ThreadStep

LEMMA ErrClient ==
    ASSUME Typing, ErrInv, NEW t \in Threads, Client(t), Typing'
    PROVE  ErrInv'
<1>1. CASE \E s \in Slots : BoxFree(t, s)
  BY <1>1, ErrStill DEF BoxFree, errVars
<1>2. ASSUME NEW g, Pushed(t, g), Callable(t), UNCHANGED <<last_error, latest>>,
             g.mode = "running"
      PROVE  ErrInv'
  <2>1. stack'[t] \in Seq(Frame) /\ stack' = [stack EXCEPT ![t] = Append(stack[t], g)]
    BY <1>2 DEF Typing, Pushed
  <2>2. stack'[t] = Append(stack[t], g) /\ stack[t] \in Seq(Frame)
    BY <2>1 DEF Typing
  <2>3. g \in Frame
    <3>1. Len(stack'[t]) = Len(stack[t]) + 1 /\ stack'[t][Len(stack[t]) + 1] = g
      BY <2>2
    <3>2. Len(stack[t]) + 1 \in 1 .. Len(stack'[t])
      BY <2>2, <3>1
    <3> QED
      BY <2>1, <3>1, <3>2
  <2> QED
    BY <1>2, <2>3, ErrPush
<1>3. ASSUME NEW s \in Slots, ArchiveFree(t, s)
      PROVE  ErrInv'
  <2>1. PICK g : g = [fn |-> archive_free, at |-> 1, mode |-> "running", bad |-> {},
                      slot |-> Null, archive |-> slot[s], user |-> Null,
                      box |-> Null, id |-> calls'[t]]
    OBVIOUS
  <2>2. /\ Callable(t) /\ UNCHANGED <<last_error, latest>>
        /\ UNCHANGED stack \/ Pushed(t, g)
    BY <1>3, <2>1 DEF ArchiveFree, errVars
  <2>3. g.mode = "running"
    BY <2>1
  <2> QED
    BY <1>2, <2>2, <2>3, ErrStill
<1>4. ASSUME NEW fn, NEW bad, NEW s, NEW b, NEW u, Callable(t), Call(t, fn, bad, s, b, u)
      PROVE  ErrInv'
  <2>1. PICK g : g = [fn |-> fn, at |-> 1, mode |-> "running", bad |-> bad, slot |-> s,
                      archive |-> b, user |-> u, box |-> Null, id |-> calls'[t]]
    OBVIOUS
  <2>2. UNCHANGED <<last_error, latest>> /\ Pushed(t, g)
    BY <1>4, <2>1 DEF Call, errVars
  <2>3. g.mode = "running"
    BY <2>1
  <2> QED
    BY <1>2, <1>4, <2>2, <2>3
<1> QED
  BY <1>1, <1>3, <1>4, Zenon DEF Client

\* Whatever the other threads do, and whatever fails inside a destroy between
\* a call's failure and its return: when the caller's code runs on a thread,
\* the message is that of the thread's last call that returned an error.
THEOREM ErrorsStayWithTheirThread == Spec => []ErrorIsLatest
<1>1. Init => ErrInv
  BY DEF Init, ErrInv, ErrOf, Running
<1>2. Typing /\ OwnInv /\ ErrInv /\ [Next]_vars => ErrInv'
  <2>1. SUFFICES ASSUME Typing, OwnInv, ErrInv, [Next]_vars
                 PROVE  ErrInv'
    OBVIOUS
  <2>2. CASE UNCHANGED vars \/ Quiet
    BY <2>1, <2>2, ErrStill DEF Quiet, vars, errVars
  <2>3. Typing'
    BY <2>1, StepKeeps
  <2>4. ASSUME NEW t \in Threads, ThreadStep(t) \/ Client(t)
        PROVE  ErrInv'
    BY <2>1, <2>3, <2>4, ErrThreadStep, ErrClient
  <2> QED
    BY <2>1, <2>2, <2>4, Zenon DEF Next
<1>3. ErrInv => ErrorIsLatest
  BY DEF ErrInv, ErrOf, ErrorIsLatest, InCallback
<1> QED
  BY <1>1, <1>2, <1>3, OwnAlways, PTL DEF Spec
=============================================================================
