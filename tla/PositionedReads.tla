--------------------------- MODULE PositionedReads ---------------------------
(***************************************************************************)
(* The implementations of RandomAccessRead: a File (also behind a          *)
(* BufReader or a C handle), which is read piece by piece with positioned  *)
(* I/O; memory (slices, Arc, Cursor), which is copied in one step; and the *)
(* C interface's callback, which is called once and believed.              *)
(***************************************************************************)
EXTENDS RandomAccess, FiniteSetsExt

CONSTANTS
    Kinds,        \* the sources to look at: "file", "memory", "callback"
    MaxReads,     \* bound: the reads a thread makes
    MaxSignals    \* bound: the signals that interrupt a system call

ASSUME PositionedReadsAssumption ==
    /\ Kinds \subseteq {"file", "memory", "callback"}
    /\ {MaxReads, MaxSignals} \subseteq Nat

VARIABLES
    kind,      \* the source the threads share
    cursor,    \* the file's own position: seek_read moves it, read_at does not
    reads,     \* per thread: reads made so far
    signals    \* signals so far

allVars == <<atomicVars, kind, cursor, reads, signals>>

PInit ==
    /\ AtomicInit
    /\ kind \in Kinds
    /\ cursor = 0
    /\ reads = [t \in Threads |-> 0]
    /\ signals = 0

PInvoke(t, r) ==
    /\ reads[t] < MaxReads
    /\ Invoke(t, r)
    /\ reads' = [reads EXCEPT ![t] = @ + 1]
    /\ UNCHANGED <<kind, cursor, signals>>

-----------------------------------------------------------------------------
(* File: while !dst.is_empty() *)

\* Faulty: goes on from where the file's own cursor is.
Place_Cursor(t) == IF dst[t] = << >> THEN req[t].offset ELSE cursor

\* The local offset, and what is left of dst.
Place(t) == req[t].offset + Len(dst[t])
Left(t) == req[t].size - Len(dst[t])

\* The bytes one positioned read may deliver at this moment; none at the end.
Deliverable(t) ==
    IF Place(t) >= len THEN {0} ELSE 1 .. Min({Left(t), len - Place(t)})

\* One read_at that delivers n bytes; the loop ends when dst is full.
ReadAt(t, n) ==
    /\ kind = "file"
    /\ result[t] = "pending"
    /\ Left(t) > 0
    /\ n \in Deliverable(t) \ {0}
    /\ dst' = [dst EXCEPT ![t] = @ \o [i \in 1 .. n |-> Place(t) + i - 1]]
    /\ result' = [result EXCEPT ![t] = IF n = Left(t) THEN "ok" ELSE "pending"]
    /\ cursor' \in {cursor, Place(t) + n}
    /\ UNCHANGED <<len, req, kind, reads, signals>>

\* Faulty: waits for the file to grow.
ReadAtEnd_Retries(t) ==
    /\ kind = "file"
    /\ result[t] = "pending"
    /\ Left(t) > 0
    /\ 0 \in Deliverable(t)
    /\ UNCHANGED allVars

\* A read_at that delivers nothing.
ReadAtEnd(t) ==
    /\ kind = "file"
    /\ result[t] = "pending"
    /\ Left(t) > 0
    /\ 0 \in Deliverable(t)
    /\ result' = [result EXCEPT ![t] = "eof"]
    /\ UNCHANGED <<len, req, dst, kind, cursor, reads, signals>>

\* ErrorKind::Interrupted: the same read_at again.
Interrupted(t) ==
    /\ kind = "file"
    /\ result[t] = "pending"
    /\ Left(t) > 0
    /\ signals < MaxSignals
    /\ signals' = signals + 1
    /\ UNCHANGED <<atomicVars, kind, cursor, reads>>

\* Any other error of a read_at.
ReadAtFails(t) ==
    /\ kind = "file"
    /\ result[t] = "pending"
    /\ Left(t) > 0
    /\ result' = [result EXCEPT ![t] = "error"]
    /\ UNCHANGED <<len, req, dst, kind, cursor, reads, signals>>

\* An empty dst: the loop is not entered, wherever offset is.
ReadNothing(t) ==
    /\ kind = "file"
    /\ req[t].size = 0
    /\ Ends(t, "ok", 0)
    /\ UNCHANGED <<kind, cursor, reads, signals>>

-----------------------------------------------------------------------------
\* read_slice_exact: the whole range, or nothing.
ReadSliceExact(t) ==
    /\ kind = "memory"
    /\ IF req[t].offset + req[t].size <= len
       THEN Ends(t, "ok", req[t].size)
       ELSE Ends(t, "eof", 0)
    /\ UNCHANGED <<kind, cursor, reads, signals>>

\* The caller's read_at: 0 says that it has filled dst, anything else that it
\* has not, whatever it has put there.
CallbackReadAt(t) ==
    /\ kind = "callback"
    /\ \/ Succeeds(t)
       \/ Fails(t)
    /\ UNCHANGED <<kind, cursor, reads, signals>>

-----------------------------------------------------------------------------
PResize(n) ==
    /\ kind = "file"
    /\ n # len
    /\ Resize(n)
    /\ UNCHANGED <<kind, cursor, reads, signals>>

Step(t) ==
    \/ \E n \in 1 .. MaxLen : ReadAt(t, n)
    \/ ReadAtEnd(t) \/ ReadNothing(t)
    \/ ReadSliceExact(t) \/ CallbackReadAt(t)

\* Every thread has made its reads.
Quiet ==
    /\ \A t \in Threads : reads[t] = MaxReads /\ result[t] # "pending"
    /\ UNCHANGED allVars

PNext ==
    \/ \E t \in Threads :
          Step(t) \/ Interrupted(t) \/ ReadAtFails(t) \/ \E r \in Requests : PInvoke(t, r)
    \/ \E n \in 0 .. MaxLen : PResize(n)
    \/ Quiet

PSpec == PInit /\ [][PNext]_allVars

\* A thread inside read_exact_at runs on; no error need come to its help.
PFairSpec == PSpec /\ \A t \in Threads : WF_allVars(Step(t))

-----------------------------------------------------------------------------
(* Properties *)

\* A buffer is never written past its end, and the loop's place stays in the
\* request; a read that returned Ok has filled the buffer.
PTypeOK ==
    /\ len \in 0 .. MaxLen
    /\ req \in [Threads -> Requests]
    /\ result \in [Threads -> Results]
    /\ kind \in Kinds
    /\ reads \in [Threads -> 0 .. MaxReads]
    /\ signals \in 0 .. MaxSignals
    /\ \A t \in Threads :
          /\ Len(dst[t]) <= req[t].size
          /\ result[t] = "ok" => Len(dst[t]) = req[t].size

\* Partial reads are not seen: while a read runs its buffer is its own.
Atomic == INSTANCE RandomAccess WITH
    dst <- [t \in Threads |-> IF result[t] = "pending" THEN << >> ELSE dst[t]]

\* README: "one archive can be shared between threads without a seek-cursor
\* lock".  However the pieces of several threads' reads fall between each other
\* and between changes of the file's length, each read_exact_at is one read of
\* its own range at one moment, and UnexpectedEof is returned only when the
\* file was too short at that moment.
ReadsAreAtomic == Atomic!AtomicSpec

\* A read_exact_at returns, however short the pieces are.
ReadsReturn == \A t \in Threads : result[t] = "pending" ~> result[t] # "pending"
=============================================================================
