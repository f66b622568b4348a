---------------------------- MODULE RandomAccess ----------------------------
(***************************************************************************)
(* What trait RandomAccessRead promises the archive: threads share one     *)
(* source, and each read_exact_at happens at one moment between its call   *)
(* and its return.  A byte is named by its position in the source.         *)
(***************************************************************************)
EXTENDS Naturals, Sequences

CONSTANTS
    Threads,
    MaxLen,     \* bound: the length of the source
    MaxOffset   \* bound: the offset of a read

ASSUME RandomAccessAssumption == MaxLen \in Nat /\ MaxOffset \in Nat

VARIABLES
    len,      \* the length of the source now
    req,      \* per thread: its last read_exact_at, the place and the size
    dst,      \* per thread: what the buffer holds when the read has returned
    result    \* per thread: "none", "pending", "ok", "eof" or "error"

atomicVars == <<len, req, dst, result>>

Requests == [offset : 0 .. MaxOffset, size : 0 .. MaxLen]
Results == {"none", "pending", "ok", "eof", "error"}

\* The first n bytes a request asks for.
Asked(r, n) == [i \in 1 .. n |-> r.offset + i - 1]

AtomicInit ==
    /\ len \in 0 .. MaxLen
    /\ req = [t \in Threads |-> [offset |-> 0, size |-> 0]]
    /\ dst = [t \in Threads |-> << >>]
    /\ result = [t \in Threads |-> "none"]

Invoke(t, r) ==
    /\ result[t] # "pending"
    /\ req' = [req EXCEPT ![t] = r]
    /\ dst' = [dst EXCEPT ![t] = << >>]
    /\ result' = [result EXCEPT ![t] = "pending"]
    /\ UNCHANGED len

\* The read ends with this result and the first n bytes in the buffer.
Ends(t, outcome, n) ==
    /\ result[t] = "pending"
    /\ result' = [result EXCEPT ![t] = outcome]
    /\ dst' = [dst EXCEPT ![t] = Asked(req[t], n)]
    /\ UNCHANGED <<len, req>>

\* Every byte asked for was there; a read of no bytes may always succeed.
Succeeds(t) ==
    /\ req[t].offset + req[t].size <= len \/ req[t].size = 0
    /\ Ends(t, "ok", req[t].size)

\* UnexpectedEof: the request went past the end at that moment.
RunsOut(t) ==
    /\ req[t].offset + req[t].size > len
    /\ \E n \in 0 .. req[t].size : Ends(t, "eof", n)

\* Any other error; part of the buffer may have been filled.
Fails(t) == \E n \in 0 .. req[t].size : Ends(t, "error", n)

\* Another process truncates or extends the file.
Resize(n) ==
    /\ len' = n
    /\ UNCHANGED <<req, dst, result>>

AtomicNext ==
    \/ \E t \in Threads :
          \/ \E r \in Requests : Invoke(t, r)
          \/ Succeeds(t) \/ RunsOut(t) \/ Fails(t)
    \/ \E n \in 0 .. MaxLen : Resize(n)

AtomicSpec == AtomicInit /\ [][AtomicNext]_atomicVars
=============================================================================
