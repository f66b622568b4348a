---------------------------- MODULE AtomicOutput ----------------------------
(***************************************************************************)
(* What "failure-safe replacement" of an output file promises to whoever   *)
(* opens it: the file is the one that was there before, or the whole       *)
(* archive of some pack that got as far as publishing it.  A pack that     *)
(* fails or dies leaves it alone.  A machine that loses power may come     *)
(* back with an earlier one of these files, never with part of one.        *)
(***************************************************************************)
CONSTANTS
    Procs,      \* the packs
    Originals   \* what may be at the output before any of them

VARIABLES
    out,        \* what the output names: a pack's archive, or what was there
    durable,    \* what a power loss would bring back
    status      \* per pack: "waiting", "running", "ok" or "failed"

vars == <<out, durable, status>>

Init ==
    /\ out \in Originals
    /\ durable = out
    /\ status = [p \in Procs |-> "waiting"]

Begin(p) ==
    /\ status[p] = "waiting"
    /\ status' = [status EXCEPT ![p] = "running"]
    /\ UNCHANGED <<out, durable>>

Publish(p) ==
    /\ status[p] = "running"
    /\ out' = p
    /\ status' = [status EXCEPT ![p] = "ok"]
    /\ UNCHANGED durable

Fail(p) ==
    /\ status[p] \in {"waiting", "running"}
    /\ status' = [status EXCEPT ![p] = "failed"]
    /\ UNCHANGED <<out, durable>>

WriteBack ==
    /\ durable' = out
    /\ UNCHANGED <<out, status>>

PowerLoss ==
    /\ out' = durable
    /\ status' = [p \in Procs |->
                    IF status[p] = "running" THEN "failed" ELSE status[p]]
    /\ UNCHANGED durable

Next ==
    \/ \E p \in Procs : Begin(p) \/ Publish(p) \/ Fail(p)
    \/ WriteBack
    \/ PowerLoss

Spec == Init /\ [][Next]_vars
=============================================================================
