---------------------------- MODULE NormalizePath ---------------------------
(***************************************************************************)
(* normalize_path, crates/rasen-archive/src/path.rs.  A path is the        *)
(* sequence of the parts between its separators, '/' or '\'; of a part,    *)
(* only its length in bytes and whether it has a NUL matter.  The empty    *)
(* path has one part, "".                                                  *)
(***************************************************************************)
EXTENDS Naturals, Sequences, FiniteSets, Functions

CONSTANTS
    Parts,       \* the parts a path may have: strings without a separator
    PartLen,     \* their length in bytes
    HasNul,      \* the parts with a NUL byte
    MAX_PATH_LEN, MAX_PATH_SEGMENTS,
    Rejected     \* Error::InvalidPath

ASSUME NormalizePathAssumption ==
    /\ {"", ".", ".."} \subseteq Parts
    /\ PartLen \in [Parts -> Nat]
    /\ \A p \in Parts : PartLen[p] = 0 <=> p = ""
    /\ HasNul \subseteq Parts \ {"", ".", ".."}
    /\ {MAX_PATH_LEN, MAX_PATH_SEGMENTS} \subseteq Nat
    /\ Rejected \notin Seq(Parts)

\* The length of a string: its parts and a separator between each two.
ByteLen(s) ==
    SumFunction([i \in DOMAIN s |-> PartLen[s[i]]])
        + IF s = << >> THEN 0 ELSE Len(s) - 1

\* A string starts with a separator when its first part of several is empty.
StartsWithSeparator(s) == Len(s) > 1 /\ s[1] = ""

\* What is looked at before the loop.
Acceptable(s) ==
    /\ ByteLen(s) <= MAX_PATH_LEN
    /\ Range(s) \cap HasNul = {}
    /\ ~StartsWithSeparator(s)

\* Faulty: "." is kept.
Dropped_KeepsDot == {""}

\* The parts that leave no trace.
Dropped == {"", "."}

\* One turn of the loop, for the index-th part.
Turn(normalized, index, part) ==
    IF normalized = Rejected \/ index > MAX_PATH_SEGMENTS \/ part = ".." THEN Rejected
    ELSE IF part \in Dropped THEN normalized
    ELSE Append(normalized, part)

Loop(path) ==
    LET after[i \in 0 .. Len(path)] ==
            IF i = 0 THEN << >> ELSE Turn(after[i - 1], i, path[i])
    IN after[Len(path)]

ResultOk(normalized) ==
    normalized # << >> /\ ByteLen(normalized) <= MAX_PATH_LEN

normalize_path(path) ==
    LET normalized == Loop(path) IN
    IF Acceptable(path) /\ normalized # Rejected /\ ResultOk(normalized)
    THEN normalized ELSE Rejected

-----------------------------------------------------------------------------
(* What a path means, said without the loop: the names it goes through.    *)

Names(s) == {i \in DOMAIN s : s[i] \notin {"", ".", ".."}}
NamesUpTo(s, i) == Cardinality({j \in Names(s) : j <= i})

\* The k-th name is the one that has k names up to it.
Reference(s) ==
    [k \in 1 .. Cardinality(Names(s)) |->
        s[CHOOSE i \in Names(s) : NamesUpTo(s, i) = k]]

\* It stays below its root, names something and is not too long.
Accepted(s) ==
    /\ Acceptable(s)
    /\ ".." \notin Range(s)
    /\ Len(s) <= MAX_PATH_SEGMENTS
    /\ Reference(s) # << >>
=============================================================================
