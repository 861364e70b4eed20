------------------------------- MODULE Logger -------------------------------
(***************************************************************************)
(* Logger: buffered log files, one per key (a component, or a component    *)
(* and a sub-component), used by one thread.                               *)
(*                                                                         *)
(* The entries of a key are numbered in the order they are logged.  Keys   *)
(* in Bad have files that may fail to open or to be written.               *)
(***************************************************************************)
EXTENDS Naturals, Sequences

CONSTANTS
    Key, Bad,
    Components,     \* the argument lists initialize is called with, no key twice
    BUFFER_SIZE,
    Reinitialize,   \* whether initialize may be called for files that are open
    MaxEntries      \* bound: entries logged to a key

ASSUME LoggerAssumption ==
    /\ Bad \subseteq Key
    /\ BUFFER_SIZE \in Nat \ {0}
    /\ MaxEntries \in Nat
    /\ Reinitialize \in BOOLEAN
    /\ \A comps \in Components : comps \in Seq(Key)

Stream == {"absent", "open", "dead", "failed"}

VARIABLES
    up,             \* the program runs
    is_initialized,
    files,          \* absent; open; dead (its open failed); failed (open, error bits set)
    buffers,
    disk,           \* what the file of each key holds
    logged          \* entries logged so far

vars == <<up, is_initialized, files, buffers, disk, logged>>

Init ==
    /\ up = TRUE
    /\ is_initialized = FALSE
    /\ files = [k \in Key |-> "absent"]
    /\ buffers = [k \in Key |-> <<>>]
    /\ disk = [k \in Key |-> <<>>]
    /\ logged = [k \in Key |-> 0]

IsOpen(f) == f \in {"open", "failed"}

(* What ofstream::open can make of a stream; an open one is left open, with *)
(* its fail bit set.                                                       *)
Opened(k) ==
    IF IsOpen(files[k]) THEN {"failed"}
    ELSE IF k \in Bad THEN {"open", "dead"}
    ELSE {"open"}

(* The stream after a buffer was written to it, and how many entries got   *)
(* into the file.                                                          *)
Written(k, f, buf) ==
    IF f # "open" \/ buf = <<>> THEN {<<f, 0>>}
    ELSE {<<"open", Len(buf)>>}
         \cup (IF k \in Bad THEN {<<"failed", n>> : n \in 0..Len(buf)} ELSE {})

----------------------------------------------------------------------------
(* initialize: the loop returns at the first file that does not open.      *)
Initialize(comps) ==
    /\ up
    /\ Reinitialize \/ \A i \in DOMAIN comps : ~IsOpen(files[comps[i]])
    /\ \E result \in [DOMAIN comps -> Stream] :
        LET failing == {i \in DOMAIN comps : ~IsOpen(result[i])}
            reached == {i \in DOMAIN comps : \A j \in failing : i <= j}
            at(k, S) == \E i \in S : comps[i] = k
        IN  /\ \A i \in DOMAIN comps : result[i] \in Opened(comps[i])
            /\ files' = [k \in Key |->
                   IF at(k, reached) THEN result[CHOOSE i \in reached : comps[i] = k]
                   ELSE files[k]]
            /\ buffers' = [k \in Key |->
                   IF at(k, reached \ failing) THEN <<>> ELSE buffers[k]]
            /\ is_initialized' = (is_initialized \/ failing = {})
    /\ UNCHANGED <<up, disk, logged>>

\* Variants: flushed one entry late; a flush that does not clear the buffer.
FullLate(buf) == Len(buf) > BUFFER_SIZE
Full(buf) == Len(buf) >= BUFFER_SIZE
NotCleared(buf) == buf
Cleared(buf) == <<>>

(* log, with ensureOpen and flush; the overloads for a sub-component (173-221) *)
(* do the same under its own key.                                          *)
Log(k) ==
    /\ up
    /\ logged[k] < MaxEntries
    /\ logged' = [logged EXCEPT ![k] = @ + 1]
    /\ \E f \in IF files[k] = "absent" THEN Opened(k) ELSE {files[k]} :
        LET old == IF files[k] = "absent" /\ f = "open" THEN <<>> ELSE buffers[k]
            buf == Append(old, logged[k] + 1)
        IN  IF Full(buf)
            THEN \E w \in Written(k, f, buf) :
                    /\ files' = [files EXCEPT ![k] = w[1]]
                    /\ disk' = [disk EXCEPT ![k] = @ \o SubSeq(buf, 1, w[2])]
                    /\ buffers' = [buffers EXCEPT ![k] = Cleared(buf)]
            ELSE /\ files' = [files EXCEPT ![k] = f]
                 /\ buffers' = [buffers EXCEPT ![k] = buf]
                 /\ UNCHANGED disk
    /\ UNCHANGED <<up, is_initialized>>

(* What can become of every buffer, and its writing. *)
Writes ==
    {w \in [Key -> Stream \X (0..BUFFER_SIZE)] :
        \A k \in Key : w[k] \in Written(k, files[k], buffers[k])}
Store(w) ==
    /\ disk' = [k \in Key |-> disk[k] \o SubSeq(buffers[k], 1, w[k][2])]
    /\ buffers' = [k \in Key |-> Cleared(buffers[k])]

FlushAll ==
    /\ up
    /\ \E w \in Writes : Store(w) /\ files' = [k \in Key |-> w[k][1]]
    /\ UNCHANGED <<up, is_initialized, logged>>

\* Variant: closeAll drops what flushAll should have written.
CloseUnwritten == UNCHANGED disk /\ buffers' = [k \in Key |-> <<>>]
CloseWritten == \E w \in Writes : Store(w)

(* closeAll, from the program or from the destructor at its end. *)
CloseAll ==
    /\ up
    /\ CloseWritten
    /\ files' = [k \in Key |-> "absent"]
    /\ is_initialized' = FALSE
    /\ up' \in BOOLEAN
    /\ UNCHANGED logged

(* std::exit on the STOP path, a signal or a crash: no destructor runs.    *)
Exit ==
    /\ up
    /\ up' = FALSE
    /\ buffers' = [k \in Key |-> <<>>]
    /\ UNCHANGED <<is_initialized, files, disk, logged>>

Over == ~up /\ UNCHANGED vars

Next ==
    \/ \E comps \in Components : Initialize(comps)
    \/ \E k \in Key : Log(k)
    \/ FlushAll \/ CloseAll \/ Exit \/ Over

Spec == Init /\ [][Next]_vars

----------------------------------------------------------------------------
(* Correctness. *)

Sent(k) == [i \in 1..logged[k] |-> i]
Sound == Key \ Bad

TypeOK ==
    /\ up \in BOOLEAN /\ is_initialized \in BOOLEAN
    /\ files \in [Key -> Stream]
    /\ buffers \in [Key -> Seq(Nat)]
    /\ disk \in [Key -> Seq(Nat)]
    /\ logged \in [Key -> Nat]

(* While the program runs, file and buffer of a sound key together hold    *)
(* every entry once and in order, however other keys fail                  *)
(* (Logger.cpp:95-146).                                                    *)
NothingLost == up => \A k \in Sound : disk[k] \o buffers[k] = Sent(k)

(* Logger.h:33, "flushAll() and closeAll() ensure all buffered logs are    *)
(* written": those of the sound keys are, whichever other files fail.      *)
FlushedIsWritten == [][FlushAll \/ CloseAll => \A k \in Sound : disk'[k] = Sent(k)]_vars

(* Logger.cpp:40, "Repeated calls re-open files for new components while   *)
(* preserving the existing buffers": what a call on a logger that is       *)
(* initialised already leaves alone.                                       *)
ReinitializeKeepsBuffers ==
    [][is_initialized /\ (\E comps \in Components : Initialize(comps)) => UNCHANGED buffers]_vars

(* What the sound keys promise. *)
Contract == INSTANCE LogContract WITH
    Key <- Sound, Limit <- BUFFER_SIZE,
    running <- up,
    entries <- [k \in Sound |-> Sent(k)],
    saved <- [k \in Sound |-> disk[k]]
ImplementsContract == Contract!Spec
=============================================================================
