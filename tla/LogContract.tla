---------------------------- MODULE LogContract ----------------------------
(* What a program relies on when it logs: the file of a key holds the      *)
(* entries logged to it, in their order, without gaps or repetitions, and  *)
(* lacks fewer than Limit of the newest, even when the program dies.       *)
EXTENDS Naturals, Sequences

CONSTANTS Key, Limit

VARIABLES
    running,
    entries,    \* the entries logged to each key
    saved       \* what its file holds

vars == <<running, entries, saved>>

Init ==
    /\ running = TRUE
    /\ entries = [k \in Key |-> <<>>]
    /\ saved = [k \in Key |-> <<>>]

(* A new entry is kept in memory, or goes to the file with the others. *)
Log(k) ==
    /\ running
    /\ entries' = [entries EXCEPT ![k] = Append(@, Len(@) + 1)]
    /\ \/ saved' = [saved EXCEPT ![k] = entries'[k]]
       \/ Len(entries'[k]) < Len(saved[k]) + Limit /\ UNCHANGED saved
    /\ UNCHANGED running

SaveAll ==
    /\ running
    /\ saved' = entries
    /\ running' \in BOOLEAN
    /\ UNCHANGED entries

Die ==
    /\ running
    /\ running' = FALSE
    /\ UNCHANGED <<entries, saved>>

Next == (\E k \in Key : Log(k)) \/ SaveAll \/ Die

Spec == Init /\ [][Next]_vars
=============================================================================
