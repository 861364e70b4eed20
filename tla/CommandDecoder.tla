--------------------------- MODULE CommandDecoder ---------------------------
(* cmdDecoder::decode_cmd: the text of a datagram, read field by field into *)
(* members that outlive it.  A text is the sequence of its tokens, a token  *)
(* a whole number or NoNumber.                                              *)
EXTENDS Integers, Sequences

NoNumber == -1000        \* outside every range the instances use

Fields == <<"id", "velocity_x", "velocity_y", "velocity_w", "kick", "dribble", "time">>

Flags == {"kick", "dribble"}

(* A token that `>>` cannot read whole fails the stream: one that is no     *)
(* number, and for a bool any number but 0 and 1.                           *)
Fails(field, token) == \/ token = NoNumber
                       \/ field \in Flags /\ token \notin {0, 1}

(* What is stored all the same: no number stores zero, a number that is no  *)
(* bool stores true.                                                        *)
Extract(field, token) ==
    IF field \in Flags THEN token \notin {NoNumber, 0}
                       ELSE IF token = NoNumber THEN 0 ELSE token

(* The fields that are stored: up to the first that fails or to the end of  *)
(* the text.  The members of the others keep what they had.                 *)
Stored(text) ==
    {i \in DOMAIN Fields \cap DOMAIN text :
        \A j \in 1..(i - 1) : ~Fails(Fields[j], text[j])}

decode_cmd(text, members) ==
    [f \in DOMAIN members |->
        LET i == {k \in Stored(text) : Fields[k] = f}
        IN IF i = {} THEN members[f] ELSE Extract(f, text[CHOOSE k \in i : TRUE])]
=============================================================================
