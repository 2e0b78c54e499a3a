---------------------------- MODULE SubStoreScan ----------------------------
(***************************************************************************)
(* What a prefixed range scan promises its reader (spec 4.1 and 4.3): the  *)
(* logical sub-store's keys in the requested range, fixed when the scan    *)
(* opens, are handed over one at a time in iteration order; the reader may *)
(* stop at any point (its consumer asks to, or a decode fails), and the    *)
(* scan may only report its end once every key of the range was handed    *)
(* over.  Nothing about physical keys, bounds, validate or skipOne.        *)
(***************************************************************************)
EXTENDS Naturals, Sequences

CONSTANT Elems      \* logical keys

VARIABLES
    range,    \* the keys of the range, in iteration order
    handed,   \* the keys handed to the consumer so far
    status    \* "open", "stopped" (the reader returned early) or "ended"

Init ==
    /\ range \in Seq(Elems)
    /\ handed = <<>>
    /\ status = "open"

NextKey == range[Len(handed) + 1]

\* The consumer is handed the next key of the range.
Hand ==
    /\ status = "open"
    /\ Len(handed) < Len(range)
    /\ handed' = Append(handed, NextKey)
    /\ UNCHANGED <<range, status>>

\* The reader returns early, before or right after handing over a key.
Stop ==
    /\ status = "open"
    /\ \/ handed' = handed
       \/ Len(handed) < Len(range) /\ handed' = Append(handed, NextKey)
    /\ status' = "stopped"
    /\ UNCHANGED range

\* The scan ends: the whole range was handed over.
End ==
    /\ status = "open"
    /\ handed = range
    /\ status' = "ended"
    /\ UNCHANGED <<range, handed>>

Next == Hand \/ Stop \/ End

Spec == Init /\ [][Next]_<<range, handed, status>>
=============================================================================
