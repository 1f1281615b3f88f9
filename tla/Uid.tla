-------------------------------- MODULE Uid --------------------------------
(***************************************************************************)
(* Reading an exchange UID out of a chat message (app/domain/uid.py).  A   *)
(* text is a sequence of symbols: a digit of some script, a separator      *)
(* (white space and punctuation the code strips) or anything else.         *)
(***************************************************************************)
EXTENDS Integers, Sequences

CONSTANT UidLength   \* BITUNIX_UID_PATTERN: how many digits

ASSUME UidAssumption == UidLength \in Nat \ {0}

\* "wide" stands for the scripts whose digits match \d and are not folded.
Scripts == {"ascii", "persian", "arabic", "wide"}

Symbol == [kind : {"digit"}, script : Scripts, value : 0..9]
          \cup [kind : {"separator", "letter"}]

Digit(script, d) == [kind |-> "digit", script |-> script, value |-> d]
Separator == [kind |-> "separator"]
Letter == [kind |-> "letter"]

\* _TRANSLATION.
Fold(c) == IF c.kind = "digit" /\ c.script \in {"persian", "arabic"}
           THEN Digit("ascii", c.value) ELSE c

\* Mutant: digits stay as they were typed.
BugKeepsScript(raw) == SelectSeq(raw, LAMBDA c : c.kind # "separator")

\* The first i symbols of the message folded and without separators, for every i.
Kept(raw) ==
  LET kept[i \in 0..Len(raw)] ==
        IF i = 0 THEN <<>>
        ELSE IF raw[i].kind = "separator" THEN kept[i - 1]
        ELSE Append(kept[i - 1], Fold(raw[i]))
  IN  kept

normalize_uid(raw) == Kept(raw)[Len(raw)]

\* str.isdigit: the message is taken for a UID.
isdigit(s) == s # <<>> /\ \A i \in DOMAIN s : s[i].kind = "digit"

is_valid_bitunix_uid(s) == isdigit(s) /\ Len(s) = UidLength

\* What a text of ASCII, Persian and Arabic digits says, however it is spelled.
ValuesOf(s) == [i \in DOMAIN s |-> s[i].value]
=============================================================================
