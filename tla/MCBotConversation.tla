------------------------- MODULE MCBotConversation -------------------------
(***************************************************************************)
(* Small instances of BotConversation: account numbers have two digits.    *)
(***************************************************************************)
EXTENDS BotConversation

\* One account, typed in two ways, and a text that is no number.
MCTexts == {<<Digit("ascii", 1), Digit("ascii", 2)>>,
            <<Digit("persian", 1), Separator, Digit("arabic", 2)>>,
            <<Digit("ascii", 1), Letter>>}
=============================================================================
