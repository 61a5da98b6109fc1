------------------------------ MODULE MCParser ------------------------------
(***************************************************************************)
(* Instances of WrittenText.                                               *)
(***************************************************************************)
EXTENDS WrittenText

MCNames == {<<"a">>}
MCMembers == {<<"f">>}

\* The operators that keep their meaning in one character.
OneCharacterOps == {"+", "-", "*", "/", "=", "&", "|", "!", ">", "<"}

\* A method called notify.
NotifyMember == {<<"not", "if", "y">>}
=============================================================================
