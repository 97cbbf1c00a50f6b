----------------------------- MODULE MCKeyboard -----------------------------
(***************************************************************************)
(* An instance of Keyboard for TLC: a ring of three codes, which a prefix  *)
(* and a code can overflow at every position.                              *)
(***************************************************************************)
EXTENDS Keyboard

OneRate == {<<2, 1>>}
=============================================================================
