----------------------------- MODULE MCKeyInput -----------------------------
(* KeyInput for TLC: a key of one byte and an arrow key, which has three. *)
EXTENDS KeyInput

CONSTANTS a, esc, left, d

MCByte == {a, esc, left, d}
MCKey == {<<a>>, <<esc, left, d>>}
=============================================================================
