------------------------------ MODULE MCKeyboard ------------------------------
(* An instance of the keyboard prompt for TLC.                               *)
EXTENDS KeyboardInput
===============================================================================
