------------------------------- MODULE MCKeymap ------------------------------
(* Two keymap(1) processes and the console on a file of either layout.      *)
EXTENDS Keymap

InitFileDef == {Text(layout) \o <<EndLine>> : layout \in Layout}
=============================================================================
