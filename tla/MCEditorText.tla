---------------------------- MODULE MCEditorText ----------------------------
(* Instances of EditorText for TLC. *)
EXTENDS EditorText

NoKeyCode == {}
PageDown == {Ascii}     \* KEY_NPAGE is 0x152, (char) of it is 'R'
Resize == {Cont}        \* KEY_RESIZE is 0x19a, (char) of it is 10011010
=============================================================================
