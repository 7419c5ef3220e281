---------------------------- MODULE MCEditorForm ----------------------------
(***************************************************************************)
(* A finite instance of the editor's form for TLC.                         *)
(***************************************************************************)
EXTENDS EditorForm

\* The run does not go on from a hurried state: it stays hurried, and the
\* properties say nothing of what follows.
Careful == ~hurried
=============================================================================
