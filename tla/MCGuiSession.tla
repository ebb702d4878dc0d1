---------------------------- MODULE MCGuiSession ----------------------------
(***************************************************************************)
(* Two runs of three steps, the second of which is mksquashfs: enough for  *)
(* a flag, a box and a kill job to outlast the run they belong to.         *)
(***************************************************************************)
EXTENDS GuiSession
============================================================================
