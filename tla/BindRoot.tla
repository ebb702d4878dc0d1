------------------------------ MODULE BindRoot ------------------------------
(***************************************************************************)
(* What a snapshot may rely on about the bind root, with everything else   *)
(* left out: it is prepared only while it is mounted and a record of it is *)
(* there, so that the next cleanup finds it, and the record of a prepared  *)
(* root goes only together with the root.  Only a record that a failed     *)
(* write has emptied helps nobody: it may go, and the root stays.          *)
(***************************************************************************)
VARIABLES
    mounted,   \* the bind root is mounted
    prepared,  \* installed-to-live has been through on it
    record     \* cleanup.conf: "none", "empty", or "whole", which names it

rootVars == <<mounted, prepared, record>>

RootInit == ~mounted /\ ~prepared /\ record = "none"

(* Mounted anew, nothing of what was there before is to be seen. *)
Mount ==
    /\ mounted' /\ ~prepared'
    /\ UNCHANGED record

(* The record of an earlier root is thrown away, and one of this root is made. *)
Record ==
    /\ mounted /\ ~prepared
    /\ record' \in {"none", "empty", "whole"}
    /\ UNCHANGED <<mounted, prepared>>

Prepare ==
    /\ mounted /\ ~prepared
    /\ prepared' /\ record' \in {"empty", "whole"}
    /\ UNCHANGED mounted

(* What comes to light below the topmost mount is not a prepared root. *)
Unmount ==
    /\ mounted
    /\ mounted' \in BOOLEAN /\ ~prepared'
    /\ UNCHANGED record

CleanUp ==
    /\ record = "whole"
    /\ ~mounted' /\ ~prepared' /\ record' = "none"

(* A cleanup that did not learn of the root. *)
Discard ==
    /\ record = "empty" /\ record' = "none"
    /\ UNCHANGED <<mounted, prepared>>

RootNext == Mount \/ Record \/ Prepare \/ Unmount \/ CleanUp \/ Discard

RootSpec == RootInit /\ [][RootNext]_rootVars
============================================================================
