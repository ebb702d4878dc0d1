------------------------- MODULE MCInstalledToLive -------------------------
(***************************************************************************)
(* Two folders; the plans of setupEnv without and with resetAccounts, cut  *)
(* down to one command of each kind.                                       *)
(***************************************************************************)
EXTENDS InstalledToLive

MCFolder == [f1 |-> "d1", f2 |-> "d2", l |-> "d2"]

Normal == <<Mounts, Template({"f1", "l"}, TRUE), Adjust("f2")>>
Reset  == <<Empty("d2"), Template({"f1", "l"}, TRUE), Template({"f2"}, TRUE), Template({"f1"}, FALSE)>>
MCScripts == {Normal, Reset}
============================================================================
