----------------------------- MODULE MCScreens -----------------------------
(***************************************************************************)
(* Small instance of Screens for TLC.                                      *)
(***************************************************************************)
EXTENDS Screens, TLC

CONSTANTS pam, gus, eve,   \* accounts
          nim              \* a name

ProviderOf == pam :> "password" @@ gus :> "google" @@ eve :> "entra"
FirstProfile == [name |-> nim, status |-> "online"]
=============================================================================
