--------------------------- MODULE MCSettingsPage ---------------------------
(* A switch the page reads back from the backend, one it does not, and one  *)
(* that asks the browser and is not posted.                                 *)
EXTENDS SettingsPage
=============================================================================
