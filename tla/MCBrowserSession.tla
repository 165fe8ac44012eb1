--------------------------- MODULE MCBrowserSession ---------------------------
(* Small instances of BrowserSession for TLC. *)
EXTENDS BrowserSession
=============================================================================
