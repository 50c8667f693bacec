----------------------------- MODULE MCBrowser ------------------------------
(* An instance of Browser alone: two calls, on two pages.                   *)
EXTENDS Browser, TLC

CONSTANTS urlA, urlB
MCOrigin == (urlA :> "A") @@ (urlB :> "B")
=============================================================================
