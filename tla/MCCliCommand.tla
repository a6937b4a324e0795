---------------------------- MODULE MCCliCommand ----------------------------
EXTENDS CliCommand

(* The decrypt page, the page of an OpenRecoveryScript, the main page.     *)
MCPages == <<TRUE, FALSE, TRUE>>
=============================================================================
