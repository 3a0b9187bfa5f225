-------------------------- MODULE MCTerminalOutput --------------------------
(* One view that started the session, and another that may take it over.   *)
(* The ring is one window long, as in the code.                            *)
EXTENDS TerminalOutput

=============================================================================
