---------------------------- MODULE MCWebClient ----------------------------
(* Instances of WebClient for TLC; all its constants are in the cfg.        *)
EXTENDS WebClient
=============================================================================
