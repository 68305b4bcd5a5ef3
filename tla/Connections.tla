---------------------------- MODULE Connections ----------------------------
(***************************************************************************)
(* The names that the models of the configuration and of the requests to   *)
(* the engines share.                                                      *)
(***************************************************************************)
EXTENDS OutsideEvents

CONSTANTS
    Conns,      \* identifiers of connections
    Hosts,      \* host and port of a URL
    Keys        \* API keys

ASSUME NoneIsFresh == None \notin Conns \cup Hosts \cup Keys
=============================================================================
