--------------------------- MODULE MCLinkRequests ---------------------------
(* TLC instance of LinkRequests: two requests on one link, each of which    *)
(* may fit a packet or not.                                                 *)
EXTENDS LinkRequests
=============================================================================
