--------------------------- MODULE MCTokenRefresh ---------------------------
(* A small instance of TokenRefresh.                                       *)
EXTENDS TokenRefresh
=============================================================================
