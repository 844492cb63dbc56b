------------------------ MODULE MCCredentialRequests ------------------------
(* A small instance of CredentialRequests.                                 *)
EXTENDS CredentialRequests
=============================================================================
