---------------------------- MODULE MCMcpServer ----------------------------
(* A small instance of McpServer.                                          *)
EXTENDS McpServer
=============================================================================
