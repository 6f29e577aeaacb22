---------------------------- MODULE MCHttpServer ----------------------------
(* The instance of HttpServer that TLC checks. *)
EXTENDS HttpServer
=============================================================================
