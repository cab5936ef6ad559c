---------------------------- MODULE MCWebServer ----------------------------
(* One client sends two requests, which may run together; the others one.  *)
EXTENDS WebServer

CONSTANT c1, c2

MCConns == {c1, c2}
MCMaxRequests == [c \in MCConns |-> IF c = c1 THEN 2 ELSE 1]
=============================================================================
