----------------------------- MODULE MCSession ------------------------------
(***************************************************************************)
(* Model-checking instance of Session: two workers, so that two requests   *)
(* of one client can overlap on the same session; one session key; string  *)
(* values of one payload.                                                 *)
(***************************************************************************)
EXTENDS Session

MCKeys == {"k1"}
MCPayloads == {1}
MCPutTypes == {"string"}
\* integer values, as a handler stores a counter or a user id
MCIntTypes == {"int"}
=============================================================================
