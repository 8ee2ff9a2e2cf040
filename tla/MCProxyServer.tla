----------------------------- MODULE MCProxyServer -----------------------------
(* The API server and two connections: enough for a child that exits in the  *)
(* fork window of the next one, for two nodes freed under term_main's loop   *)
(* and for a list that shrinks at either end.                                *)
EXTENDS ProxyServer
===============================================================================
