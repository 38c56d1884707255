---------------------------- MODULE MCConnPool ----------------------------
(* Instantiates ConnPool for TLC; the users are model values.              *)
EXTENDS ConnPool
===========================================================================
