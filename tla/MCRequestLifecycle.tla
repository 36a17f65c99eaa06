-------------------------- MODULE MCRequestLifecycle --------------------------
(* Two requests of any route and method, so that their goroutines meet at the  *)
(* metrics in every order.                                                     *)
EXTENDS RequestLifecycle
===============================================================================
