---------------------------- MODULE MCHttpClient ----------------------------
(* Three attempts, the first pause shorter than the interval.              *)
EXTENDS HttpClient

Pauses == <<1, 3>>
=============================================================================
