--------------------------- MODULE MCCacheManager ---------------------------
(* The worker that sets and gets, and one handler that gets, on the state  *)
(* of one device.                                                          *)
EXTENDS CacheManager

CONSTANTS worker, handler

MCCaller == {worker, handler}
=============================================================================
