---------------------------- MODULE MCRedisLock ----------------------------
(* Two goroutines of one process and one of another share the lock. *)
EXTENDS RedisLock, TLC
CONSTANTS ga, gb, gc, pa, pb
MCGoroutines == {ga, gb, gc}
MCProcs == {pa, pb}
MCProcOf == (ga :> pa) @@ (gb :> pa) @@ (gc :> pb)
=============================================================================
