------------------------------ MODULE MCShutdown ------------------------------
(* Two chains, one of them configured with a WebSocket, and one background         *)
(* goroutine of the manager beside a processErrors for each chain.                 *)
EXTENDS Shutdown

TwoListeners == {"eth", "bsc"}
OneWebSocket == {"bsc"}
OneWorker == {"updater"}
===============================================================================
