---------------------------- MODULE MCKyberTurns ----------------------------
(* One hardware queue with two software queues and two domains, of which   *)
(* the first may send two requests in a row.                               *)
EXTENDS KyberTurns, TLC

CONSTANTS h1, r1, r2, r3, r4

MCBatchSize == 0 :> 2 @@ 1 :> 1
MCMaxDepth == 0 :> 1 @@ 1 :> 1
MCHctxOf == 1 :> h1 @@ 2 :> h1
MCCtxOf == r1 :> 1 @@ r2 :> 2 @@ r3 :> 1 @@ r4 :> 2
MCDomainOf == r1 :> 0 @@ r2 :> 0 @@ r3 :> 0 @@ r4 :> 1
=============================================================================
