-------------------------- MODULE MCKyberDispatch --------------------------
(* Two hardware queues of one software queue each: three requests of a     *)
(* single domain compete for its two tokens.                               *)
EXTENDS KyberDispatch, TLC

CONSTANTS h1, h2, r1, r2, r3

MCBatchSize == 0 :> 1
MCMaxDepth == 0 :> 2
MCHctxOf == 1 :> h1 @@ 2 :> h2
MCCtxOf == r1 :> 1 @@ r2 :> 1 @@ r3 :> 2
MCDomainOf == r1 :> 0 @@ r2 :> 0 @@ r3 :> 0
=============================================================================
