----------------------------- MODULE MCBookkeeping -----------------------------
(***************************************************************************)
(* Instances of the four small accounts the backend keeps: the clocks of a *)
(* turn, the request quotas, the usage caps and the pinned section.  They  *)
(* share no state, so every behaviour is one of a single part and the      *)
(* others rest in their initial states: the states of the run are the sum  *)
(* of the parts, not their product.                                        *)
(***************************************************************************)
EXTENDS ProviderHeartbeat, RateLimits, UsageCaps, PinOrder, TLC

VARIABLE part

\* The hard cap and one idle timeout more: every deadline may be seen passed.
PastTheCap == (MaxRuntimeSeconds + IdleSeconds) * TicksPerSecond

PartInit ==
    /\ part \in {"heartbeat", "rates", "caps", "pins"}
    /\ Init /\ RatesInit /\ CapsInit /\ PinsInit

PartNext ==
    /\ \/ part = "heartbeat" /\ Next /\ UNCHANGED <<rateVars, capVars, pinVars>>
       \/ part = "rates" /\ RatesNext /\ UNCHANGED <<vars, capVars, pinVars>>
       \/ part = "caps" /\ CapsNext /\ UNCHANGED <<vars, rateVars, pinVars>>
       \/ part = "pins" /\ PinsNext /\ UNCHANGED <<vars, rateVars, capVars>>
    /\ UNCHANGED part

PartSpec == PartInit /\ [][PartNext]_<<part, vars, rateVars, capVars, pinVars>>

Symmetry == Permutations(Requests) \cup Permutations(Operators)
=============================================================================
