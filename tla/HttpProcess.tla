----------------------------- MODULE HttpProcess -----------------------------
(***************************************************************************)
(* What the process of server/http.go answers with goroutines at work: the *)
(* services over the cache, and the answers that are gathered.  They share *)
(* no state, so a behaviour is about one of the services, or, when it is   *)
(* about none, about a gathered answer.                                    *)
(***************************************************************************)
EXTENDS CachedServices, GatheredAnswers

httpVars == <<vars, gatherVars>>

HttpInit == Init /\ GatherInit /\ (served # {} => gathered = "tickers" /\ items = {})

HttpNext ==
    \/ served # {} /\ Next /\ UNCHANGED gatherVars
    \/ served = {} /\ GatherNext /\ UNCHANGED vars

HttpSpec == HttpInit /\ [][HttpNext]_httpVars

HttpTypeOK == TypeOK /\ GatherTypeOK
=============================================================================
