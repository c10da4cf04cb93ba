--------------------------- MODULE GatheredAnswers ---------------------------
(***************************************************************************)
(* The answers of the HTTP process that are gathered: a goroutine per      *)
(* item asks something about it, all run at once, the last one to be done  *)
(* lets the request go on.  dex/tickers.go builds a ticker per market,     *)
(* GetNodesHealth of health.go asks every node for its height,             *)
(* health/balances_health.go asks for the balance of every address.        *)
(*                                                                         *)
(* A behaviour is about one request, which shares nothing with any other.  *)
(* level[i] is the height or the balance of item i; it changes while the   *)
(* goroutines run, so what is compared was never true at one moment.       *)
(***************************************************************************)
EXTENDS Integers, FiniteSets

CONSTANTS
    Item,        \* markets, nodes or addresses
    MaxLevel,    \* bound: the highest level
    Allowed,     \* nodesAllowedHeightDiff
    MinAmount    \* the balance every address must have

ASSUME GatherAssumption == {MaxLevel, Allowed, MinAmount} \subseteq Nat

Gathering == {"tickers", "nodes", "balances"}

VARIABLES
    gathered,    \* what the request gathers
    items,       \* the items it is about
    step,        \* step[i]: what the goroutine of i does next
    level,
    least, most, \* the lowest and the highest level of i since the request began
    heard,       \* heard[i]: the level its goroutine was told, Unheard or Failed
    err,         \* the variable err all goroutines of the tickers assign: is it an error?
    gErr,        \* the error of the tickers: is it one?
    listed,      \* items whose result is in the list or the map
    verdict      \* "none" before the answer

gatherVars == <<gathered, items, step, level, least, most, heard, err, gErr, listed, verdict>>

Unheard == -1
Failed == -2

\* The goroutine of i is told the level of its item, or fails.  All goroutines
\* of the tickers assign one variable: err = t.buildTicker(...).
Ask(i) ==
    /\ i \in items
    /\ step[i] = "ask"
    /\ heard' \in {[heard EXCEPT ![i] = answer]: answer \in {level[i], Failed}}
    /\ IF gathered = "tickers"
       THEN step' = [step EXCEPT ![i] = "check"] /\ err' = (heard'[i] = Failed)
       ELSE step' = [step EXCEPT ![i] = "list"] /\ UNCHANGED err
    /\ UNCHANGED <<gathered, items, level, least, most, gErr, listed, verdict>>

\* What a goroutine reads from err: no lock orders its read after the
\* assignments of others, so that it may see its own or the last one.
Seen(i) == {err, heard[i] = Failed}

\* if err != nil
Check(i) ==
    /\ step[i] = "check"
    /\ \E seen \in Seen(i): step' = [step EXCEPT ![i] = IF seen THEN "copy" ELSE "list"]
    /\ UNCHANGED <<gathered, items, level, least, most, heard, err, gErr, listed, verdict>>

\* gErr = err, which may be nil again.
Copy(i) ==
    /\ step[i] = "copy"
    /\ step' = [step EXCEPT ![i] = "list"]
    /\ gErr' \in Seen(i) \union {TRUE}
    /\ UNCHANGED <<gathered, items, level, least, most, heard, err, listed, verdict>>

\* Mutant: a goroutine that failed returns before it lists its result.
ListAnswered(i) ==
    /\ step[i] = "list"
    /\ step' = [step EXCEPT ![i] = "done"]
    /\ listed' = IF heard[i] = Failed THEN listed ELSE listed \union {i}
    /\ UNCHANGED <<gathered, items, level, least, most, heard, err, gErr, verdict>>

\* Under the mutex the result goes into the list; a node that failed is put
\* into no map.
List(i) ==
    /\ step[i] = "list"
    /\ step' = [step EXCEPT ![i] = "done"]
    /\ listed' = IF gathered = "nodes" /\ heard[i] = Failed THEN listed ELSE listed \union {i}
    /\ UNCHANGED <<gathered, items, level, least, most, heard, err, gErr, verdict>>

-----------------------------------------------------------------------------
\* Mutant: a node may not be as far behind as it is allowed to be.
NodesTooEqual == items # {} /\ listed = items /\ \A i, j \in listed: heard[i] - heard[j] < Allowed

\* GetNodesHealth: every node answers and no two are too far apart.  An empty
\* pool is not healthy.
NodesHealthy ==
    /\ items # {}
    /\ listed = items
    /\ \A i, j \in listed: heard[i] - heard[j] <= Allowed

\* CheckBalances and CheckBalancesHandler: one bad address is enough.
BalancesHealthy == \A i \in listed: heard[i] # Failed /\ heard[i] >= MinAmount

\* wg.Wait returns: the answer is given.
Respond ==
    /\ verdict = "none"
    /\ \A i \in items: step[i] = "done"
    /\ verdict' = CASE gathered = "tickers"  -> IF gErr THEN "error" ELSE "tickers"
                    [] gathered = "nodes"    -> IF NodesHealthy THEN "healthy" ELSE "unhealthy"
                    [] gathered = "balances" -> IF BalancesHealthy THEN "healthy" ELSE "unhealthy"
    /\ UNCHANGED <<gathered, items, step, level, least, most, heard, err, gErr, listed>>

\* Meanwhile a node goes on to the next block, a balance changes.
Change(i) ==
    /\ verdict = "none"
    /\ i \in items
    /\ \E l \in 0..MaxLevel:
          /\ l # level[i]
          /\ gathered = "nodes" => l > level[i]
          /\ gathered # "tickers"
          /\ level' = [level EXCEPT ![i] = l]
          /\ least' = [least EXCEPT ![i] = IF l < @ THEN l ELSE @]
          /\ most' = [most EXCEPT ![i] = IF l > @ THEN l ELSE @]
    /\ UNCHANGED <<gathered, items, step, heard, err, gErr, listed, verdict>>

GatherInit ==
    /\ gathered \in Gathering
    /\ items \in SUBSET Item
    /\ step = [i \in Item |-> "ask"]
    /\ level \in [Item -> 0..MaxLevel]
    /\ gathered = "tickers" => level = [i \in Item |-> 0]
    /\ least = level
    /\ most = level
    /\ heard = [i \in Item |-> Unheard]
    /\ err = FALSE
    /\ gErr = FALSE
    /\ listed = {}
    /\ verdict = "none"

GatherNext ==
    \/ \E i \in Item: Ask(i) \/ Check(i) \/ Copy(i) \/ List(i) \/ Change(i)
    \/ Respond

GatherSpec == GatherInit /\ [][GatherNext]_gatherVars

-----------------------------------------------------------------------------
GatherTypeOK ==
    /\ gathered \in Gathering
    /\ items \subseteq Item
    /\ step \in [Item -> {"ask", "check", "copy", "list", "done"}]
    /\ {level, least, most} \subseteq [Item -> 0..MaxLevel]
    /\ heard \in [Item -> {Unheard, Failed} \union 0..MaxLevel]
    /\ {err, gErr} \subseteq BOOLEAN
    /\ listed \subseteq items
    /\ verdict \in {"none", "tickers", "error", "healthy", "unhealthy"}

FailedItems == {i \in items: heard[i] = Failed}

\* However the goroutines of the tickers overwrite each other's error, there is
\* a ticker for every market in the list, an error is one of a market of this
\* request, and when every market fails an error is given.  That one failure
\* among several markets is told is not so.
TickersTellFailures ==
    /\ verdict # "none" /\ gathered # "nodes" => listed = items
    /\ verdict = "error" => FailedItems # {}
    /\ verdict = "tickers" => FailedItems # items \/ items = {}

\* Heights and balances are asked for at different moments; still the answer
\* was no invention.  Healthy nodes could all be reached, and no one was too far
\* behind another all the time; if unhealthy nodes could all be reached, one was
\* at some time too far behind the height another came to.  Healthy addresses
\* all had the amount at some time; unhealthy ones were not reached or one
\* lacked it at some time.
GatheredIsTrue ==
    /\ verdict = "healthy" => FailedItems = {}
    /\ gathered = "nodes" =>
          /\ verdict = "healthy" => \A i, j \in items: least[i] <= most[j] + Allowed
          /\ verdict = "unhealthy" =>
                FailedItems # {} \/ items = {} \/ \E i, j \in items: most[i] > least[j] + Allowed
    /\ gathered = "balances" =>
          /\ verdict = "healthy" => \A i \in items: most[i] >= MinAmount
          /\ verdict = "unhealthy" => FailedItems # {} \/ \E i \in items: least[i] < MinAmount
=============================================================================
