-------------------------- MODULE HttpProcess_proofs --------------------------
(***************************************************************************)
(* What the answers of the HTTP process are worth, for any items, levels,  *)
(* handlers and lifetimes.  The gathered answers come first; the services  *)
(* over the cache are CachedServices_proofs'; the process is both.         *)
(***************************************************************************)
EXTENDS HttpProcess, CachedServices_proofs

\* A goroutine has heard something once it has asked, and only the tickers look
\* at an error after that.
StepsFit ==
    \A i \in Item:
        /\ step[i] = "ask" <=> heard[i] = Unheard
        /\ step[i] # "ask" => i \in items
        /\ step[i] \in {"check", "copy"} => gathered = "tickers"

\* A level is within the levels of the request, and so is what was heard of it.
LevelsWithin ==
    \A i \in Item:
        /\ least[i] <= level[i] /\ level[i] <= most[i]
        /\ heard[i] \in 0..MaxLevel => least[i] <= heard[i] /\ heard[i] <= most[i]

\* The list has the items that are done, without the nodes that failed.
ListedIsDone ==
    listed = {i \in items: step[i] = "done" /\ ~(gathered = "nodes" /\ heard[i] = Failed)}

\* No ticker that was asked for has been built so far.
NoneBuilt == \A i \in items: heard[i] \in {Unheard, Failed}

\* An error of the tickers is one of theirs, the one a goroutine is about to copy
\* too.  As long as every ticker failed, err is an error, and whoever is past its
\* copy has left one in gErr.
ErrorsAreTheirs ==
    /\ err \/ gErr \/ (\E i \in Item: step[i] = "copy") => FailedItems # {}
    /\ gathered = "tickers" /\ NoneBuilt =>
          \A i \in items: /\ step[i] # "ask" => err
                          /\ step[i] \in {"list", "done"} => gErr

\* Nothing goes on once the answer is given.
AnsweredWhenDone == verdict # "none" => \A i \in items: step[i] = "done"

GatherInv ==
    /\ GatherTypeOK
    /\ StepsFit
    /\ LevelsWithin
    /\ ListedIsDone
    /\ ErrorsAreTheirs
    /\ AnsweredWhenDone
    /\ TickersTellFailures
    /\ GatheredIsTrue

-----------------------------------------------------------------------------
LEMMA LevelNumbers == 0..MaxLevel \subseteq Int /\ Unheard \notin 0..MaxLevel
      /\ Failed \notin 0..MaxLevel
BY GatherAssumption DEF Unheard, Failed

LEMMA InitGatherInv == GatherInit => GatherInv
<1> SUFFICES ASSUME GatherInit
             PROVE  GatherInv
    OBVIOUS
<1>1. GatherTypeOK
    BY GatherAssumption DEF GatherInit, GatherTypeOK, Gathering, Unheard
<1>2. StepsFit /\ ListedIsDone /\ AnsweredWhenDone
    BY DEF GatherInit, StepsFit, ListedIsDone, AnsweredWhenDone
<1>3. LevelsWithin
    BY LevelNumbers DEF GatherInit, LevelsWithin
<1>4. ErrorsAreTheirs
    BY DEF GatherInit, ErrorsAreTheirs
<1>5. TickersTellFailures /\ GatheredIsTrue
    BY DEF GatherInit, TickersTellFailures, GatheredIsTrue
<1>6. QED
    BY <1>1, <1>2, <1>3, <1>4, <1>5 DEF GatherInv

\* While there is no answer, nothing is said of it.
LEMMA NothingSaid == verdict = "none" => AnsweredWhenDone /\ TickersTellFailures /\ GatheredIsTrue
BY DEF AnsweredWhenDone, TickersTellFailures, GatheredIsTrue

\* A goroutine that has a step to take belongs to a request without an answer.
LEMMA BusyIsUnanswered ==
    ASSUME StepsFit, AnsweredWhenDone, NEW i \in Item,
           step[i] \in {"check", "copy", "list"} \/ (i \in items /\ step[i] = "ask")
    PROVE  verdict = "none" /\ i \in items
BY DEF StepsFit, AnsweredWhenDone

LEMMA AskKeepsInv == ASSUME GatherInv, NEW i \in Item, Ask(i) PROVE GatherInv'
<1> USE DEF GatherInv
<1>1. PICK answer \in {level[i], Failed}: heard' = [heard EXCEPT ![i] = answer]
    BY DEF Ask
<1>2. /\ i \in items
      /\ step[i] = "ask"
      /\ heard[i] = Unheard
      /\ verdict = "none"
    BY DEF Ask, StepsFit, AnsweredWhenDone
<1>3. /\ level[i] \in 0..MaxLevel
      /\ answer # Unheard
      /\ answer \in {Failed} \union 0..MaxLevel
    BY LevelNumbers DEF GatherTypeOK, Unheard, Failed
<1>4. heard' \in [Item -> {Unheard, Failed} \union 0..MaxLevel] /\ heard'[i] = answer
      /\ \A j \in Item: j # i => heard'[j] = heard[j]
    BY <1>1, <1>3 DEF GatherTypeOK
<1>5. /\ step' = [step EXCEPT ![i] = IF gathered = "tickers" THEN "check" ELSE "list"]
      /\ err' = IF gathered = "tickers" THEN answer = Failed ELSE err
      /\ UNCHANGED <<gathered, items, level, least, most, gErr, listed, verdict>>
    BY <1>4 DEF Ask
<1>6. /\ step'[i] = IF gathered = "tickers" THEN "check" ELSE "list"
      /\ \A j \in Item: j # i => step'[j] = step[j]
    BY <1>5 DEF GatherTypeOK
<1>7. GatherTypeOK'
    <2>1. step' \in [Item -> {"ask", "check", "copy", "list", "done"}]
        BY <1>5 DEF GatherTypeOK
    <2>2. err' \in BOOLEAN
        BY <1>5 DEF GatherTypeOK
    <2>3. QED
        BY <1>4, <1>5, <2>1, <2>2 DEF GatherTypeOK
<1>8. StepsFit'
    BY <1>2, <1>3, <1>4, <1>5, <1>6 DEF StepsFit
<1>9. LevelsWithin'
    <2>1. answer \in 0..MaxLevel => answer = level[i]
        BY <1>1, LevelNumbers
    <2>2. QED
        BY <1>4, <1>5, <2>1 DEF LevelsWithin
<1>10. ListedIsDone'
    <2>1. i \notin listed
        BY <1>2 DEF ListedIsDone
    <2>2. QED
        BY <1>2, <1>4, <1>5, <1>6, <2>1 DEF ListedIsDone, GatherTypeOK
<1>11. ErrorsAreTheirs'
    <2>1. FailedItems \subseteq FailedItems'
        BY <1>2, <1>4, <1>5 DEF FailedItems, GatherTypeOK, Unheard, Failed
    <2>2. err' /\ gathered = "tickers" => i \in FailedItems'
        BY <1>2, <1>4, <1>5 DEF FailedItems
    <2>3. (err \/ gErr) \/ (gathered = "tickers" /\ err') \/ ~(err' \/ gErr')
        BY <1>5
    <2>4. (\E j \in Item: step'[j] = "copy") => \E j \in Item: step[j] = "copy"
        BY <1>6
    <2>5. err' \/ gErr' \/ (\E j \in Item: step'[j] = "copy") => FailedItems' # {}
        BY <2>1, <2>2, <2>3, <2>4 DEF ErrorsAreTheirs
    <2>6. ASSUME gathered = "tickers", NoneBuilt', NEW j \in items
          PROVE  (step'[j] # "ask" => err') /\ (step'[j] \in {"list", "done"} => gErr')
        <3>1. NoneBuilt
            BY <2>6, <1>2, <1>4, <1>5 DEF NoneBuilt, GatherTypeOK
        <3>2. answer = Failed
            BY <2>6, <1>2, <1>3, <1>4, <1>5 DEF NoneBuilt
        <3>3. err'
            BY <2>6, <3>2, <1>5
        <3>4. step'[j] \in {"list", "done"} => step[j] \in {"list", "done"}
            BY <2>6, <1>6 DEF GatherTypeOK
        <3>5. QED
            BY <2>6, <3>1, <3>3, <3>4, <1>5 DEF ErrorsAreTheirs
    <2>7. QED
        BY <1>5, <2>5, <2>6 DEF ErrorsAreTheirs
<1>12. QED
    BY <1>2, <1>5, <1>7, <1>8, <1>9, <1>10, <1>11, NothingSaid DEF AnsweredWhenDone,
       TickersTellFailures, GatheredIsTrue

\* Check, Copy and List hear nothing new and move one goroutine on.
LEMMA MovedOn ==
    ASSUME GatherInv, NEW i \in Item, NEW next \in {"copy", "list", "done"},
           step[i] \in {"check", "copy", "list"},
           step' = [step EXCEPT ![i] = next], next = "copy" => gathered = "tickers",
           UNCHANGED <<gathered, items, level, least, most, heard, verdict>>
    PROVE  /\ verdict = "none" /\ i \in items
           /\ step' \in [Item -> {"ask", "check", "copy", "list", "done"}]
           /\ step'[i] = next /\ \A j \in Item: j # i => step'[j] = step[j]
           /\ StepsFit' /\ LevelsWithin' /\ AnsweredWhenDone' /\ TickersTellFailures'
                 /\ GatheredIsTrue'
<1>1. verdict = "none" /\ i \in items
    BY BusyIsUnanswered DEF GatherInv
<1>2. step' \in [Item -> {"ask", "check", "copy", "list", "done"}]
    BY DEF GatherInv, GatherTypeOK
<1>3. step'[i] = next /\ \A j \in Item: j # i => step'[j] = step[j]
    BY DEF GatherInv, GatherTypeOK
<1>4. StepsFit'
    BY <1>3 DEF GatherInv, StepsFit
<1>5. LevelsWithin'
    BY DEF GatherInv, LevelsWithin
<1>6. AnsweredWhenDone' /\ TickersTellFailures' /\ GatheredIsTrue'
    BY <1>1 DEF AnsweredWhenDone, TickersTellFailures, GatheredIsTrue
<1>7. QED
    BY <1>1, <1>2, <1>3, <1>4, <1>5, <1>6

LEMMA CheckKeepsInv == ASSUME GatherInv, NEW i \in Item, Check(i) PROVE GatherInv'
<1>1. PICK seen \in Seen(i): step' = [step EXCEPT ![i] = IF seen THEN "copy" ELSE "list"]
    BY DEF Check
<1> DEFINE next == IF seen THEN "copy" ELSE "list"
<1>2. /\ step[i] = "check"
      /\ gathered = "tickers"
      /\ UNCHANGED <<gathered, items, level, least, most, heard, err, gErr, listed, verdict>>
    BY DEF Check, GatherInv, StepsFit
<1>3. next \in {"copy", "list", "done"} /\ step' = [step EXCEPT ![i] = next]
    BY <1>1
<1> HIDE DEF next
<1>4. /\ verdict = "none" /\ i \in items
      /\ step' \in [Item -> {"ask", "check", "copy", "list", "done"}]
      /\ step'[i] = next /\ \A j \in Item: j # i => step'[j] = step[j]
      /\ StepsFit' /\ LevelsWithin' /\ AnsweredWhenDone' /\ TickersTellFailures' /\ GatheredIsTrue'
    BY <1>2, <1>3, MovedOn
<1>5. GatherTypeOK'
    BY <1>2, <1>4 DEF GatherInv, GatherTypeOK
<1>6. ListedIsDone'
    BY <1>1, <1>2, <1>4 DEF GatherInv, ListedIsDone, GatherTypeOK, next
<1>7. ErrorsAreTheirs'
    <2>1. ErrorsAreTheirs
        BY DEF GatherInv
    <2>2. FailedItems' = FailedItems
        BY <1>2 DEF FailedItems
    <2>3. next = "copy" => FailedItems # {}
        BY <1>1, <1>2, <1>4, <2>1 DEF next, Seen, ErrorsAreTheirs, FailedItems
    <2>4. err' \/ gErr' \/ (\E j \in Item: step'[j] = "copy") => FailedItems' # {}
        BY <1>2, <1>4, <2>1, <2>2, <2>3 DEF ErrorsAreTheirs
    <2>5. NoneBuilt' => NoneBuilt
        BY <1>2 DEF NoneBuilt
    <2>6. NoneBuilt => seen
        BY <1>2, <1>4, <2>1 DEF NoneBuilt, Seen, ErrorsAreTheirs, GatherInv, StepsFit
    <2>7. ASSUME NoneBuilt, NEW j \in items
          PROVE  (step'[j] # "ask" => err') /\ (step'[j] \in {"list", "done"} => gErr')
        <3>1. j \in Item
            BY DEF GatherInv, GatherTypeOK
        <3>2. step'[i] = "copy"
            BY <1>4, <2>6, <2>7 DEF next
        <3>3. QED
            BY <1>2, <1>4, <2>1, <2>7, <3>1, <3>2 DEF ErrorsAreTheirs
    <2>8. QED
        BY <1>2, <2>4, <2>5, <2>7 DEF ErrorsAreTheirs
<1>8. QED
    BY <1>4, <1>5, <1>6, <1>7 DEF GatherInv

LEMMA CopyKeepsInv == ASSUME GatherInv, NEW i \in Item, Copy(i) PROVE GatherInv'
<1>1. /\ step[i] = "copy"
      /\ gathered = "tickers"
      /\ step' = [step EXCEPT ![i] = "list"]
      /\ gErr' \in Seen(i) \union {TRUE}
      /\ UNCHANGED <<gathered, items, level, least, most, heard, err, listed, verdict>>
    BY DEF Copy, GatherInv, StepsFit
<1>2. /\ verdict = "none" /\ i \in items
      /\ step' \in [Item -> {"ask", "check", "copy", "list", "done"}]
      /\ step'[i] = "list" /\ \A j \in Item: j # i => step'[j] = step[j]
      /\ StepsFit' /\ LevelsWithin' /\ AnsweredWhenDone' /\ TickersTellFailures' /\ GatheredIsTrue'
    BY <1>1, MovedOn
<1>3. gErr' \in BOOLEAN
    BY <1>1 DEF GatherInv, GatherTypeOK, Seen
<1>4. GatherTypeOK'
    BY <1>1, <1>2, <1>3 DEF GatherInv, GatherTypeOK
<1>5. ListedIsDone'
    BY <1>1, <1>2 DEF GatherInv, ListedIsDone, GatherTypeOK
<1>6. ErrorsAreTheirs'
    <2>1. ErrorsAreTheirs
        BY DEF GatherInv
    <2>2. FailedItems' = FailedItems
        BY <1>1 DEF FailedItems
    <2>3. FailedItems # {}
        BY <1>1, <2>1 DEF ErrorsAreTheirs
    <2>4. FailedItems' # {}
        BY <2>2, <2>3
    <2>5. NoneBuilt' => NoneBuilt
        BY <1>1 DEF NoneBuilt
    <2>6. NoneBuilt => gErr'
        BY <1>1, <1>2, <2>1 DEF NoneBuilt, Seen, ErrorsAreTheirs, GatherInv, StepsFit
    <2>7. ASSUME NoneBuilt, NEW j \in items
          PROVE  (step'[j] # "ask" => err') /\ (step'[j] \in {"list", "done"} => gErr')
        <3>1. j \in Item
            BY DEF GatherInv, GatherTypeOK
        <3>2. QED
            BY <1>1, <1>2, <2>1, <2>6, <2>7, <3>1 DEF ErrorsAreTheirs
    <2>8. QED
        BY <1>1, <2>4, <2>5, <2>7 DEF ErrorsAreTheirs
<1>7. QED
    BY <1>2, <1>4, <1>5, <1>6 DEF GatherInv

LEMMA ListKeepsInv == ASSUME GatherInv, NEW i \in Item, List(i) PROVE GatherInv'
<1>1. /\ step[i] = "list"
      /\ step' = [step EXCEPT ![i] = "done"]
      /\ listed' = IF gathered = "nodes" /\ heard[i] = Failed THEN listed ELSE listed \union {i}
      /\ UNCHANGED <<gathered, items, level, least, most, heard, err, gErr, verdict>>
    BY DEF List
<1>2. /\ verdict = "none" /\ i \in items
      /\ step' \in [Item -> {"ask", "check", "copy", "list", "done"}]
      /\ step'[i] = "done" /\ \A j \in Item: j # i => step'[j] = step[j]
      /\ StepsFit' /\ LevelsWithin' /\ AnsweredWhenDone' /\ TickersTellFailures' /\ GatheredIsTrue'
    BY <1>1, MovedOn
<1>3. GatherTypeOK'
    BY <1>1, <1>2 DEF GatherInv, GatherTypeOK
<1>4. ListedIsDone'
    <2>1. ASSUME NEW j \in items
          PROVE  j \in listed' <=> step'[j] = "done" /\ ~(gathered = "nodes" /\ heard[j] = Failed)
        BY <1>1, <1>2 DEF GatherInv, ListedIsDone, GatherTypeOK
    <2>2. listed' \subseteq items
        BY <1>1, <1>2 DEF GatherInv, GatherTypeOK
    <2>3. QED
        BY <1>1, <2>1, <2>2 DEF ListedIsDone
<1>5. ErrorsAreTheirs'
    <2>1. ErrorsAreTheirs
        BY DEF GatherInv
    <2>2. FailedItems' = FailedItems /\ NoneBuilt' = NoneBuilt
        BY <1>1 DEF FailedItems, NoneBuilt
    <2>3. ASSUME gathered = "tickers", NoneBuilt, NEW j \in items
          PROVE  (step'[j] # "ask" => err') /\ (step'[j] \in {"list", "done"} => gErr')
        <3>1. j \in Item
            BY DEF GatherInv, GatherTypeOK
        <3>2. QED
            BY <1>1, <1>2, <2>1, <2>3, <3>1 DEF ErrorsAreTheirs
    <2>4. QED
        BY <1>1, <2>1, <2>2, <2>3 DEF ErrorsAreTheirs
<1>6. QED
    BY <1>2, <1>3, <1>4, <1>5 DEF GatherInv

LEMMA ChangeKeepsInv == ASSUME GatherInv, NEW i \in Item, Change(i) PROVE GatherInv'
<1>1. PICK l \in 0..MaxLevel:
          /\ level' = [level EXCEPT ![i] = l]
          /\ least' = [least EXCEPT ![i] = IF l < @ THEN l ELSE @]
          /\ most' = [most EXCEPT ![i] = IF l > @ THEN l ELSE @]
    BY DEF Change
<1>2. /\ verdict = "none"
      /\ UNCHANGED <<gathered, items, step, heard, err, gErr, listed, verdict>>
    BY DEF Change
<1>3. {level', least', most'} \subseteq [Item -> 0..MaxLevel]
    BY <1>1 DEF GatherInv, GatherTypeOK
<1>4. LevelsWithin'
    <2>1. ASSUME NEW j \in Item
          PROVE  /\ least'[j] <= level'[j] /\ level'[j] <= most'[j]
                 /\ least'[j] <= least[j] /\ most[j] <= most'[j]
        <3>1. {level[j], least[j], most[j], l} \subseteq Int
            BY LevelNumbers DEF GatherInv, GatherTypeOK
        <3>2. least[j] <= level[j] /\ level[j] <= most[j]
            BY DEF GatherInv, LevelsWithin
        <3>3. /\ level'[j] = IF j = i THEN l ELSE level[j]
              /\ least'[j] = IF j = i /\ l < least[j] THEN l ELSE least[j]
              /\ most'[j] = IF j = i /\ l > most[j] THEN l ELSE most[j]
            BY <1>1 DEF GatherInv, GatherTypeOK
        <3>4. QED
            BY <3>1, <3>2, <3>3
    <2>2. ASSUME NEW j \in Item, heard[j] \in 0..MaxLevel
          PROVE  least'[j] <= heard[j] /\ heard[j] <= most'[j]
        <3>1. {least[j], most[j], least'[j], most'[j], heard[j]} \subseteq Int
            BY <1>3, <2>2, LevelNumbers DEF GatherInv, GatherTypeOK
        <3>2. least[j] <= heard[j] /\ heard[j] <= most[j]
            BY <2>2 DEF GatherInv, LevelsWithin
        <3>3. QED
            BY <2>1, <3>1, <3>2
    <2>3. QED
        BY <1>2, <2>1, <2>2 DEF LevelsWithin
<1>5. GatherTypeOK' /\ StepsFit' /\ ListedIsDone'
    BY <1>2, <1>3 DEF GatherInv, GatherTypeOK, StepsFit, ListedIsDone
<1>6. ErrorsAreTheirs'
    BY <1>2 DEF GatherInv, ErrorsAreTheirs, NoneBuilt, FailedItems
<1>7. AnsweredWhenDone' /\ TickersTellFailures' /\ GatheredIsTrue'
    BY <1>2 DEF AnsweredWhenDone, TickersTellFailures, GatheredIsTrue
<1>8. QED
    BY <1>4, <1>5, <1>6, <1>7 DEF GatherInv

\* What was heard of a listed item is a level it had, unless it failed.
LEMMA HeardWasTrue ==
    ASSUME GatherInv, NEW i \in items, step[i] = "done", heard[i] # Failed
    PROVE  /\ {heard[i], least[i], most[i]} \subseteq Int
           /\ least[i] <= heard[i] /\ heard[i] <= most[i]
<1>1. i \in Item
    BY DEF GatherInv, GatherTypeOK
<1>2. heard[i] \in 0..MaxLevel
    BY <1>1 DEF GatherInv, GatherTypeOK, StepsFit
<1>3. QED
    BY <1>1, <1>2, LevelNumbers DEF GatherInv, GatherTypeOK, LevelsWithin

LEMMA RespondKeepsInv == ASSUME GatherInv, Respond PROVE GatherInv'
<1>1. /\ \A i \in items: step[i] = "done"
      /\ UNCHANGED <<gathered, items, step, level, least, most, heard, err, gErr, listed>>
    BY DEF Respond
<1>2. gathered = "tickers" => verdict' = IF gErr THEN "error" ELSE "tickers"
    BY DEF Respond
<1>3. gathered = "nodes" => verdict' = IF NodesHealthy THEN "healthy" ELSE "unhealthy"
    BY DEF Respond
<1>4. gathered = "balances" => verdict' = IF BalancesHealthy THEN "healthy" ELSE "unhealthy"
    BY DEF Respond
<1>5. gathered \in {"tickers", "nodes", "balances"}
    BY DEF GatherInv, GatherTypeOK, Gathering
<1>6. GatherTypeOK' /\ StepsFit' /\ LevelsWithin' /\ ListedIsDone' /\ ErrorsAreTheirs'
      /\ AnsweredWhenDone'
    <2>1. verdict' \in {"none", "tickers", "error", "healthy", "unhealthy"}
        BY <1>2, <1>3, <1>4, <1>5
    <2>2. GatherTypeOK'
        BY <1>1, <2>1 DEF GatherInv, GatherTypeOK
    <2>3. StepsFit' /\ LevelsWithin' /\ ListedIsDone' /\ AnsweredWhenDone'
        BY <1>1 DEF GatherInv, StepsFit, LevelsWithin, ListedIsDone, AnsweredWhenDone
    <2>4. ErrorsAreTheirs'
        BY <1>1 DEF GatherInv, ErrorsAreTheirs, NoneBuilt, FailedItems
    <2>5. QED
        BY <2>2, <2>3, <2>4
<1>7. listed = {i \in items: ~(gathered = "nodes" /\ heard[i] = Failed)}
    BY <1>1 DEF GatherInv, ListedIsDone
<1>8. FailedItems' = FailedItems
    BY <1>1 DEF FailedItems
<1>9. TickersTellFailures'
    <2>1. verdict' # "none" /\ gathered # "nodes" => listed' = items'
        BY <1>1, <1>7
    <2>2. verdict' = "error" => FailedItems # {}
        BY <1>2, <1>3, <1>4, <1>5 DEF GatherInv, ErrorsAreTheirs
    <2>3. ASSUME verdict' = "tickers", FailedItems = items, NEW i \in items
          PROVE  FALSE
        <3>1. gathered = "tickers" /\ ~gErr
            BY <2>3, <1>2, <1>3, <1>4, <1>5
        <3>2. NoneBuilt
            BY <2>3 DEF NoneBuilt, FailedItems
        <3>3. QED
            BY <1>1, <3>1, <3>2 DEF GatherInv, ErrorsAreTheirs
    <2>4. QED
        BY <1>1, <1>8, <2>1, <2>2, <2>3 DEF TickersTellFailures
<1>10. GatheredIsTrue'
    <2>1. CASE gathered = "tickers"
        BY <1>1, <1>2, <2>1 DEF GatheredIsTrue
    <2>2. ASSUME gathered = "nodes", NodesHealthy
          PROVE  GatheredIsTrue'
        <3>1. FailedItems = {}
            BY <2>2, <1>7 DEF NodesHealthy, FailedItems
        <3>2. ASSUME NEW i \in items, NEW j \in items
              PROVE  least[i] <= most[j] + Allowed
            <4>1. heard[i] # Failed /\ heard[j] # Failed
                BY <3>1 DEF FailedItems
            <4>2. heard[i] - heard[j] <= Allowed
                BY <2>2 DEF NodesHealthy
            <4>3. {heard[i], least[i], most[i], heard[j], least[j], most[j]} \subseteq Int
                BY <1>1, <4>1, HeardWasTrue
            <4>4. least[i] <= heard[i] /\ heard[j] <= most[j]
                BY <1>1, <4>1, HeardWasTrue
            <4>5. QED
                BY <4>2, <4>3, <4>4, GatherAssumption
        <3>3. QED
            BY <1>1, <1>3, <1>8, <2>2, <3>1, <3>2 DEF GatheredIsTrue
    <2>3. ASSUME gathered = "nodes", ~NodesHealthy
          PROVE  GatheredIsTrue'
        <3>1. ASSUME FailedItems = {}, items # {}
              PROVE  \E i, j \in items: most[i] > least[j] + Allowed
            <4>1. listed = items
                BY <3>1, <1>7 DEF FailedItems
            <4>2. PICK i \in items, j \in items: ~(heard[i] - heard[j] <= Allowed)
                BY <2>3, <3>1, <4>1 DEF NodesHealthy
            <4>3. heard[i] # Failed /\ heard[j] # Failed
                BY <3>1 DEF FailedItems
            <4>4. {heard[i], least[i], most[i], heard[j], least[j], most[j]} \subseteq Int
                BY <1>1, <4>3, HeardWasTrue
            <4>5. heard[i] <= most[i] /\ least[j] <= heard[j]
                BY <1>1, <4>3, HeardWasTrue
            <4>6. most[i] > least[j] + Allowed
                BY <4>2, <4>4, <4>5, GatherAssumption
            <4>7. QED
                BY <4>6
        <3>2. QED
            BY <1>1, <1>3, <1>8, <2>3, <3>1 DEF GatheredIsTrue
    <2>4. ASSUME gathered = "balances", BalancesHealthy
          PROVE  GatheredIsTrue'
        <3>1. listed = items
            BY <2>4, <1>7
        <3>2. FailedItems = {}
            BY <2>4, <3>1 DEF BalancesHealthy, FailedItems
        <3>3. ASSUME NEW i \in items
              PROVE  most[i] >= MinAmount
            <4>1. heard[i] # Failed /\ heard[i] >= MinAmount
                BY <2>4, <3>1 DEF BalancesHealthy
            <4>2. {heard[i], most[i]} \subseteq Int /\ heard[i] <= most[i]
                BY <1>1, <4>1, HeardWasTrue
            <4>3. QED
                BY <4>1, <4>2, GatherAssumption
        <3>4. QED
            BY <1>1, <1>4, <1>8, <2>4, <3>2, <3>3 DEF GatheredIsTrue
    <2>5. ASSUME gathered = "balances", ~BalancesHealthy
          PROVE  GatheredIsTrue'
        <3>1. listed = items
            BY <2>5, <1>7
        <3>2. ASSUME FailedItems = {}
              PROVE  \E i \in items: least[i] < MinAmount
            <4>1. PICK i \in items: ~(heard[i] >= MinAmount)
                BY <2>5, <3>1, <3>2 DEF BalancesHealthy, FailedItems
            <4>2. heard[i] # Failed
                BY <3>2 DEF FailedItems
            <4>3. {heard[i], least[i]} \subseteq Int /\ least[i] <= heard[i]
                BY <1>1, <4>2, HeardWasTrue
            <4>4. least[i] < MinAmount
                BY <4>1, <4>3, GatherAssumption
            <4>5. QED
                BY <4>4
        <3>3. QED
            BY <1>1, <1>4, <1>8, <2>5, <3>2 DEF GatheredIsTrue
    <2>6. QED
        BY <1>5, <2>1, <2>2, <2>3, <2>4, <2>5
<1>11. QED
    BY <1>6, <1>9, <1>10 DEF GatherInv

LEMMA NextGatherInv == GatherInv /\ [GatherNext]_gatherVars => GatherInv'
<1> SUFFICES ASSUME GatherInv, [GatherNext]_gatherVars
             PROVE  GatherInv'
    OBVIOUS
<1>1. ASSUME NEW i \in Item, Ask(i) \/ Check(i) \/ Copy(i) \/ List(i) \/ Change(i)
      PROVE  GatherInv'
    BY <1>1, AskKeepsInv, CheckKeepsInv, CopyKeepsInv, ListKeepsInv, ChangeKeepsInv
<1>2. CASE Respond
    BY <1>2, RespondKeepsInv
<1>3. CASE UNCHANGED gatherVars
    <2>1. GatherTypeOK' /\ StepsFit' /\ LevelsWithin' /\ ListedIsDone' /\ AnsweredWhenDone'
        BY <1>3 DEF gatherVars, GatherInv, GatherTypeOK, StepsFit, LevelsWithin, ListedIsDone,
           AnsweredWhenDone
    <2>2. FailedItems' = FailedItems /\ NoneBuilt' = NoneBuilt
        BY <1>3 DEF gatherVars, FailedItems, NoneBuilt
    <2>3. ErrorsAreTheirs' /\ TickersTellFailures' /\ GatheredIsTrue'
        BY <1>3, <2>2 DEF gatherVars, GatherInv, ErrorsAreTheirs, TickersTellFailures,
           GatheredIsTrue
    <2>4. QED
        BY <2>1, <2>3 DEF GatherInv
<1>4. QED
    BY <1>1, <1>2, <1>3 DEF GatherNext

LEMMA GatherInvHolds == GatherSpec => []GatherInv
BY InitGatherInv, NextGatherInv, PTL DEF GatherSpec

-----------------------------------------------------------------------------
\* However the goroutines overwrite each other's error, an error is one of a
\* market of the request, and is given when every market fails.
THEOREM TickersTellFailuresTheorem == GatherSpec => []TickersTellFailures
BY GatherInvHolds, PTL DEF GatherInv

\* Though no two levels were heard at one moment, the verdict on nodes and
\* balances is about levels they had while the request was at work.
THEOREM GatheredIsTrueTheorem == GatherSpec => []GatheredIsTrue
BY GatherInvHolds, PTL DEF GatherInv

\* The process serves as the services do and gathers as the answers do.
THEOREM ProcessServesAndGathers == HttpSpec => Spec /\ GatherSpec
<1>1. HttpInit => Init /\ GatherInit
    BY DEF HttpInit
<1>2. [HttpNext]_httpVars => [Next]_vars
    BY DEF HttpNext, httpVars
<1>3. [HttpNext]_httpVars => [GatherNext]_gatherVars
    BY DEF HttpNext, httpVars
<1>4. QED
    BY <1>1, <1>2, <1>3, PTL DEF HttpSpec, Spec, GatherSpec

\* The variables of the process keep their types.
THEOREM HttpTypeCorrect == HttpSpec => []HttpTypeOK
<1>1. TypeOK /\ GatherInv => HttpTypeOK
    BY DEF HttpTypeOK, GatherInv
<1>2. QED
    BY <1>1, ProcessServesAndGathers, ServicesTypeCorrect, GatherInvHolds, PTL

\* Whatever the process answers is as fresh and as true as its parts say.
THEOREM HttpAnswersHold ==
    HttpSpec => [](AnswersAreFresh /\ HealthIsTrue /\ NoPricesMeansNone /\ TickersTellFailures /\ GatheredIsTrue)
BY ProcessServesAndGathers, AnswersAreFreshTheorem, HealthIsTrueTheorem, NoPricesMeansNoneTheorem,
   TickersTellFailuresTheorem, GatheredIsTrueTheorem, PTL
=============================================================================
