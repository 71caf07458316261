--------------------------- MODULE PageRoundProofs ---------------------------
(***************************************************************************)
(* The bill of a run and what a round promises, for any number of pages,   *)
(* permits and rounds.                                                     *)
(***************************************************************************)
EXTENDS PageRound, FiniteSetTheorems, TLAPS

States == {"idle", "queued", "fetching", "asking", "recalling", "done"}

\* Outside of the pages of a round no task is alive.
TasksInv ==
  /\ task \in [Tasks -> States]
  /\ stage # "pages" => \A i \in Tasks : task[i] \in {"idle", "done"}

BillInv == TasksInv /\ BillIsComplete

\* A task takes a step only while gather waits for it.
LEMMA StepInPages ==
  ASSUME NEW i \in Tasks, TasksInv, Step(i)
  PROVE  stage = "pages" /\ UNCHANGED stage /\ task' \in [Tasks -> States]
<1>1. task[i] \notin {"idle", "done"} /\ UNCHANGED stage
  BY DEF Step, Enter, Fetched, Recalled, Answered, CallFails, engine
<1>2. PICK state \in States : Become(i, state)
  BY DEF Step, Enter, Fetched, Recalled, Answered, CallFails, Proceed,
         Judge, Extract, Ask, Return, States
<1>3. QED
  BY <1>1, <1>2 DEF TasksInv, Become

\* Tasks alive are inside of a round, and what is billed is all that was spent.
LEMMA BillStep == BillInv /\ [Next]_vars => BillInv'
<1> SUFFICES ASSUME BillInv, [Next]_vars PROVE BillInv'
  OBVIOUS
<1> USE DEF BillInv, TasksInv, BillIsComplete
<1>1. CASE Search
  BY <1>1 DEF Search, States
<1>2. CASE Gather
  BY <1>2 DEF Gather
<1>3. CASE Bill
  BY <1>3 DEF Bill, client
<1>4. ASSUME NEW i \in Tasks, Step(i) PROVE BillInv'
  BY <1>4, StepInPages
<1>5. CASE UNCHANGED vars
  BY <1>5 DEF vars, engine, client
<1>6. QED
  BY <1>1, <1>2, <1>3, <1>4, <1>5 DEF Next

\* gather waits for every task, so nothing is spent behind the bill of a run.
THEOREM BillComplete == Spec => []BillIsComplete
<1>1. Init => BillInv
  BY DEF Init, BillInv, TasksInv, BillIsComplete, States
<1>2. Spec => []BillInv
  BY <1>1, BillStep, PTL DEF Spec
<1>3. BillInv => BillIsComplete
  BY DEF BillInv
<1>4. QED
  BY <1>2, <1>3, PTL
------------------------------------------------------------------------------
(* What is paid for *)

Prompt ==
  [agent : {"validator"}, url : Urls, fetch : {<<>>}]
    \cup [agent : {"extractor"}, url : Urls, fetch : Nat \X Tasks]

\* The pages of a round are different ones, each with a task; outside there is none.
PagesInv ==
  /\ round \in Nat
  /\ urls \in Seq(Urls) /\ Len(urls) <= FetchCap /\ IsInjective(urls)
  /\ stage # "pages" => urls = <<>>
  /\ \A i \in Tasks : task[i] \notin {"idle", "done"} => i \in DOMAIN urls

\* A task asks about its own page, and what it asks has not been answered.
CallsInv ==
  /\ call \in [Tasks -> Prompt \cup {NoCall}]
  /\ \A i \in Tasks : task[i] = "asking" =>
       /\ call[i] \in {TrustPrompt(urls[i]), ExtractPrompt(urls[i], <<round, i>>)}
       /\ call[i] \notin cache

CacheInv == IsFiniteSet(cache) /\ PaidOnce

PaidInv == TasksInv /\ PagesInv /\ CallsInv /\ CacheInv

\* Tasks with different pages, or of different places, send different prompts.
LEMMA PromptsDiffer ==
  ASSUME PagesInv, NEW i \in DOMAIN urls, NEW j \in DOMAIN urls, i # j
  PROVE  {TrustPrompt(urls[i]), ExtractPrompt(urls[i], <<round, i>>)}
           \cap {TrustPrompt(urls[j]), ExtractPrompt(urls[j], <<round, j>>)} = {}
<1>1. urls[i] # urls[j]
  BY DEF PagesInv, IsInjective
<1>2. QED
  BY <1>1 DEF TrustPrompt, ExtractPrompt

\* What is listed of the results are different pages without findings, FetchCap at most.
LEMMA SearchLists ==
  ASSUME Search
  PROVE  /\ urls' \in BoundedSeq(Urls, FetchCap) /\ urls' \in Seq(Urls) /\ Len(urls') <= FetchCap
         /\ IsInjective(urls')
         /\ \A i \in DOMAIN urls' : ~Contains(findings, urls'[i])
<1>0. PICK results \in Results : \E order \in Increasing(Unseen(results)) :
        urls' = [k \in 1..(IF Len(order) < FetchCap THEN Len(order) ELSE FetchCap) |-> results[order[k]]]
  BY DEF Search
<1>1. PICK order \in Increasing(Unseen(results)) :
        urls' = [k \in 1..(IF Len(order) < FetchCap THEN Len(order) ELSE FetchCap) |-> results[order[k]]]
  BY <1>0
<1>2. PICK m \in 0..(Queries * PerQuery) : results \in [1..m -> Urls]
  BY <1>0 DEF Results, BoundedSeq, SeqOf
<1>3. /\ IsFiniteSet(Unseen(results)) /\ Cardinality(Unseen(results)) \in Nat
      /\ Unseen(results) \subseteq 1..m /\ m \in Nat
  <2>1. m \in Nat /\ IsFiniteSet(1..m)
    BY FS_Interval, CountsAssumption DEF CountsAssumption
  <2>2. Unseen(results) \subseteq 1..m
    BY <1>2 DEF Unseen
  <2>3. QED
    BY <2>1, <2>2, FS_Subset, FS_CardinalityType
<1> DEFINE n == Cardinality(Unseen(results))
           cut == IF n < FetchCap THEN n ELSE FetchCap
<1>4. /\ order \in [1..n -> Unseen(results)] /\ Len(order) = n
      /\ \A k, l \in 1..n : k < l => order[k] < order[l]
  BY <1>1, <1>3 DEF Increasing
<1>5. cut \in Nat /\ cut <= n /\ cut <= FetchCap
  BY <1>3, CountsAssumption DEF CountsAssumption
<1>6. urls' = [k \in 1..cut |-> results[order[k]]]
  BY <1>1, <1>4
<1> HIDE DEF n, cut
<1>7. \A k \in 1..cut : k \in 1..n /\ order[k] \in Unseen(results) /\ order[k] \in 1..m
  BY <1>3, <1>4, <1>5
<1>8. urls' \in [1..cut -> Urls]
  BY <1>2, <1>6, <1>7
<1>9. urls' \in Seq(Urls) /\ Len(urls') <= FetchCap
  BY <1>5, <1>8
<1>10. urls' \in BoundedSeq(Urls, FetchCap)
  BY <1>5, <1>8, CountsAssumption DEF CountsAssumption, BoundedSeq, SeqOf
<1>11. ASSUME NEW k \in 1..cut, NEW l \in 1..cut, k < l PROVE urls'[k] # urls'[l]
  <2>1. order[k] < order[l] /\ order[k] \in DOMAIN results /\ order[l] \in Unseen(results)
    BY <1>2, <1>4, <1>7, <1>11
  <2>2. results[order[k]] # results[order[l]]
    BY <2>1 DEF Unseen
  <2>3. QED
    BY <1>6, <2>2
<1>12. IsInjective(urls')
  <2> SUFFICES ASSUME NEW k \in 1..cut, NEW l \in 1..cut, k # l PROVE urls'[k] # urls'[l]
    BY <1>6 DEF IsInjective
  <2>1. k < l \/ l < k
    OBVIOUS
  <2>2. QED
    BY <1>11, <2>1
<1>13. \A i \in DOMAIN urls' : ~Contains(findings, urls'[i])
  BY <1>6, <1>7 DEF Unseen
<1>14. QED
  BY <1>9, <1>10, <1>12, <1>13

\* A task that takes a step is one of a page, and it changes no other task.
LEMMA StepIsOwn ==
  ASSUME NEW i \in Tasks, TasksInv, PagesInv, CallsInv, Step(i)
  PROVE  /\ i \in DOMAIN urls /\ UNCHANGED <<stage, round, urls, findings>>
         /\ task' \in [Tasks -> States]
         /\ \A j \in Tasks : j # i => task'[j] = task[j]
         /\ call' \in [Tasks -> Prompt \cup {NoCall}]
         /\ \A j \in Tasks : j # i => call'[j] = call[j]
         /\ task'[i] = "asking" =>
              /\ call'[i] \in {TrustPrompt(urls[i]), ExtractPrompt(urls[i], <<round, i>>)}
              /\ call'[i] \notin cache /\ cache' = cache
<1>1. i \in DOMAIN urls
  BY DEF PagesInv, Step, Enter, Fetched, Recalled, Answered, CallFails
<1>2. UNCHANGED <<stage, round, urls, findings>>
  BY DEF Step, Enter, Fetched, Recalled, Answered, CallFails, engine
<1>3. PICK state \in States : Become(i, state)
  BY DEF Step, Enter, Fetched, Recalled, Answered, CallFails, Proceed,
         Judge, Extract, Ask, Return, States
<1>4. /\ task' \in [Tasks -> States] /\ \A j \in Tasks : j # i => task'[j] = task[j]
      /\ task'[i] = state
  BY <1>3 DEF TasksInv, Become
<1>5. urls[i] \in Urls /\ round \in Nat
  BY <1>1 DEF PagesInv
<1>6. TrustPrompt(urls[i]) \in Prompt /\ ExtractPrompt(urls[i], <<round, i>>) \in Prompt
  BY <1>5 DEF TrustPrompt, ExtractPrompt, Prompt
<1> DEFINE own == {TrustPrompt(urls[i]), ExtractPrompt(urls[i], <<round, i>>)}
<1>7. \/ state # "asking" /\ (UNCHANGED call \/ call' = [call EXCEPT ![i] = NoCall])
      \/ /\ cache' = cache
         /\ \E prompt \in own : prompt \notin cache /\ call' = [call EXCEPT ![i] = prompt]
  <2>1. CASE Enter(i)
    <3>1. task' = [task EXCEPT ![i] = "fetching"] /\ UNCHANGED call
      BY <2>1 DEF Enter, Become
    <3>2. QED
      BY <1>4, <3>1 DEF TasksInv
  <2>2. CASE Fetched(i) \/ Recalled(i)
    <3>1. CASE \E prompt \in own : Ask(i, prompt)
      BY <2>2, <3>1 DEF Fetched, Recalled, Ask, client
    <3>2. CASE UNCHANGED call /\ (Judge(i) \/ \E n \in {0, Lost} : Return(i, n))
      <4>1. task' = [task EXCEPT ![i] = "done"] \/ task' = [task EXCEPT ![i] = "recalling"]
        BY <3>2 DEF Judge, Return, Become
      <4>2. QED
        BY <1>4, <3>2, <4>1 DEF TasksInv
    <3>3. QED
      BY <2>2, <3>1, <3>2 DEF Fetched, Recalled
  <2>3. CASE Answered(i) \/ CallFails(i)
    <3>1. call' = [call EXCEPT ![i] = NoCall]
      BY <2>3 DEF Answered, CallFails, Proceed
    <3>2. task' = [task EXCEPT ![i] = "done"] \/ task' = [task EXCEPT ![i] = "recalling"]
      BY <2>3 DEF Answered, CallFails, Proceed, Judge, Extract, Return, Become
    <3>3. QED
      BY <1>4, <3>1, <3>2 DEF TasksInv
  <2>4. QED
    BY <2>1, <2>2, <2>3 DEF Step
<1>8. call \in [Tasks -> Prompt \cup {NoCall}]
  BY DEF CallsInv
<1> HIDE DEF own
<1>9. own \subseteq Prompt
  BY <1>6 DEF own
<1>10. call' \in [Tasks -> Prompt \cup {NoCall}] /\ \A j \in Tasks : j # i => call'[j] = call[j]
  BY <1>7, <1>8, <1>9
<1>11. task'[i] = "asking" => call'[i] \in own /\ call'[i] \notin cache /\ cache' = cache
  BY <1>4, <1>7, <1>8
<1>12. QED
  BY <1>1, <1>2, <1>4, <1>10, <1>11 DEF own

\* An answer is to a prompt that was not in the cache, and of no other task.
LEMMA PaidTaskStep == ASSUME NEW i \in Tasks, PaidInv, Step(i) PROVE PaidInv'
<1>1. TasksInv /\ PagesInv /\ CallsInv /\ CacheInv /\ stage = "pages"
  BY StepInPages DEF PaidInv
<1>2. /\ i \in DOMAIN urls /\ UNCHANGED <<stage, round, urls, findings>>
      /\ task' \in [Tasks -> States]
      /\ \A j \in Tasks : j # i => task'[j] = task[j]
      /\ call' \in [Tasks -> Prompt \cup {NoCall}]
      /\ \A j \in Tasks : j # i => call'[j] = call[j]
      /\ task'[i] = "asking" =>
           /\ call'[i] \in {TrustPrompt(urls[i]), ExtractPrompt(urls[i], <<round, i>>)}
           /\ call'[i] \notin cache /\ cache' = cache
  BY <1>1, StepIsOwn
<1>3. \/ UNCHANGED client
      \/ /\ task[i] = "asking" /\ cache' = cache \cup {call[i]} /\ spent' = spent + 1
  BY DEF Step, Enter, Fetched, Recalled, Answered, CallFails
<1>4. TasksInv'
  BY <1>1, <1>2 DEF TasksInv
<1>5. PagesInv'
  BY <1>1, <1>2 DEF PagesInv
<1>6. ASSUME NEW j \in Tasks, task'[j] = "asking"
      PROVE  /\ call'[j] \in {TrustPrompt(urls[j]), ExtractPrompt(urls[j], <<round, j>>)}
             /\ call'[j] \notin cache'
  <2>1. CASE j = i
    BY <1>2, <1>6, <2>1
  <2>2. CASE j # i
    <3>1. /\ task[j] = "asking" /\ call'[j] = call[j] /\ call[j] \notin cache /\ j \in DOMAIN urls
          /\ call[j] \in {TrustPrompt(urls[j]), ExtractPrompt(urls[j], <<round, j>>)}
      BY <1>1, <1>2, <1>6, <2>2 DEF CallsInv, PagesInv
    <3>2. task[i] = "asking" => call[i] # call[j]
      BY <1>1, <1>2, <2>2, <3>1, PromptsDiffer DEF CallsInv
    <3>3. QED
      BY <1>3, <3>1, <3>2 DEF client
  <2>3. QED
    BY <2>1, <2>2
<1>7. CallsInv'
  BY <1>2, <1>6 DEF CallsInv
<1>8. CacheInv'
  <2>1. CASE UNCHANGED client
    BY <1>1, <2>1 DEF client, CacheInv, PaidOnce
  <2>2. CASE task[i] = "asking" /\ cache' = cache \cup {call[i]} /\ spent' = spent + 1
    <3>1. call[i] \notin cache
      BY <1>1, <2>2 DEF CallsInv
    <3>2. IsFiniteSet(cache') /\ Cardinality(cache') = Cardinality(cache) + 1
      BY <1>1, <2>2, <3>1, FS_AddElement DEF CacheInv
    <3>3. QED
      BY <1>1, <2>2, <3>2 DEF CacheInv, PaidOnce
  <2>3. QED
    BY <1>3, <2>1, <2>2
<1>9. QED
  BY <1>4, <1>5, <1>7, <1>8 DEF PaidInv

\* The other steps find no task alive, or leave everything but the bill alone.
LEMMA PaidStep == PaidInv /\ [Next]_vars => PaidInv'
<1> SUFFICES ASSUME PaidInv, [Next]_vars PROVE PaidInv'
  OBVIOUS
<1> USE DEF PaidInv
<1>1. CASE Search
  <2>1. urls' \in Seq(Urls) /\ Len(urls') <= FetchCap /\ IsInjective(urls')
    BY <1>1, SearchLists
  <2>2. /\ stage' = "pages" /\ UNCHANGED <<round, call, client>>
        /\ task' = [i \in Tasks |-> IF i <= Len(urls') THEN "queued" ELSE "idle"]
    BY <1>1 DEF Search
  <2>3. TasksInv'
    BY <2>2 DEF TasksInv, States
  <2>4. PagesInv'
    BY <2>1, <2>2, CountsAssumption DEF CountsAssumption, PagesInv, Tasks
  <2>5. CallsInv' /\ CacheInv'
    BY <2>2 DEF CallsInv, CacheInv, PaidOnce, client
  <2>6. QED
    BY <2>3, <2>4, <2>5
<1>2. CASE Gather
  <2>1. /\ \A i \in Tasks : task[i] \in {"idle", "done"}
        /\ urls' = <<>> /\ stage' = "search" /\ round' = round + 1 /\ UNCHANGED <<task, call, client>>
    BY <1>2 DEF Gather
  <2>2. PagesInv'
    BY <2>1, CountsAssumption DEF CountsAssumption, PagesInv, IsInjective
  <2>3. QED
    BY <2>1, <2>2 DEF TasksInv, CallsInv, CacheInv, PaidOnce, client
<1>3. CASE Bill
  BY <1>3 DEF Bill, TasksInv, PagesInv, CallsInv, CacheInv, PaidOnce, client
<1>4. ASSUME NEW i \in Tasks, Step(i) PROVE PaidInv'
  BY <1>4, PaidTaskStep
<1>5. CASE UNCHANGED vars
  BY <1>5 DEF vars, engine, client, TasksInv, PagesInv, CallsInv, CacheInv, PaidOnce
<1>6. QED
  BY <1>1, <1>2, <1>3, <1>4, <1>5 DEF Next

\* A run begins without pages, calls and answers.
LEMMA PaidInit == Init => PaidInv
<1> SUFFICES ASSUME Init PROVE PaidInv
  OBVIOUS
<1>1. TasksInv /\ CallsInv
  BY DEF Init, TasksInv, States, CallsInv
<1>2. PagesInv
  BY CountsAssumption DEF CountsAssumption, Init, PagesInv, IsInjective
<1>3. CacheInv
  BY FS_EmptySet DEF Init, CacheInv, PaidOnce
<1>4. QED
  BY <1>1, <1>2, <1>3 DEF PaidInv

\* So the pages, the calls and the cache are always related so.
LEMMA PaidInductive == Spec => []PaidInv
BY PaidInit, PaidStep, PTL DEF Spec

\* No prompt is paid for twice, although the cache has no lock (client.py, complete).
THEOREM PromptsPaidOnce == Spec => []PaidOnce
BY PaidInductive, PTL DEF PaidInv, CacheInv
------------------------------------------------------------------------------
(* What a round promises *)

ResultsInv == result \in [Tasks -> 0..Lost]

\* Every task returns as many findings as a page may have, or is lost.
LEMMA ResultsStep == ResultsInv /\ [Next]_vars => ResultsInv'
<1> SUFFICES ASSUME ResultsInv, [Next]_vars PROVE ResultsInv'
  OBVIOUS
<1>1. Lost \in Nat /\ 0 \in 0..Lost /\ Lost \in 0..Lost /\ 0..PageFindings \subseteq 0..Lost
  BY CountsAssumption DEF CountsAssumption, Lost
<1>2. CASE Search
  BY <1>1, <1>2 DEF Search, ResultsInv
<1>3. CASE Gather \/ Bill \/ UNCHANGED vars
  BY <1>3 DEF Gather, Bill, vars, ResultsInv
<1>4. ASSUME NEW i \in Tasks, Step(i) PROVE ResultsInv'
  <2>1. UNCHANGED result \/ \E n \in 0..Lost : result' = [result EXCEPT ![i] = n]
    BY <1>1, <1>4 DEF Step, Enter, Fetched, Recalled, Answered, CallFails, Proceed, Judge, Extract, Ask, Return
  <2>2. QED
    BY <2>1 DEF ResultsInv
<1>5. QED
  BY <1>2, <1>3, <1>4 DEF Next

\* What gather puts together is what SearchRound's second step adds.
LEMMA GatherRefines ==
  ASSUME PagesInv, ResultsInv, Gather PROVE Round!Gather
<1> DEFINE n == [i \in DOMAIN urls |-> IF result[i] = Lost THEN 0 ELSE result[i]]
           pages == [i \in DOMAIN urls |-> [k \in 1..n[i] |-> urls[i]]]
<1>1. DOMAIN urls \subseteq Tasks
  BY CountsAssumption DEF CountsAssumption, PagesInv, Tasks
<1>2. n \in [DOMAIN urls -> 0..PageFindings]
  BY <1>1, CountsAssumption DEF CountsAssumption, ResultsInv, Lost
<1>3. Gathered = FlattenSeq(pages)
  <2>1. ASSUME NEW i \in DOMAIN urls
        PROVE  (IF result[i] = Lost THEN <<>> ELSE [k \in 1..result[i] |-> urls[i]])
                 = [k \in 1..n[i] |-> urls[i]]
    <3>1. CASE result[i] = Lost
      <4>1. n[i] = 0
        BY <3>1
      <4>2. [k \in 1..0 |-> urls[i]] = <<>>
        OBVIOUS
      <4>3. QED
        BY <3>1, <4>1, <4>2
    <3>2. CASE result[i] # Lost
      <4>1. n[i] = result[i]
        BY <3>2
      <4>2. QED
        BY <3>2, <4>1
    <3>3. QED
      BY <3>1, <3>2
  <2>2. [i \in DOMAIN urls |-> IF result[i] = Lost THEN <<>> ELSE [k \in 1..result[i] |-> urls[i]]]
          = pages
    BY <2>1
  <2>3. QED
    BY <2>2 DEF Gathered
<1>4. findings' = findings \o FlattenSeq(pages) /\ urls' = <<>>
  BY <1>3 DEF Gather
<1> HIDE DEF n
<1>5. QED
  BY <1>2, <1>4 DEF Round!Gather, Round!FlattenSeq, FlattenSeq

\* Every step of a round is one of SearchRound's two, or leaves its variables alone.
LEMMA RoundStep ==
  PaidInv /\ ResultsInv /\ [Next]_vars => [Round!Next]_<<findings, urls>>
<1> SUFFICES ASSUME PaidInv, ResultsInv, [Next]_vars
             PROVE  Round!Next \/ UNCHANGED <<findings, urls>>
  OBVIOUS
<1> USE DEF PaidInv
<1>1. CASE Search
  <2>1. urls = <<>>
    BY <1>1 DEF Search, PagesInv
  <2>2. /\ urls' \in BoundedSeq(Urls, FetchCap) /\ IsInjective(urls')
        /\ \A i \in DOMAIN urls' : ~Contains(findings, urls'[i])
    BY <1>1, SearchLists
  <2>3. urls' \in Round!BoundedSeq(Urls, FetchCap)
    BY <2>2 DEF BoundedSeq, SeqOf, Round!BoundedSeq, Round!SeqOf
  <2>4. Round!IsInjective(urls')
    BY <2>2 DEF IsInjective, Round!IsInjective
  <2>5. \A i \in DOMAIN urls' : ~Round!Contains(findings, urls'[i])
    BY <2>2 DEF Contains, Round!Contains
  <2>6. UNCHANGED findings
    BY <1>1 DEF Search
  <2>7. Round!List
    BY <2>1, <2>3, <2>4, <2>5, <2>6 DEF Round!List
  <2>8. QED
    BY <2>7 DEF Round!Next
<1>2. CASE Gather
  BY <1>2, GatherRefines DEF Round!Next
<1>3. CASE Bill \/ UNCHANGED vars
  BY <1>3 DEF Bill, vars, engine
<1>4. ASSUME NEW i \in Tasks, Step(i) PROVE UNCHANGED <<findings, urls>>
  BY <1>4 DEF Step, Enter, Fetched, Recalled, Answered, CallFails, engine
<1>5. QED
  BY <1>1, <1>2, <1>3, <1>4 DEF Next

\* However the tasks of a round overlap, fail or are answered from the cache, it lists
\* new pages, each once, and adds what they gave in their order: SearchRound (engine.py).
THEOREM RoundsImplementSearch == Spec => ImplementsRound
<1>1. Init => ResultsInv
  BY CountsAssumption DEF CountsAssumption, Init, ResultsInv, Lost
<1>2. Spec => []ResultsInv
  BY <1>1, ResultsStep, PTL DEF Spec
<1>3. Init => Round!Init
  BY DEF Init, Round!Init
<1>4. QED
  BY <1>2, <1>3, RoundStep, PaidInductive, PTL DEF Spec, ImplementsRound, Round!Spec
==============================================================================
