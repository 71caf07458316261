------------------------------ MODULE PageRound ------------------------------
(***************************************************************************)
(* The inside of a search round: the pages it lists are fetched, trusted   *)
(* and extracted by concurrent tasks, a semaphore wide, over one LLMClient *)
(* with its cache, and gather puts what they return together again.        *)
(*                                                                         *)
(* A page without findings is listed again by a later round, and the       *)
(* validator's prompt about it is then answered from the cache.  The       *)
(* extractor's is not: it carries the time at which the page was fetched.  *)
(* Tokens are counted by the answers they were spent on.  The calls of the *)
(* other agents come one at a time, between rounds, and are left out.      *)
(*                                                                         *)
(* A definition named X_Y is a mutated form of X; no specification uses it.*)
(***************************************************************************)
EXTENDS Naturals, FiniteSets, SequencesExt

CONSTANTS Urls,
          Queries,        \* how many queries a round sends
          PerQuery,       \* bound on the results of one query
          FetchCap,       \* pages fetched in one round
          PageFindings,   \* bound on the findings of one page
          Permits,        \* settings.extraction_concurrency
          Rounds          \* bound on the rounds

ASSUME CountsAssumption ==
  /\ Queries \in Nat /\ PerQuery \in Nat /\ PageFindings \in Nat /\ Rounds \in Nat
  /\ FetchCap \in Nat \ {0} /\ Permits \in Nat \ {0}

Tasks == 1..FetchCap
NotBilled == 0 - 1
Lost == PageFindings + 1   \* the task ended with an exception

\* Title and beginning of a page, and the compressed page with its Retrieved-At, which
\* names the fetch.
TrustPrompt(url) == [agent |-> "validator", url |-> url, fetch |-> <<>>]
ExtractPrompt(url, fetch) == [agent |-> "extractor", url |-> url, fetch |-> fetch]
NoCall == [agent |-> "none"]

VARIABLES
  stage,      \* "search", "pages", "raised", "billed"
  round,
  findings,   \* state.findings, each by its URL
  urls,       \* the pages of this round, in order
  task,       \* "idle", "queued", "fetching", "asking", "recalling", "done"
  call,       \* the prompt a task that asks has sent
  result,     \* the findings a task that is done has returned, or Lost
  permits,    \* what is left of the semaphore
  cache,      \* LLMClient.cache, by prompt
  spent,      \* LLMClient.total_tokens
  bill        \* UsageRecord

engine == <<stage, round, findings, urls, bill>>
client == <<cache, spent>>
vars == <<engine, task, call, result, permits, client>>
------------------------------------------------------------------------------
Init ==
  /\ stage = "search" /\ round = 1
  /\ findings = <<>> /\ urls = <<>>
  /\ task = [i \in Tasks |-> "idle"]
  /\ call = [i \in Tasks |-> NoCall]
  /\ result = [i \in Tasks |-> 0]
  /\ permits = Permits
  /\ cache = {} /\ spent = 0
  /\ bill = NotBilled
------------------------------------------------------------------------------
(* The searches of a round *)

\* What the queries found, one behind the other: gather keeps their order, and a query
\* that raised has no results.
Results == BoundedSeq(Urls, Queries * PerQuery)

\* Every result is listed.
Unseen_Repeats(results) == {k \in DOMAIN results : ~Contains(findings, results[k])}

\* Only this round's results are compared.
Unseen_Refetches(results) ==
  {k \in DOMAIN results : \A j \in DOMAIN results : j < k => results[j] # results[k]}

\* `seen` starts from the URLs that have findings.
Unseen(results) ==
  {k \in DOMAIN results : /\ ~Contains(findings, results[k])
                          /\ \A j \in DOMAIN results : j < k => results[j] # results[k]}

Increasing(places) ==
  {order \in [1..Cardinality(places) -> places] :
     \A k, l \in DOMAIN order : k < l => order[k] < order[l]}

Search ==
  /\ stage = "search" /\ round <= Rounds
  /\ \E results \in Results : \E order \in Increasing(Unseen(results)) :
       urls' = [k \in 1..(IF Len(order) < FetchCap THEN Len(order) ELSE FetchCap) |-> results[order[k]]]
  /\ stage' = "pages"
  /\ task' = [i \in Tasks |-> IF i <= Len(urls') THEN "queued" ELSE "idle"]
  /\ result' = [i \in Tasks |-> 0]
  /\ UNCHANGED <<round, findings, bill, call, permits, client>>
------------------------------------------------------------------------------
(* process_url *)

Become(i, state) == task' = [task EXCEPT ![i] = state]

\* Only a page that was read gives its permit back.
Return_Forgets(i, n) ==
  /\ Become(i, "done")
  /\ result' = [result EXCEPT ![i] = n]
  /\ permits' = IF task[i] = "fetching" THEN permits ELSE permits + 1

\* However a task ends, `async with sem` gives its permit back.
Return(i, n) ==
  /\ Become(i, "done")
  /\ result' = [result EXCEPT ![i] = n]
  /\ permits' = permits + 1

\* The semaphore is first come, first served.
Enter(i) ==
  /\ task[i] = "queued" /\ \A k \in Tasks : k < i => task[k] # "queued"
  /\ permits > 0
  /\ permits' = permits - 1
  /\ Become(i, "fetching")
  /\ UNCHANGED <<engine, call, result, client>>

\* The page's score: too low for the mode, or good enough.
Judge(i) ==
  \/ Return(i, 0)
  \/ Become(i, "recalling") /\ UNCHANGED <<result, permits>>

Extract(i) == \E n \in 0..PageFindings : Return(i, n)

\* LLMClient.complete, up to its first await.
Ask(i, prompt) ==
  /\ prompt \notin cache
  /\ call' = [call EXCEPT ![i] = prompt]
  /\ Become(i, "asking")
  /\ UNCHANGED <<result, permits>>

\* An unreadable page returns None, and one that cannot be sanitized is lost; a known
\* domain, and a prompt that has been answered, are judged at once.
Fetched(i) ==
  /\ task[i] = "fetching"
  /\ \/ \E n \in {0, Lost} : Return(i, n) /\ UNCHANGED call
     \/ Judge(i) /\ UNCHANGED call
     \/ Ask(i, TrustPrompt(urls[i]))
  /\ UNCHANGED <<engine, client>>

\* The question is embedded and the job's claims are searched for the prompt: without
\* an embedding there is no memory, without the database the page is lost.
Recalled(i) ==
  /\ task[i] = "recalling"
  /\ \/ Return(i, Lost) /\ UNCHANGED call
     \/ Ask(i, ExtractPrompt(urls[i], <<round, i>>))
  /\ UNCHANGED <<engine, client>>

\* What an agent makes of the end of its call, answered or not.
Proceed(i) ==
  /\ call' = [call EXCEPT ![i] = NoCall]
  /\ \/ call[i].agent = "validator" /\ Judge(i)
     \/ call[i].agent = "extractor" /\ Extract(i)

\* The gateway's answer is cached and counted before any other task runs.
Answered(i) ==
  /\ task[i] = "asking"
  /\ cache' = cache \cup {call[i]}
  /\ spent' = spent + 1
  /\ Proceed(i)
  /\ UNCHANGED engine

\* The exception of a failed call is swallowed: the validator keeps the page's own
\* score, the extractor has no findings.
CallFails(i) ==
  /\ task[i] = "asking"
  /\ \/ call[i].agent = "validator" /\ Judge(i)
     \/ call[i].agent = "extractor" /\ Return(i, 0)
  /\ call' = [call EXCEPT ![i] = NoCall]
  /\ UNCHANGED <<engine, client>>
------------------------------------------------------------------------------
(* The end of a round, and of the run *)

Gathered ==
  LET Of(i) == IF result[i] = Lost THEN <<>> ELSE [k \in 1..result[i] |-> urls[i]]
  IN  FlattenSeq([i \in DOMAIN urls |-> Of(i)])

\* Without return_exceptions, the first exception leaves the other tasks running.
Gather_FirstException ==
  /\ stage = "pages"
  /\ \/ /\ \A i \in Tasks : task[i] \in {"idle", "done"}
        /\ findings' = findings \o Gathered
        /\ urls' = <<>> /\ stage' = "search"
     \/ /\ \E i \in Tasks : task[i] = "done" /\ result[i] = Lost
        /\ stage' = "raised" /\ UNCHANGED <<findings, urls>>
  /\ round' = round + 1
  /\ UNCHANGED <<bill, task, call, result, permits, client>>

\* return_exceptions: every task has ended, and a lost page is skipped.
Gather ==
  /\ stage = "pages"
  /\ \A i \in Tasks : task[i] \in {"idle", "done"}
  /\ findings' = findings \o Gathered
  /\ urls' = <<>> /\ stage' = "search"
  /\ round' = round + 1
  /\ UNCHANGED <<bill, task, call, result, permits, client>>

\* run_research returns or raises between two rounds; either transaction bills.
Bill ==
  /\ stage \in {"search", "raised"}
  /\ stage' = "billed"
  /\ bill' = spent
  /\ UNCHANGED <<round, findings, urls, task, call, result, permits, client>>
------------------------------------------------------------------------------
Step(i) == Enter(i) \/ Fetched(i) \/ Recalled(i) \/ Answered(i) \/ CallFails(i)

Next == Search \/ Gather \/ Bill \/ \E i \in Tasks : Step(i)

Spec == Init /\ [][Next]_vars

\* Fetches, model calls, embeddings and database calls have timeouts, and the event
\* loop runs every task that can run.
FairSpec == Spec /\ WF_vars(Gather) /\ \A i \in Tasks : WF_vars(Step(i))
------------------------------------------------------------------------------
\* A round promises what SearchRound says: however the tasks of its pages overlap,
\* fail or are answered from the cache, what they found comes in the order of the
\* list, and no page gives findings in two rounds.
Round == INSTANCE SearchRound WITH listed <- urls
ImplementsRound == Round!Spec

\* What is billed is everything: after the usage of a run is written, no task of it is
\* left that goes on spending, even if pages were lost or the run raised.
BillIsComplete == stage = "billed" => bill = spent

\* No prompt is paid for twice: the cache has no lock, so two tasks with one prompt
\* would both miss it, but no two tasks have one.
PaidOnce == spent = Cardinality(cache)

\* A round that has listed its pages ends, although more pages wait than the semaphore
\* lets in and those inside may fail anywhere.
RoundEnds == stage = "pages" ~> stage # "pages"
==============================================================================
