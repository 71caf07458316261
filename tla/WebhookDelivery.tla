-------------------------- MODULE WebhookDelivery ---------------------------
(***************************************************************************)
(* The deliveries of a job's webhooks: fire_webhook enqueues one for each  *)
(* endpoint, deliver_webhook_job posts it and, when that fails, enqueues   *)
(* the next attempt.  A delivery that is waiting is a message of arq.      *)
(*                                                                         *)
(* The first message of an endpoint has an id made of the job's and the    *)
(* endpoint's; arq drops another one with that id while the first is       *)
(* queued, is run, or was run less than keep_result ago.  The id does not  *)
(* tell the events apart.  The later attempts have ids of their own.       *)
(*                                                                         *)
(* A definition named X_Y is a mutated form of X; no specification uses it.*)
(***************************************************************************)
EXTENDS Naturals

CONSTANTS Endpoints,       \* the active webhook endpoints
          MaxAttempts      \* 5 in the code

ASSUME MaxAttemptsAssumption == MaxAttempts \in Nat \ {0}

VARIABLES
  deliveries,   \* those begun, with what became of them
  held,         \* the endpoints whose id arq knows
  crashed       \* a worker crashed in a delivery (bound: one does)

hookVars == <<deliveries, held, crashed>>

Event == {"research.completed", "research.failed"}

\* "lost": the next attempt could not be enqueued.
Delivery(Executions) ==
  [endpoint : Endpoints, event : Event, execution : Executions,
   again : BOOLEAN,              \* it is a message arq runs again
   attempt : 1..MaxAttempts,
   posts : 0..(MaxAttempts + 1),
   state : {"waiting", "delivered", "given up", "lost"}]

HooksInit == deliveries = {} /\ held = {} /\ crashed = FALSE

Enqueue(endpoint, event, execution) ==
  /\ IF endpoint \in held
       THEN UNCHANGED <<deliveries, held>>
       ELSE /\ deliveries' = deliveries \cup
                 {[endpoint |-> endpoint, event |-> event, execution |-> execution,
                   again |-> FALSE, attempt |-> 1, posts |-> 0, state |-> "waiting"]}
            /\ held' = held \cup {endpoint}
  /\ UNCHANGED crashed

\* keep_result goes by, after the message was run.
Forget(endpoint) ==
  /\ endpoint \in held
  /\ ~ \E d \in deliveries : /\ d.endpoint = endpoint /\ d.state = "waiting"
                             /\ d.attempt = 1
  /\ held' = held \ {endpoint}
  /\ UNCHANGED <<deliveries, crashed>>
------------------------------------------------------------------------------
Posted(d) == [d EXCEPT !.posts = IF @ > MaxAttempts THEN @ ELSE @ + 1]

AfterFailedPost_StartsOver(d) ==
  [Posted(d) EXCEPT !.attempt = IF @ < MaxAttempts THEN @ + 1 ELSE 1]

AfterFailedPost_OneLess(d) ==
  IF d.attempt + 1 < MaxAttempts THEN [Posted(d) EXCEPT !.attempt = @ + 1]
                                 ELSE [Posted(d) EXCEPT !.state = "given up"]

AfterFailedPost_OneMore(d) ==
  IF d.attempt <= MaxAttempts THEN [Posted(d) EXCEPT !.attempt = @ + 1]
                              ELSE [Posted(d) EXCEPT !.state = "given up"]

AfterFailedPost(d) ==
  IF d.attempt < MaxAttempts THEN [Posted(d) EXCEPT !.attempt = @ + 1]
                             ELSE [Posted(d) EXCEPT !.state = "given up"]

\* The endpoint may have got a post that failed for the sender.
Outcomes(d) ==
  {[Posted(d) EXCEPT !.state = "delivered"], AfterFailedPost(d)}
  \cup (IF d.attempt < MaxAttempts THEN {[Posted(d) EXCEPT !.state = "lost"]} ELSE {})

Deliver(d) ==
  /\ d \in deliveries /\ d.state = "waiting"
  /\ \E new \in Outcomes(d) : deliveries' = (deliveries \ {d}) \cup {new}
  /\ UNCHANGED <<held, crashed>>

\* The worker crashes when it has posted, and perhaps enqueued the next attempt: arq
\* runs the message again.
DeliverCrash(d) ==
  /\ d \in deliveries /\ d.state = "waiting" /\ ~crashed
  /\ LET rerun == [Posted(d) EXCEPT !.again = TRUE]
     IN  \E new \in {{}} \cup {{n} : n \in Outcomes(d)} :
           deliveries' = (deliveries \ {d}) \cup {rerun} \cup new
  /\ crashed' = TRUE
  /\ UNCHANGED held
------------------------------------------------------------------------------
\* An endpoint is given up after MaxAttempts posts and not before, and is posted to no
\* more often, but for the one post that a crash makes arq repeat.
FullEffort ==
  \A d \in deliveries :
    LET posts == IF d.again THEN d.posts - 1 ELSE d.posts
    IN  /\ d.state = "given up" => posts = MaxAttempts
        /\ posts <= MaxAttempts

\* All endpoints that hear of an execution hear the same verdict of it, wherever the
\* announcement to them was cut short.
EndpointsAgree ==
  \A d, e \in deliveries : d.execution = e.execution => d.event = e.event

\* Every delivery comes to an end.
DeliveriesEnd == []<>(\A d \in deliveries : d.state # "waiting")
==============================================================================
