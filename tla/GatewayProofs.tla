----------------------------- MODULE GatewayProofs -----------------------------
(***************************************************************************)
(* The slots and the circuits of the gateway, for any number of calls, any *)
(* limits and thresholds.                                                  *)
(***************************************************************************)
EXTENDS Gateway, FiniteSetTheorems, TLAPS

------------------------------------------------------------------------------
(* Programs *)

Checks == {"check_prov", "check_cred"}
AttemptOps == Checks \cup {"reserve", "read_provider", "take_provider", "read_job", "take_job", "call"}
CircuitOps == {"success_prov", "success_cred", "failure_prov", "failure_cred", "reject_prov", "reject_cred"}
ReleaseOps == {"release", "read_provider_slot", "return_provider_slot", "read_job_slot", "return_job_slot"}

Has(s, op) == \E i \in DOMAIN s : s[i] = op

\* One operation may come before another one in a program.
Before(x, y) ==
  /\ x # y /\ x \notin {"call", "retry"}
  /\ x \in AttemptOps <=> y \in AttemptOps
  /\ y = "reserve" => x \in Checks
  /\ y = "take_provider" => x \in Checks \cup {"reserve", "read_provider"}
  /\ y = "release" => x \in CircuitOps
  /\ y = "give_back_provider" => x = "release"
  /\ x = "give_back_provider" => y = "retry"

\* One operation is followed by another one in any program it is in.
Needs(x, y) ==
  \/ x \in AttemptOps \ {"call"} /\ y = "call"
  \/ x \in Checks /\ y = "reserve"
  \/ x \in Checks \cup {"reserve", "read_provider"} /\ y = "take_provider"
  \/ x \in AttemptOps \ {"take_job", "call"} /\ y = "take_job"
  \/ x = "read_provider_slot" /\ y = "return_provider_slot"
  \/ x = "read_job_slot" /\ y = "return_job_slot"

Ordered(s) == \A i, j \in DOMAIN s : i < j => Before(s[i], s[j])

Complete(s) == \A i \in DOMAIN s : \A y \in Operations : Needs(s[i], y) => \E j \in DOMAIN s : i < j /\ s[j] = y

\* A release that is not a rollback's returns the other two slots as well; only behind
\* it does a program return them, and only when it has just read their counters.
Framed(s) ==
  /\ \A i \in DOMAIN s : i > 1 /\ s[i] = "release" =>
       \A y \in {"return_provider_slot", "return_job_slot"} : \E j \in DOMAIN s : i < j /\ s[j] = y
  /\ \A i, j \in DOMAIN s :
       i < j /\ s[i] \in CircuitOps \cup {"cool_down"} /\ s[j] \in {"return_provider_slot", "return_job_slot"}
         => \E m \in DOMAIN s : i < m /\ m < j /\ s[m] = "release"
  /\ \A i, j \in DOMAIN s : j = i + 1 =>
       /\ s[j] = "return_provider_slot" => s[i] = "read_provider_slot"
       /\ s[j] = "return_job_slot" => s[i] = "read_job_slot"

Program(s) == s \in Seq(Operations) /\ Ordered(s) /\ Complete(s) /\ Framed(s)

\* The operations of a release.
LEMMA ReleaseNames == {Release[i] : i \in DOMAIN Release} = ReleaseOps
<1>1. /\ DOMAIN Release = 1..5
      /\ Release[1] = "release" /\ Release[2] = "read_provider_slot"
      /\ Release[3] = "return_provider_slot" /\ Release[4] = "read_job_slot"
      /\ Release[5] = "return_job_slot"
  BY DEF Release
<1>2. \A i \in 1..5 : i = 1 \/ i = 2 \/ i = 3 \/ i = 4 \/ i = 5
  OBVIOUS
<1>3. {Release[i] : i \in DOMAIN Release} \subseteq ReleaseOps
  BY <1>1, <1>2 DEF ReleaseOps
<1>4. ASSUME NEW x \in ReleaseOps PROVE \E i \in 1..5 : x = Release[i]
  <2> SUFFICES \E i \in {1, 2, 3, 4, 5} : x = Release[i]
    OBVIOUS
  <2>1. QED
    BY <1>1, Zenon DEF ReleaseOps
<1>5. QED
  BY <1>1, <1>3, <1>4

\* An operation is one of the names.
LEMMA OperationNames ==
  Operations = AttemptOps \cup ReleaseOps \cup CircuitOps \cup {"give_back_provider", "cool_down", "retry"}
<1>1. {Attempt[i] : i \in DOMAIN Attempt} = AttemptOps
  <2>1. /\ DOMAIN Attempt = 1..8
        /\ Attempt[1] = "check_prov" /\ Attempt[2] = "check_cred" /\ Attempt[3] = "reserve"
        /\ Attempt[4] = "read_provider" /\ Attempt[5] = "take_provider"
        /\ Attempt[6] = "read_job" /\ Attempt[7] = "take_job" /\ Attempt[8] = "call"
    BY DEF Attempt
  <2>2. \A i \in 1..8 : i = 1 \/ i = 2 \/ i = 3 \/ i = 4 \/ i = 5 \/ i = 6 \/ i = 7 \/ i = 8
    OBVIOUS
  <2>3. {Attempt[i] : i \in DOMAIN Attempt} \subseteq AttemptOps
    BY <2>1, <2>2 DEF AttemptOps, Checks
  <2>4. ASSUME NEW x \in AttemptOps PROVE \E i \in 1..8 : x = Attempt[i]
    <3> SUFFICES \E i \in {1, 2, 3, 4, 5, 6, 7, 8} : x = Attempt[i]
      OBVIOUS
    <3>1. QED
      BY <2>1, Zenon DEF AttemptOps, Checks
  <2>5. QED
    BY <2>1, <2>3, <2>4
<1>2. {Release[i] : i \in DOMAIN Release} = ReleaseOps
  BY ReleaseNames
<1>3. {op[k] : op \in {Success, Failure, Rejection}, k \in Keys} = CircuitOps
  <2>1. /\ Success["prov"] = "success_prov" /\ Success["cred"] = "success_cred"
        /\ Failure["prov"] = "failure_prov" /\ Failure["cred"] = "failure_cred"
        /\ Rejection["prov"] = "reject_prov" /\ Rejection["cred"] = "reject_cred"
    BY DEF Success, Failure, Rejection
  <2>2. \A op \in {Success, Failure, Rejection}, k \in Keys : op[k] \in CircuitOps
    BY <2>1 DEF Keys, CircuitOps
  <2>3. \A x \in CircuitOps : \E op \in {Success, Failure, Rejection}, k \in Keys : x = op[k]
    BY <2>1, Zenon DEF Keys, CircuitOps
  <2>4. QED
    BY <2>2, <2>3
<1>4. QED
  <2> DEFINE A == {Attempt[i] : i \in DOMAIN Attempt}
             R == {Release[i] : i \in DOMAIN Release}
             C == {op[k] : op \in {Success, Failure, Rejection}, k \in Keys}
  <2>1. Operations = A \cup R \cup {"give_back_provider", "cool_down", "retry"} \cup C
    BY DEF Operations
  <2>2. A = AttemptOps /\ R = ReleaseOps /\ C = CircuitOps
    BY <1>1, <1>2, <1>3
  <2> HIDE DEF A, R, C
  <2>3. QED
    BY <2>1, <2>2

\* The places of a sequence and of its tail.
LEMMA Places ==
  \A i, j \in Nat : /\ i + 1 < j => j > 1 /\ i < j - 1
                    /\ i > 1 /\ i < j + 1 => i - 1 < j
                    /\ i < j => i + 1 < j + 1
OBVIOUS

\* What is left of a program when its first operation is done is a program, with the
\* other operations of the first.
LEMMA RestOfProgram ==
  ASSUME NEW s, Program(s), s # <<>>
  PROVE  /\ Program(Tail(s)) /\ Head(s) \in Operations
         /\ \A op \in Operations : Has(Tail(s), op) <=> Has(s, op) /\ op # Head(s)
<1> DEFINE t == Tail(s)
<1>1. /\ s \in Seq(Operations) /\ t \in Seq(Operations) /\ Head(s) \in Operations
      /\ DOMAIN s = 1..Len(s) /\ DOMAIN t = 1..(Len(s) - 1) /\ Len(s) \in Nat /\ Len(s) > 0
      /\ \A i \in DOMAIN t : i + 1 \in DOMAIN s /\ t[i] = s[i + 1]
      /\ \A i \in DOMAIN s : i = 1 \/ (i - 1 \in DOMAIN t /\ t[i - 1] = s[i])
      /\ 1 \in DOMAIN s /\ s[1] = Head(s)
  BY DEF Program
<1>0. /\ \A i \in DOMAIN t : i \in Nat /\ i > 0 /\ i + 1 > 1 /\ i + 1 \in DOMAIN s /\ t[i] = s[i + 1]
      /\ \A i \in DOMAIN s : i \in Nat /\ (i > 1 => i - 1 \in DOMAIN t /\ t[i - 1] = s[i])
  BY <1>1
<1> HIDE DEF t
<1>2. Ordered(t)
  BY <1>1 DEF Program, Ordered
<1>3. Complete(t)
  BY <1>1 DEF Program, Complete
<1>4. Framed(t)
  <2>0. Framed(s)
    BY DEF Program
  <2> DEFINE Back == {"return_provider_slot", "return_job_slot"}
  <2>1. ASSUME NEW i \in DOMAIN t, i > 1, t[i] = "release", NEW y \in Back
        PROVE  \E j \in DOMAIN t : i < j /\ t[j] = y
    <3>1. i \in Nat /\ i + 1 > 1 /\ i + 1 \in DOMAIN s /\ s[i + 1] = "release"
      BY <1>0, <2>1, Zenon
    <3>2. PICK j \in DOMAIN s : i + 1 < j /\ s[j] = y
      BY <3>1, <2>1, <2>0, Zenon DEF Framed
    <3>3. j - 1 \in DOMAIN t /\ t[j - 1] = y /\ i < j - 1
      <4>1. j \in Nat
        BY <1>0, <3>2, Zenon
      <4>2. i < j - 1 /\ j > 1
        BY <3>1, <3>2, <4>1, Places, Zenon
      <4>3. QED
        BY <1>0, <3>2, <4>1, <4>2, Zenon
    <3>4. QED
      BY <3>3, Zenon
  <2>2. ASSUME NEW i \in DOMAIN t, NEW j \in DOMAIN t, i < j,
               t[i] \in CircuitOps \cup {"cool_down"}, t[j] \in Back
        PROVE  \E m \in DOMAIN t : i < m /\ m < j /\ t[m] = "release"
    <3>1. /\ i \in Nat /\ j \in Nat /\ i + 1 \in DOMAIN s /\ j + 1 \in DOMAIN s /\ i + 1 < j + 1
          /\ s[i + 1] \in CircuitOps \cup {"cool_down"} /\ s[j + 1] \in Back
      <4>1. i \in Nat /\ j \in Nat /\ i + 1 \in DOMAIN s /\ j + 1 \in DOMAIN s /\ s[i + 1] = t[i] /\ s[j + 1] = t[j]
        BY <1>0, Zenon
      <4>2. i + 1 < j + 1
        BY <4>1, <2>2, Places, Zenon
      <4>3. QED
        BY <4>1, <4>2, <2>2, Zenon
    <3>2. PICK m \in DOMAIN s : i + 1 < m /\ m < j + 1 /\ s[m] = "release"
      BY <3>1, <2>0, Zenon DEF Framed
    <3>3. m - 1 \in DOMAIN t /\ t[m - 1] = "release" /\ i < m - 1 /\ m - 1 < j
      <4>1. m \in Nat
        BY <1>0, <3>2, Zenon
      <4>2. m > 1 /\ i < m - 1 /\ m - 1 < j
        BY <3>1, <3>2, <4>1, Places, Zenon
      <4>3. QED
        BY <1>0, <3>2, <4>1, <4>2, Zenon
    <3>4. QED
      BY <3>3, Zenon
  <2>3. ASSUME NEW i \in DOMAIN t, NEW j \in DOMAIN t, j = i + 1
        PROVE  /\ t[j] = "return_provider_slot" => t[i] = "read_provider_slot"
               /\ t[j] = "return_job_slot" => t[i] = "read_job_slot"
    <3>1. i + 1 \in DOMAIN s /\ j + 1 \in DOMAIN s /\ j + 1 = (i + 1) + 1 /\ t[i] = s[i + 1] /\ t[j] = s[j + 1]
      BY <1>1, <2>3
    <3>2. /\ s[j + 1] = "return_provider_slot" => s[i + 1] = "read_provider_slot"
          /\ s[j + 1] = "return_job_slot" => s[i + 1] = "read_job_slot"
      BY <3>1, <2>0, Zenon DEF Framed
    <3>3. QED
      BY <3>1, <3>2, Zenon
  <2>4. QED
    BY <2>1, <2>2, <2>3 DEF Framed
<1>5. ASSUME NEW op \in Operations
      PROVE  Has(t, op) <=> Has(s, op) /\ op # Head(s)
  <2>1. ASSUME Has(t, op) PROVE Has(s, op) /\ op # Head(s)
    <3>1. PICK i \in DOMAIN t : t[i] = op
      BY <2>1 DEF Has
    <3>2. i + 1 \in DOMAIN s /\ s[i + 1] = op /\ 1 < i + 1
      BY <1>1, <3>1
    <3>3. QED
      BY <1>1, <3>2 DEF Program, Ordered, Before, Has
  <2>2. ASSUME Has(s, op), op # Head(s) PROVE Has(t, op)
    BY <1>1, <2>2 DEF Has
  <2>3. QED
    BY <2>1, <2>2
<1>6. QED
  BY <1>1, <1>2, <1>3, <1>4, <1>5 DEF Program, t

\* The first operation of a program and those behind it.
LEMMA FirstOfProgram ==
  ASSUME NEW s, Program(s), s # <<>>
  PROVE  /\ Has(s, Head(s))
         /\ \A op \in Operations : Has(s, op) => op = Head(s) \/ Before(Head(s), op)
         /\ \A op \in Operations : Needs(Head(s), op) => Has(s, op)
<1>1. /\ s \in Seq(Operations) /\ DOMAIN s = 1..Len(s) /\ Len(s) \in Nat /\ Len(s) > 0
      /\ 1 \in DOMAIN s /\ s[1] = Head(s)
  BY DEF Program
<1>2. \A i \in DOMAIN s : i = 1 \/ 1 < i
  BY <1>1
<1>3. QED
  BY <1>1, <1>2 DEF Program, Has, Ordered, Complete
------------------------------------------------------------------------------
(* The slots a program still has *)

LimiterOps == ReleaseOps \cup {"read_provider", "take_provider", "read_job", "take_job",
                               "give_back_provider", "cool_down"}

Returns == {"return_provider_slot", "return_job_slot"}

\* A call has the slot between the operation that takes it and the one that returns it;
\* the provider's is also returned by the rollback of a reservation.
HoldsCred(s) == Has(s, "release") \/ (Has(s, "call") /\ ~Has(s, "reserve"))

HoldsProv(s) ==
  \/ Has(s, "return_provider_slot") \/ Has(s, "give_back_provider")
  \/ Has(s, "call") /\ ~Has(s, "take_provider")

HoldsJob(s) == Has(s, "return_job_slot") \/ (Has(s, "call") /\ ~Has(s, "take_job"))

HoldsAll(s) == HoldsCred(s) /\ HoldsProv(s) /\ HoldsJob(s)

HoldsNone(s) == ~HoldsCred(s) /\ ~HoldsProv(s) /\ ~HoldsJob(s)

\* Without Redis the limiter's operations are behind a reservation that ends there.
Quiet(s) == \A op \in LimiterOps : Has(s, op) => Has(s, "reserve")

\* A program a call may be given.
Fresh(s) == Program(s) /\ (s # <<>> => Head(s) \notin Returns)

LEMMA FreshAttempt == Fresh(Attempt) /\ HoldsNone(Attempt) /\ Quiet(Attempt)
<1>1. Attempt \in Seq(Operations)
  BY OperationNames DEF Attempt, AttemptOps, Checks
<1>2. Ordered(Attempt)
  BY DEF Ordered, Before, Attempt, AttemptOps, Checks
<1>3. Complete(Attempt)
  BY DEF Complete, Needs, Attempt, AttemptOps, Checks
<1>4. Framed(Attempt)
  BY DEF Framed, Attempt, CircuitOps
<1>5. HoldsNone(Attempt)
  BY DEF HoldsNone, HoldsCred, HoldsProv, HoldsJob, Has, Attempt
<1>6. Quiet(Attempt)
  BY DEF Quiet, Has, Attempt
<1>7. Attempt # <<>> => Head(Attempt) \notin Returns
  BY DEF Attempt, Returns
<1>8. QED
  BY <1>1, <1>2, <1>3, <1>4, <1>5, <1>6, <1>7 DEF Fresh, Program

\* A program of one operation that needs none behind it, or of none.
LEMMA FreshShort ==
  /\ Fresh(<<>>) /\ HoldsNone(<<>>) /\ Quiet(<<>>)
  /\ Fresh(<<"retry">>) /\ HoldsNone(<<"retry">>) /\ Quiet(<<"retry">>)
  /\ Fresh(<<"call">>) /\ Quiet(<<"call">>)
<1>1. ASSUME NEW s \in {<<>>, <<"retry">>, <<"call">>}
      PROVE  Fresh(s) /\ Quiet(s)
  <2>1. s \in Seq(Operations)
    <3>1. CASE s = <<>>
      BY <3>1
    <3>2. CASE s = <<"retry">>
      BY <3>2, OperationNames
    <3>3. CASE s = <<"call">>
      BY <3>3, OperationNames DEF AttemptOps
    <3>4. QED
      BY <3>1, <3>2, <3>3
  <2>2. Ordered(s)
    BY DEF Ordered
  <2>3. Complete(s)
    BY DEF Complete, Needs, AttemptOps, Checks
  <2>4. Framed(s)
    BY DEF Framed
  <2>5. s # <<>> => Head(s) \notin Returns
    BY DEF Returns
  <2>6. Quiet(s)
    BY DEF Quiet, Has, LimiterOps, ReleaseOps
  <2>7. QED
    BY <2>1, <2>2, <2>3, <2>4, <2>5, <2>6 DEF Fresh, Program
<1>2. HoldsNone(<<>>) /\ HoldsNone(<<"retry">>)
  BY DEF HoldsNone, HoldsCred, HoldsProv, HoldsJob, Has
<1>3. QED
  BY <1>1, <1>2

\* The rollbacks of a reservation.
LEMMA FreshRollback ==
  /\ LET s == <<"release", "retry">> IN
       Fresh(s) /\ HoldsCred(s) /\ ~HoldsProv(s) /\ ~HoldsJob(s)
  /\ LET s == <<"release", "give_back_provider", "retry">> IN
       Fresh(s) /\ HoldsCred(s) /\ HoldsProv(s) /\ ~HoldsJob(s)
<1>1. ASSUME NEW s \in {<<"release", "retry">>, <<"release", "give_back_provider", "retry">>}
      PROVE  Fresh(s) /\ HoldsCred(s) /\ ~HoldsJob(s)
  <2>1. s \in Seq(Operations)
    <3>1. CASE s = <<"release", "retry">>
      BY <3>1, OperationNames DEF ReleaseOps
    <3>2. CASE s = <<"release", "give_back_provider", "retry">>
      BY <3>2, OperationNames DEF ReleaseOps
    <3>3. QED
      BY <3>1, <3>2
  <2>2. Ordered(s)
    BY DEF Ordered, Before, AttemptOps, Checks
  <2>3. Complete(s)
    BY DEF Complete, Needs, AttemptOps, Checks
  <2>4. Framed(s)
    BY DEF Framed, CircuitOps
  <2>5. HoldsCred(s) /\ ~HoldsJob(s)
    BY DEF HoldsCred, HoldsJob, Has
  <2>6. s # <<>> => Head(s) \notin Returns
    BY DEF Returns
  <2>7. QED
    BY <2>1, <2>2, <2>3, <2>4, <2>5, <2>6 DEF Fresh, Program
<1>2. /\ ~HoldsProv(<<"release", "retry">>)
      /\ HoldsProv(<<"release", "give_back_provider", "retry">>)
  BY DEF HoldsProv, Has
<1>3. QED
  BY <1>1, <1>2

\* With Redis whatever complete does after the answer returns every slot; without Redis
\* it does nothing of the limiter's.
LEMMA FreshAftermath ==
  ASSUME NEW outcome \in Outcomes, redis \in BOOLEAN
  PROVE  /\ Fresh(Aftermath(outcome))
         /\ redis => HoldsAll(Aftermath(outcome))
         /\ ~redis => Quiet(Aftermath(outcome))
<1> DEFINE s == Aftermath(outcome)
<1>0. s \in Seq(Operations)
  <2>1. /\ WithRedis(Release) \in Seq(Operations)
        /\ WithRedis(<<"cool_down">>) \in Seq(Operations)
    <3>1. Release \in Seq(Operations)
      BY OperationNames DEF Release, ReleaseOps
    <3>2. <<"cool_down">> \in Seq(Operations)
      BY OperationNames
    <3>3. QED
      BY <3>1, <3>2 DEF WithRedis
  <2>2. /\ <<"success_prov", "success_cred">> \in Seq(Operations)
        /\ <<"failure_cred">> \in Seq(Operations) /\ <<"failure_prov">> \in Seq(Operations)
        /\ <<"reject_cred">> \in Seq(Operations) /\ <<"retry">> \in Seq(Operations)
        /\ <<"failure_cred", "retry">> \in Seq(Operations)
    BY OperationNames DEF CircuitOps
  <2>3. QED
    BY <2>1, <2>2 DEF Aftermath, Outcomes
<1>1. CASE redis
  <2>1. \/ s = <<"success_prov", "success_cred", "release", "read_provider_slot",
                 "return_provider_slot", "read_job_slot", "return_job_slot">>
        \/ s = <<"release", "read_provider_slot", "return_provider_slot", "read_job_slot",
                 "return_job_slot">>
        \/ s = <<"failure_cred", "release", "read_provider_slot", "return_provider_slot",
                 "read_job_slot", "return_job_slot">>
        \/ s = <<"reject_cred", "release", "read_provider_slot", "return_provider_slot",
                 "read_job_slot", "return_job_slot">>
        \/ s = <<"release", "read_provider_slot", "return_provider_slot", "read_job_slot",
                 "return_job_slot", "cool_down", "failure_cred", "retry">>
        \/ s = <<"failure_prov", "release", "read_provider_slot", "return_provider_slot",
                 "read_job_slot", "return_job_slot", "retry">>
        \/ s = <<"failure_cred", "release", "read_provider_slot", "return_provider_slot",
                 "read_job_slot", "return_job_slot", "retry">>
    <3>1. \/ s = <<"success_prov", "success_cred">> \o Release
          \/ s = Release
          \/ s = <<"failure_cred">> \o Release
          \/ s = <<"reject_cred">> \o Release
          \/ s = Release \o <<"cool_down">> \o <<"failure_cred", "retry">>
          \/ s = <<"failure_prov">> \o Release \o <<"retry">>
          \/ s = <<"failure_cred">> \o Release \o <<"retry">>
      BY <1>1 DEF Aftermath, Outcomes, WithRedis
    <3> HIDE DEF s
    <3>2. QED
      BY <3>1 DEF Release
  <2> HIDE DEF s
  <2>2. Ordered(s)
    BY <2>1 DEF Ordered, Before, AttemptOps, Checks, CircuitOps
  <2>3. Complete(s)
    BY <2>1 DEF Complete, Needs, AttemptOps, Checks
  <2>4. Framed(s)
    BY <2>1 DEF Framed, CircuitOps
  <2>5. HoldsAll(s)
    BY <2>1 DEF HoldsAll, HoldsCred, HoldsProv, HoldsJob, Has
  <2>6. s # <<>> => Head(s) \notin Returns
    BY <2>1 DEF Returns
  <2>7. QED
    BY <1>0, <1>1, <2>2, <2>3, <2>4, <2>5, <2>6 DEF Fresh, Program, s
<1>2. CASE ~redis
  <2>1. s \in {<<>>, <<"success_prov", "success_cred">>, <<"failure_cred">>, <<"reject_cred">>,
               <<"failure_cred", "retry">>, <<"failure_prov", "retry">>}
    <3>1. \/ s = <<"success_prov", "success_cred">> \o <<>>
          \/ s = <<>>
          \/ s = <<"failure_cred">> \o <<>>
          \/ s = <<"reject_cred">> \o <<>>
          \/ s = <<>> \o <<>> \o <<"failure_cred", "retry">>
          \/ s = <<"failure_prov">> \o <<>> \o <<"retry">>
          \/ s = <<"failure_cred">> \o <<>> \o <<"retry">>
      BY <1>2 DEF Aftermath, Outcomes, WithRedis
    <3> HIDE DEF s
    <3>2. QED
      BY <3>1
  <2> HIDE DEF s
  <2>2. Ordered(s)
    BY <2>1 DEF Ordered, Before, AttemptOps, Checks, CircuitOps
  <2>3. Complete(s)
    BY <2>1 DEF Complete, Needs, AttemptOps, Checks
  <2>4. Framed(s)
    BY <2>1 DEF Framed, CircuitOps
  <2>5. Quiet(s)
    BY <2>1 DEF Quiet, Has, LimiterOps, ReleaseOps
  <2>6. s # <<>> => Head(s) \notin Returns
    BY <2>1 DEF Returns
  <2>7. QED
    BY <1>0, <1>2, <2>2, <2>3, <2>4, <2>5, <2>6 DEF Fresh, Program, s
<1>3. QED
  BY <1>1, <1>2

LEMMA FreshRelease == Fresh(Release) /\ HoldsAll(Release)
<1>1. Release \in Seq(Operations)
  BY OperationNames DEF Release, ReleaseOps
<1>2. Ordered(Release)
  BY DEF Ordered, Before, Release, AttemptOps, Checks
<1>3. Complete(Release)
  BY DEF Complete, Needs, Release, AttemptOps, Checks
<1>4. Framed(Release)
  BY DEF Framed, Release, CircuitOps
<1>5. HoldsAll(Release)
  BY DEF HoldsAll, HoldsCred, HoldsProv, HoldsJob, Has, Release
<1>6. Release # <<>> => Head(Release) \notin Returns
  BY DEF Release, Returns
<1>7. QED
  BY <1>1, <1>2, <1>3, <1>4, <1>5, <1>6 DEF Fresh, Program

\* What the first operation of a program does to its slots when it is done.
LEMMA SlotsOfRest ==
  ASSUME NEW s, Program(s), s # <<>>
  PROVE  /\ Head(s) \notin {"reserve", "release", "call"} => (HoldsCred(Tail(s)) <=> HoldsCred(s))
         /\ Head(s) = "reserve" => ~HoldsCred(s) /\ HoldsCred(Tail(s))
         /\ Head(s) = "release" => HoldsCred(s) /\ ~HoldsCred(Tail(s))
         /\ Head(s) \notin {"take_provider", "return_provider_slot", "give_back_provider", "call"} =>
              (HoldsProv(Tail(s)) <=> HoldsProv(s))
         /\ Head(s) = "take_provider" => ~HoldsProv(s) /\ HoldsProv(Tail(s))
         /\ Head(s) \in {"return_provider_slot", "give_back_provider"} => HoldsProv(s) /\ ~HoldsProv(Tail(s))
         /\ Head(s) \notin {"take_job", "return_job_slot", "call"} => (HoldsJob(Tail(s)) <=> HoldsJob(s))
         /\ Head(s) = "take_job" => ~HoldsJob(s) /\ HoldsJob(Tail(s))
         /\ Head(s) = "return_job_slot" => HoldsJob(s) /\ ~HoldsJob(Tail(s))
<1> DEFINE h == Head(s)
           t == Tail(s)
<1>1. /\ h \in Operations
      /\ \A op \in Operations : Has(t, op) <=> Has(s, op) /\ op # h
  BY RestOfProgram
<1>2. /\ Has(s, h)
      /\ \A op \in Operations : Has(s, op) => op = h \/ Before(h, op)
      /\ \A op \in Operations : Needs(h, op) => Has(s, op)
  BY FirstOfProgram
<1>3. {"reserve", "release", "call", "take_provider", "return_provider_slot", "give_back_provider",
       "take_job", "return_job_slot"} \subseteq Operations
  BY OperationNames DEF AttemptOps, ReleaseOps
<1> HIDE DEF h, t
<1>4. /\ h \notin {"reserve", "release", "call"} => (HoldsCred(t) <=> HoldsCred(s))
      /\ h = "reserve" => ~HoldsCred(s) /\ HoldsCred(t)
      /\ h = "release" => HoldsCred(s) /\ ~HoldsCred(t)
  BY <1>1, <1>2, <1>3 DEF HoldsCred, Before, Needs, AttemptOps, Checks
<1>5. /\ h \notin {"take_provider", "return_provider_slot", "give_back_provider", "call"} =>
           (HoldsProv(t) <=> HoldsProv(s))
      /\ h = "take_provider" => ~HoldsProv(s) /\ HoldsProv(t)
      /\ h \in {"return_provider_slot", "give_back_provider"} => HoldsProv(s) /\ ~HoldsProv(t)
  BY <1>1, <1>2, <1>3 DEF HoldsProv, Before, Needs, AttemptOps, Checks
<1>6. /\ h \notin {"take_job", "return_job_slot", "call"} => (HoldsJob(t) <=> HoldsJob(s))
      /\ h = "take_job" => ~HoldsJob(s) /\ HoldsJob(t)
      /\ h = "return_job_slot" => HoldsJob(s) /\ ~HoldsJob(t)
  BY <1>1, <1>2, <1>3 DEF HoldsJob, Before, Needs, AttemptOps, Checks
<1>7. QED
  BY <1>4, <1>5, <1>6 DEF h, t

\* The slots a call has, by the operation it comes to.
LEMMA SlotsByFirst ==
  ASSUME NEW s, Program(s), s # <<>>
  PROVE  /\ Head(s) \in Checks \cup {"reserve", "retry"} => HoldsNone(s)
         /\ Head(s) = "call" => HoldsAll(s)
         /\ Head(s) \in {"read_provider", "read_job"} => HoldsCred(s) /\ ~HoldsJob(s)
         /\ Head(s) = "read_provider" => ~HoldsProv(s)
         /\ Head(s) = "read_job" => HoldsProv(s)
         /\ Head(s) \in {"read_provider_slot", "return_provider_slot"} => HoldsProv(s)
         /\ Head(s) \in {"read_job_slot", "return_job_slot"} => HoldsJob(s)
         /\ Head(s) \in LimiterOps => ~Has(s, "reserve")
<1> DEFINE h == Head(s)
<1>1. /\ Has(s, h)
      /\ \A op \in Operations : Has(s, op) => op = h \/ Before(h, op)
      /\ \A op \in Operations : Needs(h, op) => Has(s, op)
  BY FirstOfProgram
<1>2. {"reserve", "release", "call", "take_provider", "return_provider_slot", "give_back_provider",
       "take_job", "return_job_slot"} \subseteq Operations
  BY OperationNames DEF AttemptOps, ReleaseOps
<1> HIDE DEF h
<1>3. h \in Checks \cup {"reserve", "retry"} => HoldsNone(s)
  BY <1>1, <1>2 DEF HoldsNone, HoldsCred, HoldsProv, HoldsJob, Before, Needs, AttemptOps, Checks
<1>4. h = "call" => HoldsAll(s)
  BY <1>1, <1>2 DEF HoldsAll, HoldsCred, HoldsProv, HoldsJob, Before, Needs, AttemptOps, Checks
<1>5. /\ h \in {"read_provider", "read_job"} => HoldsCred(s) /\ ~HoldsJob(s)
      /\ h = "read_provider" => ~HoldsProv(s)
      /\ h = "read_job" => HoldsProv(s)
  BY <1>1, <1>2 DEF HoldsCred, HoldsProv, HoldsJob, Before, Needs, AttemptOps, Checks
<1>6. /\ h \in {"read_provider_slot", "return_provider_slot"} => HoldsProv(s)
      /\ h \in {"read_job_slot", "return_job_slot"} => HoldsJob(s)
  BY <1>1, <1>2 DEF HoldsProv, HoldsJob, Needs
<1>7. h \in LimiterOps => ~Has(s, "reserve")
  BY <1>1, <1>2 DEF LimiterOps, ReleaseOps, Before, Checks
<1>8. QED
  BY <1>3, <1>4, <1>5, <1>6, <1>7 DEF h

\* A program never returns a slot whose counter it has not just read.
LEMMA ReadsFirst ==
  ASSUME NEW s, Program(s), s # <<>>, Tail(s) # <<>>
  PROVE  /\ Head(Tail(s)) = "return_provider_slot" => Head(s) = "read_provider_slot"
         /\ Head(Tail(s)) = "return_job_slot" => Head(s) = "read_job_slot"
<1>1. /\ s \in Seq(Operations) /\ 1 \in DOMAIN s /\ 2 \in DOMAIN s
      /\ Head(s) = s[1] /\ Head(Tail(s)) = s[2] /\ 2 = 1 + 1
  BY DEF Program
<1>2. Framed(s)
  BY DEF Program
<1>3. /\ s[2] = "return_provider_slot" => s[1] = "read_provider_slot"
      /\ s[2] = "return_job_slot" => s[1] = "read_job_slot"
  BY <1>1, <1>2 DEF Framed
<1>4. QED
  BY <1>1, <1>3

\* A call that is cancelled in the body of `try` has every slot; elsewhere it has some
\* only where it is exposed.
LEMMA SlotsWhenCancelled ==
  ASSUME NEW c \in Calls, Program(todo[c]), todo[c] # <<>>
  PROVE  /\ InTry(c) => HoldsAll(todo[c])
         /\ ~InTry(c) /\ ~Exposed(c) => HoldsNone(todo[c])
<1> DEFINE s == todo[c]
           h == Head(s)
<1>1. /\ s \in Seq(Operations) /\ DOMAIN s = 1..Len(s) /\ Len(s) \in Nat /\ Len(s) > 0
      /\ h = s[1] /\ h \in Operations
  BY DEF Program
<1>2. /\ Has(s, h)
      /\ \A op \in Operations : Has(s, op) => op = h \/ Before(h, op)
      /\ \A op \in Operations : Needs(h, op) => Has(s, op)
  BY FirstOfProgram
<1>3. {"reserve", "release", "call", "take_provider", "return_provider_slot", "give_back_provider",
       "take_job", "return_job_slot"} \subseteq Operations
  BY OperationNames DEF AttemptOps, ReleaseOps
<1>4. ASSUME InTry(c) PROVE HoldsAll(s)
  <2>1. CASE Doing(c, "call")
    BY <2>1, SlotsByFirst DEF Doing
  <2>2. ASSUME NEW i \in 2..Len(s), s[i] = "release" PROVE HoldsAll(s)
    <3>1. i \in DOMAIN s /\ i > 1
      BY <1>1
    <3>2. Has(s, "return_provider_slot") /\ Has(s, "return_job_slot") /\ Has(s, "release")
      BY <3>1, <2>2 DEF Program, Framed, Has
    <3>3. QED
      BY <3>2 DEF HoldsAll, HoldsCred, HoldsProv, HoldsJob
  <2>3. QED
    BY <1>4, <2>1, <2>2 DEF InTry
<1>5. ASSUME ~InTry(c), ~Exposed(c) PROVE HoldsNone(s)
  <2>1. h \in Checks \cup {"reserve", "retry"} \cup CircuitOps \cup {"cool_down"}
    <3>1. h \notin {"read_provider", "take_provider", "read_job", "take_job", "give_back_provider"} \cup ReleaseOps
      <4>1. /\ {Attempt[i] : i \in 4..7} = {"read_provider", "take_provider", "read_job", "take_job"}
        <5>1. /\ Attempt[4] = "read_provider" /\ Attempt[5] = "take_provider"
              /\ Attempt[6] = "read_job" /\ Attempt[7] = "take_job"
          BY DEF Attempt
        <5>2. \A i \in 4..7 : i = 4 \/ i = 5 \/ i = 6 \/ i = 7
          OBVIOUS
        <5>3. QED
          BY <5>1, <5>2
      <4>2. {Release[i] : i \in DOMAIN Release} = ReleaseOps
        BY ReleaseNames
      <4>3. QED
        BY <1>5, <4>1, <4>2 DEF Exposed
    <3>2. h # "call"
      BY <1>5 DEF InTry, Doing
    <3>3. QED
      BY <1>1, <3>1, <3>2, OperationNames DEF AttemptOps
  <2>2. CASE h \in Checks \cup {"reserve", "retry"}
    BY <2>2, SlotsByFirst
  <2>3. CASE h \in CircuitOps \cup {"cool_down"}
    <3>1. ~Has(s, "release")
      <4>1. ASSUME NEW i \in DOMAIN s, s[i] = "release" PROVE FALSE
        <5>1. i # 1
          BY <1>1, <2>3, <4>1 DEF CircuitOps
        <5>2. i \in 2..Len(s)
          BY <1>1, <5>1
        <5>3. QED
          BY <1>5, <4>1, <5>2 DEF InTry
      <4>2. QED
        BY <4>1 DEF Has
    <3>2. ASSUME NEW i \in DOMAIN s, s[i] \in Returns PROVE FALSE
      <4>1. 1 \in DOMAIN s /\ 1 < i
        BY <1>1, <2>3, <3>2 DEF CircuitOps, Returns
      <4>2. \E m \in DOMAIN s : s[m] = "release"
        BY <1>1, <2>3, <3>2, <4>1 DEF Program, Framed, Returns
      <4>3. QED
        BY <3>1, <4>2 DEF Has
    <3>3. ~Has(s, "call") /\ ~Has(s, "give_back_provider")
      BY <1>2, <1>3, <2>3 DEF Before, AttemptOps, Checks, CircuitOps
    <3>4. QED
      BY <3>1, <3>2, <3>3 DEF HoldsNone, HoldsCred, HoldsProv, HoldsJob, Has, Returns
  <2>4. QED
    BY <2>1, <2>2, <2>3
<1>6. QED
  BY <1>4, <1>5

\* A call in the body of `try` is about to return no slot.
LEMMA InTryFirst ==
  ASSUME NEW c \in Calls, Program(todo[c]), todo[c] # <<>>, InTry(c)
  PROVE  Head(todo[c]) \notin Returns
<1> DEFINE s == todo[c]
<1>1. /\ s \in Seq(Operations) /\ DOMAIN s = 1..Len(s) /\ Len(s) \in Nat /\ Len(s) > 0 /\ Head(s) = s[1]
  BY DEF Program
<1>2. CASE Doing(c, "call")
  BY <1>2 DEF Doing, Returns
<1>3. ASSUME NEW i \in 2..Len(s), s[i] = "release" PROVE s[1] \in CircuitOps
  <2>1. 1 \in DOMAIN s /\ i \in DOMAIN s /\ 1 < i
    BY <1>1
  <2>2. QED
    BY <1>3, <2>1 DEF Program, Ordered, Before
<1>4. QED
  BY <1>1, <1>2, <1>3 DEF InTry, CircuitOps, Returns
------------------------------------------------------------------------------
(* The inductive invariant *)

CredHolders == {c \in Calls : HoldsCred(todo[c])}

Holds(k, s) == IF k = "prov" THEN HoldsProv(s) ELSE HoldsJob(s)

\* A call will still give the slot back: on its return only if the counter it has read
\* was positive.
ArmedAt(k, s, n) == Holds(k, s) /\ (s # <<>> /\ Head(s) = Returning[k] => n > 0)

Armed(k) == {c \in Calls : ArmedAt(k, todo[c], count[c])}

\* A counter without TTL counts at least the calls that have a slot; when exact it counts
\* no other.
Covers(n, holders, exact) ==
  /\ Cardinality(holders) <= n
  /\ exact => n = Cardinality(holders)

\* A counter whose key may disappear lags behind the calls that will still decrement it by
\* the number of calls at most; when exact it is never ahead of them.
Tallies(n, armed, exact) ==
  /\ Cardinality(armed) - Cardinality(Calls) <= n
  /\ exact => n <= Cardinality(armed)

\* Whatever a call still has to do is well formed.
ProgramsInv ==
  /\ todo \in [Calls -> Seq(Operations)]
  /\ \A c \in Calls : Program(todo[c])

\* With Redis the counters go with the calls that have slots, exactly unless one left
\* while it was exposed.
SlotsInv ==
  redis =>
    /\ Covers(active, CredHolders, ~abandoned)
    /\ MaxConcurrent > 0 => active <= MaxConcurrent
    /\ \A k \in Scopes : Tallies(slots[k], Armed(k), ~abandoned)

\* Without Redis nothing is counted.
QuietInv ==
  ~redis =>
    /\ active = 0 /\ \A k \in Scopes : slots[k] = 0
    /\ \A c \in Calls : Quiet(todo[c])

Counters == active \in Nat /\ slots \in [Scopes -> Int]

Types ==
  /\ rpm \in Nat /\ tpm \in Nat /\ tpmExpires \in BOOLEAN /\ cooldown \in BOOLEAN
  /\ expires \in [Scopes -> BOOLEAN]
  /\ redis \in BOOLEAN /\ abandoned \in BOOLEAN
  /\ circuit \in [Keys -> Circuit]
  /\ count \in [Calls -> Int]
  /\ attempt \in [Calls -> 0..MaxRetries]
  /\ used \in [Calls -> {0} \cup Actual]

GatewayInv == Types /\ Counters /\ ProgramsInv /\ SlotsInv /\ QuietInv
------------------------------------------------------------------------------
(* Counters and the calls they count *)

\* What a call's next program does to a counter.
Accounted(n, m, before, after) ==
  \/ (before <=> after) /\ m = n
  \/ ~before /\ after /\ m = n + 1
  \/ before /\ ~after /\ m = n - 1

\* What it does to one whose key may disappear: it gives no slot back when it finds none.
Moves(n, m, before, after) ==
  \/ Accounted(n, m, before, after)
  \/ before /\ ~after /\ m = n /\ n <= 0

\* A counter goes with the set of calls it counts when one call enters or leaves it.
Follows(n, m, S, T, c) ==
  /\ T = S \cup {c} \/ T = S \ {c}
  /\ \/ (c \in S <=> c \in T) /\ m = n
     \/ c \notin S /\ c \in T /\ m = n + 1
     \/ c \in S /\ c \notin T /\ m = n - 1

LEMMA CountersFollow ==
  \A S, c, T, m : \A n \in Nat :
    IsFiniteSet(S) /\ Cardinality(S) <= n /\ Follows(n, m, S, T, c) =>
      m \in Nat /\ Cardinality(T) <= m /\ (n = Cardinality(S) => m = Cardinality(T))
<1> SUFFICES ASSUME NEW S, NEW c, NEW T, NEW m, NEW n \in Nat,
                    IsFiniteSet(S), Cardinality(S) <= n, Follows(n, m, S, T, c)
             PROVE  m \in Nat /\ Cardinality(T) <= m /\ (n = Cardinality(S) => m = Cardinality(T))
  BY Zenon
<1>1. Cardinality(S) \in Nat
  BY FS_CardinalityType
<1>2. CASE c \in S /\ c \in T
  <2>1. T = S /\ m = n
    BY <1>2 DEF Follows
  <2>2. QED
    BY <1>1, <2>1
<1>3. CASE c \notin S /\ c \notin T
  <2>1. T = S /\ m = n
    BY <1>3 DEF Follows
  <2>2. QED
    BY <1>1, <2>1
<1>4. CASE c \notin S /\ c \in T
  <2>1. T = S \cup {c} /\ m = n + 1
    BY <1>4 DEF Follows
  <2>2. Cardinality(T) = Cardinality(S) + 1
    BY <1>4, <2>1, FS_AddElement
  <2>3. QED
    BY <1>1, <2>1, <2>2
<1>5. CASE c \in S /\ c \notin T
  <2>1. T = S \ {c} /\ m = n - 1
    BY <1>5 DEF Follows
  <2>2. Cardinality(T) = Cardinality(S) - 1 /\ Cardinality(T) \in Nat
    <3>1. IsFiniteSet(T) /\ Cardinality(T) = Cardinality(S) - 1
      BY <1>5, <2>1, FS_RemoveElement
    <3>2. QED
      BY <3>1, FS_CardinalityType
  <2>3. QED
    BY <1>1, <2>1, <2>2
<1>6. QED
  BY <1>2, <1>3, <1>4, <1>5

\* Fewer calls with slots are still covered.
LEMMA CountersCover ==
  ASSUME NEW S, NEW T \in SUBSET S, NEW n \in Nat, NEW exact \in BOOLEAN,
         IsFiniteSet(S), Covers(n, S, exact)
  PROVE  Covers(n, T, FALSE)
<1>1. IsFiniteSet(T) /\ Cardinality(T) <= Cardinality(S)
  BY FS_Subset
<1>2. Cardinality(S) \in Nat /\ Cardinality(T) \in Nat
  BY <1>1, FS_CardinalityType
<1>3. QED
  BY <1>1, <1>2 DEF Covers

\* The same of a counter whose key may disappear.
LEMMA TalliesFollow ==
  ASSUME NEW S, IsFiniteSet(S), NEW c, NEW T, T = S \cup {c} \/ T = S \ {c},
         NEW n \in Int, NEW m \in Int, NEW exact \in BOOLEAN,
         Moves(n, m, c \in S, c \in T), Tallies(n, S, exact)
  PROVE  Tallies(m, T, exact)
<1>1. Cardinality(S) \in Nat /\ Cardinality(Calls) \in Nat
  BY CallsAssumption, FS_CardinalityType
<1>2. CASE c \in S <=> c \in T
  <2>1. T = S
    BY <1>2
  <2>2. m = n
    BY <1>2 DEF Moves, Accounted
  <2>3. QED
    BY <2>1, <2>2
<1>3. CASE c \notin S /\ c \in T
  <2>1. Cardinality(T) = Cardinality(S) + 1
    BY <1>3, FS_AddElement
  <2>2. m = n + 1
    BY <1>3 DEF Moves, Accounted
  <2>3. QED
    BY <1>1, <2>1, <2>2 DEF Tallies
<1>4. CASE c \in S /\ c \notin T
  <2>1. Cardinality(T) = Cardinality(S) - 1 /\ Cardinality(T) \in Nat
    <3>1. IsFiniteSet(T) /\ Cardinality(T) = Cardinality(S) - 1
      BY <1>4, FS_RemoveElement
    <3>2. QED
      BY <3>1, FS_CardinalityType
  <2>2. m = n - 1 \/ (m = n /\ n <= 0)
    BY <1>4 DEF Moves, Accounted
  <2>3. QED
    BY <1>1, <2>1, <2>2 DEF Tallies
<1>5. QED
  BY <1>2, <1>3, <1>4

\* A counter that counts a call with a slot is positive.
LEMMA CounterPositive ==
  ASSUME NEW S, NEW c \in S, NEW n \in Nat, IsFiniteSet(S), Cardinality(S) <= n
  PROVE  n > 0
<1>1. Cardinality(S) \in Nat /\ Cardinality(S) # 0
  BY FS_CardinalityType, FS_EmptySet
<1>2. QED
  BY <1>1

\* The calls with slots are finitely many, and no more than there are calls.
LEMMA HoldersFinite ==
  /\ IsFiniteSet(CredHolders)
  /\ \A k \in Scopes : /\ IsFiniteSet(Armed(k)) /\ Cardinality(Armed(k)) \in Nat
                       /\ Cardinality(Calls) \in Nat /\ Cardinality(Armed(k)) <= Cardinality(Calls)
<1>1. CredHolders \subseteq Calls /\ \A k \in Scopes : Armed(k) \subseteq Calls
  BY DEF CredHolders, Armed
<1>2. QED
  BY <1>1, CallsAssumption, FS_Subset, FS_CardinalityType

\* A program that is about to return a slot.
AtReturn(s) == s # <<>> /\ Head(s) \in Returns

\* The calls with slots after a step of one call.
LEMMA HoldersStep ==
  ASSUME ProgramsInv, NEW c \in Calls, NEW t, Program(t), Do(c, t)
  PROVE  /\ ProgramsInv'
         /\ \A d \in Calls : todo'[d] = IF d = c THEN t ELSE todo[d]
         /\ CredHolders' = IF HoldsCred(t) THEN CredHolders \cup {c} ELSE CredHolders \ {c}
         /\ (\A d \in Calls : d # c => count'[d] = count[d]) => \A k \in Scopes :
              Armed(k)' = IF ArmedAt(k, t, count'[c]) THEN Armed(k) \cup {c} ELSE Armed(k) \ {c}
<1>1. /\ t \in Seq(Operations)
      /\ todo' \in [Calls -> Seq(Operations)]
      /\ \A d \in Calls : todo'[d] = IF d = c THEN t ELSE todo[d]
  BY DEF ProgramsInv, Program, Do
<1>2. ProgramsInv'
  BY <1>1 DEF ProgramsInv
<1>3. CredHolders' = IF HoldsCred(t) THEN CredHolders \cup {c} ELSE CredHolders \ {c}
  BY <1>1 DEF CredHolders
<1>4. ASSUME \A d \in Calls : d # c => count'[d] = count[d], NEW k \in Scopes
      PROVE  Armed(k)' = IF ArmedAt(k, t, count'[c]) THEN Armed(k) \cup {c} ELSE Armed(k) \ {c}
  <2>1. Armed(k)' = {d \in Calls : ArmedAt(k, todo'[d], count'[d])}
    BY DEF Armed, ArmedAt, Returning
  <2>2. \A d \in Calls : ArmedAt(k, todo'[d], count'[d]) <=>
          IF d = c THEN ArmedAt(k, t, count'[c]) ELSE ArmedAt(k, todo[d], count[d])
    BY <1>1, <1>4
  <2>3. QED
    BY <2>1, <2>2 DEF Armed
<1>5. QED
  BY <1>1, <1>2, <1>3, <1>4
------------------------------------------------------------------------------
(* The steps of a call *)

\* A call that goes on to another program, with its slots accounted for.
LEMMA Advance ==
  ASSUME GatewayInv, NEW c \in Calls, NEW t, Program(t), Do(c, t), UNCHANGED <<redis, abandoned>>,
         \A d \in Calls : d # c => count'[d] = count[d],
         slots' \in [Scopes -> Int],
         redis => /\ Accounted(active, active', HoldsCred(todo[c]), HoldsCred(t))
                  /\ MaxConcurrent > 0 => active' <= MaxConcurrent
                  /\ \A k \in Scopes : Moves(slots[k], slots'[k], ArmedAt(k, todo[c], count[c]),
                                             ArmedAt(k, t, count'[c])),
         ~redis => UNCHANGED <<active, slots>> /\ Quiet(t)
  PROVE  Counters' /\ ProgramsInv' /\ SlotsInv' /\ QuietInv'
<1>1. /\ ProgramsInv'
      /\ \A d \in Calls : todo'[d] = IF d = c THEN t ELSE todo[d]
      /\ CredHolders' = IF HoldsCred(t) THEN CredHolders \cup {c} ELSE CredHolders \ {c}
  BY HoldersStep DEF GatewayInv
<1>2. CASE redis
  <2>1. /\ Covers(active, CredHolders, ~abandoned)
        /\ (~abandoned) \in BOOLEAN /\ active \in Nat /\ IsFiniteSet(CredHolders)
    BY <1>2, HoldersFinite DEF GatewayInv, SlotsInv, Counters, Types
  <2>2. active' \in Nat /\ Covers(active', CredHolders', ~abandoned)
    <3>1. /\ CredHolders' = CredHolders \cup {c} \/ CredHolders' = CredHolders \ {c}
          /\ c \in CredHolders' <=> HoldsCred(t)
          /\ c \in CredHolders <=> HoldsCred(todo[c])
      BY <1>1 DEF CredHolders
    <3>2. Follows(active, active', CredHolders, CredHolders', c)
      BY <1>2, <3>1 DEF Accounted, Follows
    <3>3. /\ Cardinality(CredHolders') <= active' /\ active' \in Nat
          /\ active = Cardinality(CredHolders) => active' = Cardinality(CredHolders')
      <4>1. Cardinality(CredHolders) <= active
        BY <2>1 DEF Covers
      <4>2. QED
        BY <2>1, <3>2, <4>1, CountersFollow
    <3>4. QED
      BY <2>1, <3>3 DEF Covers
  <2>3. ASSUME NEW k \in Scopes PROVE Tallies(slots'[k], Armed(k)', ~abandoned)
    <3>1. Armed(k)' = IF ArmedAt(k, t, count'[c]) THEN Armed(k) \cup {c} ELSE Armed(k) \ {c}
      BY HoldersStep DEF GatewayInv
    <3>2. /\ Armed(k)' = Armed(k) \cup {c} \/ Armed(k)' = Armed(k) \ {c}
          /\ c \in Armed(k)' <=> ArmedAt(k, t, count'[c])
          /\ c \in Armed(k) <=> ArmedAt(k, todo[c], count[c])
      BY <3>1 DEF Armed
    <3>3. Moves(slots[k], slots'[k], c \in Armed(k), c \in Armed(k)')
      BY <1>2, <3>2 DEF Moves, Accounted
    <3>4. /\ IsFiniteSet(Armed(k)) /\ slots[k] \in Int /\ slots'[k] \in Int
          /\ Tallies(slots[k], Armed(k), ~abandoned)
      BY <1>2, HoldersFinite DEF GatewayInv, SlotsInv, Counters
    <3> DEFINE S == Armed(k)
               T == Armed(k)'
    <3> HIDE DEF S, T
    <3>5. /\ IsFiniteSet(S) /\ (T = S \cup {c} \/ T = S \ {c})
          /\ Moves(slots[k], slots'[k], c \in S, c \in T) /\ Tallies(slots[k], S, ~abandoned)
      BY <3>2, <3>3, <3>4 DEF S, T
    <3>6. Tallies(slots'[k], T, ~abandoned)
      BY <2>1, <3>4, <3>5, TalliesFollow
    <3>7. QED
      BY <3>6 DEF T
  <2>4. SlotsInv'
    BY <1>2, <2>2, <2>3 DEF SlotsInv, Tallies
  <2>5. QED
    BY <1>1, <1>2, <2>2, <2>4 DEF Counters, QuietInv
<1>3. CASE ~redis
  <2>1. QuietInv' /\ Counters'
    BY <1>1, <1>3 DEF GatewayInv, QuietInv, Counters
  <2>2. QED
    BY <1>1, <1>3, <2>1 DEF SlotsInv
<1>4. QED
  BY <1>2, <1>3

\* One that keeps its slots, and the counters.
LEMMA KeepsSlots ==
  ASSUME GatewayInv, NEW c \in Calls, NEW t, Program(t), Do(c, t),
         UNCHANGED <<redis, abandoned, active, slots, count>>,
         ~AtReturn(todo[c]), ~AtReturn(t),
         redis => /\ HoldsCred(todo[c]) <=> HoldsCred(t)
                  /\ HoldsProv(todo[c]) <=> HoldsProv(t)
                  /\ HoldsJob(todo[c]) <=> HoldsJob(t),
         ~redis => Quiet(t)
  PROVE  Counters' /\ ProgramsInv' /\ SlotsInv' /\ QuietInv'
<1>1. redis => \A k \in Scopes : ArmedAt(k, todo[c], count[c]) <=> ArmedAt(k, t, count'[c])
  BY DEF ArmedAt, Holds, AtReturn, Returns, Returning, Scopes
<1>2. redis => \A k \in Scopes : Moves(slots[k], slots'[k], ArmedAt(k, todo[c], count[c]),
                                       ArmedAt(k, t, count'[c]))
  BY <1>1 DEF Moves, Accounted
<1>3. redis => /\ Accounted(active, active', HoldsCred(todo[c]), HoldsCred(t))
               /\ MaxConcurrent > 0 => active' <= MaxConcurrent
  BY DEF Accounted, GatewayInv, SlotsInv
<1>4. slots' \in [Scopes -> Int]
  BY DEF GatewayInv, Counters
<1>5. QED
  BY <1>2, <1>3, <1>4, Advance

\* A call goes on with the rest of its program.
LEMMA RestStep ==
  ASSUME GatewayInv, NEW c \in Calls, todo[c] # <<>>
  PROVE  /\ Program(todo[c]) /\ Program(Tail(todo[c]))
         /\ Head(todo[c]) \notin {"read_provider_slot", "read_job_slot"} => ~AtReturn(Tail(todo[c]))
         /\ ~redis => Head(todo[c]) \notin LimiterOps
         /\ ~redis /\ Head(todo[c]) # "reserve" => Quiet(Tail(todo[c]))
<1> DEFINE s == todo[c]
<1>1. Program(s)
  BY DEF GatewayInv, ProgramsInv
<1>2. /\ Program(Tail(s)) /\ Head(s) \in Operations
      /\ \A op \in Operations : Has(Tail(s), op) <=> Has(s, op) /\ op # Head(s)
  BY <1>1, RestOfProgram
<1>3. Head(s) \notin {"read_provider_slot", "read_job_slot"} => ~AtReturn(Tail(s))
  BY <1>1, ReadsFirst DEF AtReturn, Returns
<1>4. ~redis => Quiet(s)
  BY DEF GatewayInv, QuietInv
<1>5. Head(s) \in LimiterOps => ~Has(s, "reserve")
  BY <1>1, SlotsByFirst
<1>6. Has(s, Head(s))
  BY <1>1, FirstOfProgram
<1>7. LimiterOps \subseteq Operations /\ "reserve" \in Operations
  BY OperationNames DEF LimiterOps, AttemptOps
<1> HIDE DEF s
<1>8. ~redis => Head(s) \notin LimiterOps
  BY <1>4, <1>5, <1>6 DEF Quiet
<1>9. ~redis /\ Head(s) # "reserve" => Quiet(Tail(s))
  BY <1>2, <1>4, <1>7 DEF Quiet
<1>10. QED
  BY <1>1, <1>2, <1>3, <1>8, <1>9 DEF s

LEMMA BeginStep == ASSUME GatewayInv, NEW c \in Calls, Begin(c) PROVE GatewayInv'
<1>1. todo[c] = <<>> /\ Do(c, Attempt)
  BY DEF Begin
<1>2. Types'
  BY RetriesAssumption DEF GatewayInv, Types, Begin, limiterVars, credKeys, slotKeys
<1>3. Counters' /\ ProgramsInv' /\ SlotsInv' /\ QuietInv'
  <2>1. UNCHANGED <<redis, abandoned, active, slots, count>>
    BY DEF Begin, limiterVars, credKeys, slotKeys
  <2>2. QED
    BY <1>1, <2>1, KeepsSlots, FreshAttempt, FreshShort DEF Fresh, HoldsNone, AtReturn
<1>4. QED
  BY <1>2, <1>3 DEF GatewayInv

LEMMA RetryStep == ASSUME GatewayInv, NEW c \in Calls, Retry(c) PROVE GatewayInv'
<1>1. PICK t \in {Attempt, <<>>} : Do(c, t)
  BY DEF Retry
<1>2. Types'
  <2>1. attempt' \in [Calls -> 0..MaxRetries]
    <3>1. CASE attempt[c] < MaxRetries
      <4>1. attempt[c] + 1 \in 0..MaxRetries /\ attempt' = [attempt EXCEPT ![c] = attempt[c] + 1]
        BY <3>1, RetriesAssumption DEF GatewayInv, Types, Retry
      <4>2. QED
        BY <4>1 DEF GatewayInv, Types
    <3>2. CASE ~(attempt[c] < MaxRetries)
      BY <3>2 DEF GatewayInv, Types, Retry
    <3>3. QED
      BY <3>1, <3>2
  <2>2. QED
    BY <2>1 DEF GatewayInv, Types, Retry, limiterVars, credKeys, slotKeys
<1>3. todo[c] # <<>> /\ Head(todo[c]) = "retry"
  BY DEF Retry, Doing
<1>4. Fresh(t) /\ HoldsNone(t) /\ Quiet(t) /\ HoldsNone(todo[c])
  BY <1>1, <1>3, FreshAttempt, FreshShort, RestStep, SlotsByFirst
<1>5. Counters' /\ ProgramsInv' /\ SlotsInv' /\ QuietInv'
  <2>1. UNCHANGED <<redis, abandoned, active, slots, count>>
    BY DEF Retry, limiterVars, credKeys, slotKeys
  <2>2. QED
    BY <1>1, <1>3, <1>4, <2>1, KeepsSlots DEF Fresh, HoldsNone, AtReturn, Returns
<1>6. QED
  BY <1>2, <1>5 DEF GatewayInv

\* A call whose operation is done, where that is nothing to its slots or the counters.
LEMMA RestKeeps ==
  ASSUME GatewayInv, NEW c \in Calls, todo[c] # <<>>, Proceed(c),
         Head(todo[c]) \notin {"reserve", "release", "call", "take_provider", "read_provider_slot",
                              "return_provider_slot", "give_back_provider", "take_job",
                              "read_job_slot", "return_job_slot"},
         UNCHANGED <<redis, abandoned, active, slots, count>>
  PROVE  Counters' /\ ProgramsInv' /\ SlotsInv' /\ QuietInv'
<1>1. /\ Program(todo[c]) /\ Program(Tail(todo[c])) /\ (~redis => Quiet(Tail(todo[c])))
      /\ ~AtReturn(todo[c]) /\ ~AtReturn(Tail(todo[c]))
  BY RestStep DEF AtReturn, Returns
<1>2. /\ HoldsCred(todo[c]) <=> HoldsCred(Tail(todo[c]))
      /\ HoldsProv(todo[c]) <=> HoldsProv(Tail(todo[c]))
      /\ HoldsJob(todo[c]) <=> HoldsJob(Tail(todo[c]))
  BY <1>1, SlotsOfRest
<1>3. Do(c, Tail(todo[c]))
  BY DEF Proceed
<1>4. QED
  BY <1>1, <1>2, <1>3, KeepsSlots

\* CircuitBreaker keeps the circuits well formed.
LEMMA CircuitTypes ==
  ASSUME NEW z \in Circuit
  PROVE  /\ HalfOpen(z) \in Circuit /\ [z EXCEPT !.aged = TRUE] \in Circuit
         /\ AfterSuccess(z) \in Circuit
         /\ AfterFailure(z, TRUE) \in Circuit /\ AfterFailure(z, FALSE) \in Circuit
<1>1. HalfOpen(z) \in Circuit /\ [z EXCEPT !.aged = TRUE] \in Circuit
  <2>1. 0 \in 0..SuccessThreshold
    BY ThresholdsAssumption
  <2>2. HalfOpen(z) \in Circuit
    BY <2>1 DEF Circuit, HalfOpen
  <2>3. [z EXCEPT !.aged = TRUE] \in Circuit
    BY DEF Circuit
  <2>4. QED
    BY <2>2, <2>3
<1>2. Closed \in Circuit
  BY ThresholdsAssumption DEF Circuit, Closed
<1>3. AfterSuccess(z) \in Circuit
  <2>1. z.successes \in 0..SuccessThreshold /\ z.failures \in 0..FailureThreshold
    BY DEF Circuit
  <2>2. ~(z.successes + 1 >= SuccessThreshold) => [z EXCEPT !.successes = z.successes + 1] \in Circuit
    <3>1. ~(z.successes + 1 >= SuccessThreshold) => z.successes + 1 \in 0..SuccessThreshold
      BY <2>1, ThresholdsAssumption
    <3>2. QED
      BY <3>1 DEF Circuit
  <2>3. [z EXCEPT !.failures = 0] \in Circuit
    BY ThresholdsAssumption DEF Circuit
  <2>4. QED
    BY <1>2, <2>2, <2>3 DEF AfterSuccess
<1>4. ASSUME NEW f \in 0..FailureThreshold
      PROVE  [z EXCEPT !.failures = f, !.state = "open", !.aged = FALSE] \in Circuit
             /\ [z EXCEPT !.failures = f] \in Circuit
  BY DEF Circuit
<1>5. (IF z.failures < FailureThreshold THEN z.failures + 1 ELSE z.failures) \in 0..FailureThreshold
  <2>1. z.failures \in 0..FailureThreshold
    BY DEF Circuit
  <2>2. QED
    BY <2>1, ThresholdsAssumption
<1>6. AfterFailure(z, TRUE) \in Circuit /\ AfterFailure(z, FALSE) \in Circuit
  BY <1>4, <1>5 DEF AfterFailure
<1>7. QED
  BY <1>1, <1>3, <1>6

LEMMA CheckStep == ASSUME GatewayInv, NEW c \in Calls, NEW k \in Keys, Check(c, k) PROVE GatewayInv'
<1>1. /\ todo[c] # <<>> /\ Head(todo[c]) \in Checks
      /\ UNCHANGED <<redis, abandoned, count, active, slots>>
  BY DEF Check, Doing, Checking, Keys, Checks, limiterVars, credKeys, slotKeys
<1>2. Types'
  <2>1. HalfOpen(circuit[k]) \in Circuit
    BY CircuitTypes DEF GatewayInv, Types
  <2>2. circuit' \in [Keys -> Circuit]
    BY <2>1 DEF GatewayInv, Types, Check
  <2>3. QED
    BY <2>2 DEF GatewayInv, Types, Check, limiterVars, credKeys, slotKeys
<1>3. CASE Do(c, <<>>)
  <2>1. HoldsNone(todo[c])
    BY <1>1, RestStep, SlotsByFirst
  <2>2. Counters' /\ ProgramsInv' /\ SlotsInv' /\ QuietInv'
    BY <1>1, <1>3, <2>1, KeepsSlots, FreshShort DEF Fresh, HoldsNone, AtReturn, Returns, Checks
  <2>3. QED
    BY <1>2, <2>2 DEF GatewayInv
<1>4. CASE Proceed(c)
  <2>1. Counters' /\ ProgramsInv' /\ SlotsInv' /\ QuietInv'
    BY <1>1, <1>4, RestKeeps DEF Checks
  <2>2. QED
    BY <1>2, <2>1 DEF GatewayInv
<1>5. QED
  BY <1>3, <1>4 DEF Check

LEMMA UpdateStep ==
  ASSUME GatewayInv, NEW c \in Calls, NEW k \in Keys, NEW op \in {Success, Failure, Rejection},
         NEW new \in Circuit, Update(c, op, k, new)
  PROVE  GatewayInv'
<1>1. /\ todo[c] # <<>> /\ Head(todo[c]) \in CircuitOps /\ Proceed(c)
      /\ UNCHANGED <<redis, abandoned, count, active, slots>>
  BY DEF Update, Doing, Success, Failure, Rejection, Keys, CircuitOps, limiterVars, credKeys, slotKeys
<1>2. Types'
  BY DEF GatewayInv, Types, Update, limiterVars, credKeys, slotKeys
<1>3. Counters' /\ ProgramsInv' /\ SlotsInv' /\ QuietInv'
  BY <1>1, RestKeeps DEF CircuitOps
<1>4. QED
  BY <1>2, <1>3 DEF GatewayInv

LEMMA RecordStep ==
  ASSUME GatewayInv, NEW c \in Calls, NEW k \in Keys,
         RecordSuccess(c, k) \/ RecordFailure(c, k) \/ RecordRejection(c, k)
  PROVE  GatewayInv'
<1>1. /\ AfterSuccess(circuit[k]) \in Circuit
      /\ AfterFailure(circuit[k], FALSE) \in Circuit /\ AfterFailure(circuit[k], TRUE) \in Circuit
  BY CircuitTypes DEF GatewayInv, Types
<1>2. QED
  BY <1>1, UpdateStep DEF RecordSuccess, RecordFailure, RecordRejection

LEMMA CoolDownStep == ASSUME GatewayInv, NEW c \in Calls, CoolDown(c) PROVE GatewayInv'
<1>1. /\ todo[c] # <<>> /\ Head(todo[c]) = "cool_down" /\ Proceed(c)
      /\ UNCHANGED <<redis, abandoned, count, active, slots>>
  BY DEF CoolDown, Doing, credKeys, slotKeys
<1>2. Types'
  BY DEF GatewayInv, Types, CoolDown, credKeys, slotKeys
<1>3. Counters' /\ ProgramsInv' /\ SlotsInv' /\ QuietInv'
  BY <1>1, RestKeeps
<1>4. QED
  BY <1>2, <1>3 DEF GatewayInv

LEMMA ReserveStep == ASSUME GatewayInv, NEW c \in Calls, ReserveCredential(c) PROVE GatewayInv'
<1>1. /\ todo[c] # <<>> /\ Head(todo[c]) = "reserve"
      /\ UNCHANGED <<redis, abandoned, circuit, count, attempt, used>>
  BY DEF ReserveCredential, Doing
<1>2. Types'
  <2>1. rpm' \in Nat /\ tpm' \in Nat /\ tpmExpires' \in BOOLEAN /\ cooldown' \in BOOLEAN
        /\ UNCHANGED expires
    BY DEF GatewayInv, Types, ReserveCredential, Reserve, limiterVars, credKeys, slotKeys, Estimate
  <2>2. QED
    BY <1>1, <2>1 DEF GatewayInv, Types
<1>3. Program(todo[c]) /\ Program(Tail(todo[c])) /\ HoldsNone(todo[c])
  BY <1>1, RestStep, SlotsByFirst
<1>4. CASE ~redis
  <2>1. Do(c, <<"call">>) /\ UNCHANGED <<active, slots>>
    BY <1>4 DEF ReserveCredential, limiterVars, credKeys, slotKeys
  <2>2. Counters' /\ ProgramsInv' /\ SlotsInv' /\ QuietInv'
    BY <1>1, <1>4, <2>1, KeepsSlots, FreshShort DEF Fresh, AtReturn, Returns
  <2>3. QED
    BY <1>2, <2>2 DEF GatewayInv
<1>5. CASE redis /\ CredentialBlocked
  <2>1. Do(c, <<"retry">>) /\ UNCHANGED <<active, slots>>
    BY <1>5 DEF ReserveCredential, limiterVars, credKeys, slotKeys
  <2>2. Counters' /\ ProgramsInv' /\ SlotsInv' /\ QuietInv'
    BY <1>1, <1>3, <1>5, <2>1, KeepsSlots, FreshShort DEF Fresh, HoldsNone, AtReturn, Returns
  <2>3. QED
    BY <1>2, <2>2 DEF GatewayInv
<1>6. CASE redis /\ ~CredentialBlocked
  <2>1. Proceed(c) /\ active' = active + 1 /\ UNCHANGED slots
    BY <1>6 DEF ReserveCredential, Reserve, slotKeys
  <2>2. MaxConcurrent > 0 => active' <= MaxConcurrent
    BY <1>6, <2>1, LimitsAssumption DEF CredentialBlocked, AtLimit, GatewayInv, Counters
  <2>3. Accounted(active, active', HoldsCred(todo[c]), HoldsCred(Tail(todo[c])))
    BY <1>1, <1>3, <2>1, SlotsOfRest DEF Accounted
  <2>4. ASSUME NEW k \in Scopes
        PROVE  Moves(slots[k], slots'[k], ArmedAt(k, todo[c], count[c]), ArmedAt(k, Tail(todo[c]), count'[c]))
    <3>1. ~AtReturn(Tail(todo[c])) /\ (Holds(k, todo[c]) <=> Holds(k, Tail(todo[c])))
      BY <1>1, <1>3, RestStep, SlotsOfRest DEF Holds
    <3>2. ArmedAt(k, todo[c], count[c]) <=> ArmedAt(k, Tail(todo[c]), count'[c])
      BY <1>1, <3>1 DEF ArmedAt, AtReturn, Returns, Returning, Scopes
    <3>3. QED
      BY <2>1, <3>2 DEF Moves, Accounted
  <2>5. slots' \in [Scopes -> Int] /\ \A d \in Calls : d # c => count'[d] = count[d]
    BY <1>1, <2>1 DEF GatewayInv, Counters
  <2>6. Counters' /\ ProgramsInv' /\ SlotsInv' /\ QuietInv'
    BY <1>1, <1>3, <1>6, <2>1, <2>2, <2>3, <2>4, <2>5, Advance DEF Proceed
  <2>7. QED
    BY <1>2, <2>6 DEF GatewayInv
<1>7. QED
  BY <1>4, <1>5, <1>6

\* Only with Redis is an operation of the limiter reached.
LEMMA WithRedisOnly ==
  ASSUME GatewayInv, NEW c \in Calls, todo[c] # <<>>, Head(todo[c]) \in LimiterOps
  PROVE  redis
BY RestStep

\* The programs of a rollback.
LEMMA RollbackPrograms ==
  /\ \A s : s = <<"release">> \o <<"retry">> => s = <<"release", "retry">>
  /\ \A s : s = <<"release", "give_back_provider">> \o <<"retry">> =>
           s = <<"release", "give_back_provider", "retry">>
OBVIOUS

LEMMA ReadCounterStep ==
  ASSUME GatewayInv, NEW c \in Calls, ReadProvider(c) \/ ReadJob(c)
  PROVE  GatewayInv'
<1>1. /\ todo[c] # <<>> /\ Head(todo[c]) \in {"read_provider", "read_job"}
      /\ UNCHANGED <<limiterVars, redis, circuit, count, attempt, used, abandoned>>
  BY DEF ReadProvider, ReadJob, ReadCounter, Doing
<1>2. UNCHANGED <<active, slots>>
  BY <1>1 DEF limiterVars, credKeys, slotKeys
<1>3. Types'
  BY <1>1 DEF GatewayInv, Types, limiterVars, credKeys, slotKeys
<1>4. redis /\ Program(todo[c])
  BY <1>1, WithRedisOnly, RestStep DEF LimiterOps
<1>5. PICK t : /\ Do(c, t)
              /\ \/ t = Tail(todo[c])
                 \/ Head(todo[c]) = "read_provider" /\ t = <<"release", "retry">>
                 \/ Head(todo[c]) = "read_job" /\ t = <<"release", "give_back_provider", "retry">>
  <2>1. /\ <<"release">> \o <<"retry">> = <<"release", "retry">>
        /\ <<"release", "give_back_provider">> \o <<"retry">> = <<"release", "give_back_provider", "retry">>
    BY RollbackPrograms, Zenon
  <2>2. CASE ReadProvider(c)
    BY <2>1, <2>2 DEF ReadProvider, ReadCounter, Doing
  <2>3. CASE ReadJob(c)
    BY <2>1, <2>3 DEF ReadJob, ReadCounter, Doing
  <2>4. QED
    BY <2>2, <2>3
<1>6. CASE t = Tail(todo[c])
  <2>1. Proceed(c)
    BY <1>5, <1>6 DEF Proceed
  <2>2. Counters' /\ ProgramsInv' /\ SlotsInv' /\ QuietInv'
    BY <1>1, <1>2, <2>1, RestKeeps
  <2>3. QED
    BY <1>3, <2>2 DEF GatewayInv
<1>7. CASE t # Tail(todo[c])
  <2>1. /\ Fresh(t)
        /\ HoldsCred(todo[c]) <=> HoldsCred(t)
        /\ HoldsProv(todo[c]) <=> HoldsProv(t)
        /\ HoldsJob(todo[c]) <=> HoldsJob(t)
    BY <1>1, <1>4, <1>5, <1>7, SlotsByFirst, FreshRollback
  <2>2. Counters' /\ ProgramsInv' /\ SlotsInv' /\ QuietInv'
    BY <1>1, <1>2, <1>4, <1>5, <2>1, KeepsSlots DEF Fresh, AtReturn, Returns
  <2>3. QED
    BY <1>3, <2>2 DEF GatewayInv
<1>8. QED
  BY <1>6, <1>7

\* A call whose operation takes a slot, releases the credential's or gives the provider's
\* back.
LEMMA RestMoves ==
  ASSUME GatewayInv, NEW c \in Calls, todo[c] # <<>>, Proceed(c), UNCHANGED <<redis, abandoned, count>>,
         Head(todo[c]) \in {"release", "take_provider", "take_job", "give_back_provider"},
         active' = IF Head(todo[c]) = "release" THEN active - 1 ELSE active,
         slots' \in [Scopes -> Int],
         slots'["prov"] = IF Head(todo[c]) = "take_provider" THEN slots["prov"] + 1
                          ELSE IF Head(todo[c]) = "give_back_provider" THEN slots["prov"] - 1
                          ELSE slots["prov"],
         slots'["job"] = IF Head(todo[c]) = "take_job" THEN slots["job"] + 1 ELSE slots["job"]
  PROVE  Counters' /\ ProgramsInv' /\ SlotsInv' /\ QuietInv'
<1> DEFINE s == todo[c]
           t == Tail(todo[c])
<1>1. redis /\ Program(s) /\ Program(t) /\ Do(c, t) /\ ~AtReturn(s) /\ ~AtReturn(t)
  BY WithRedisOnly, RestStep DEF Proceed, LimiterOps, ReleaseOps, AtReturn, Returns
<1>2. /\ Accounted(active, active', HoldsCred(s), HoldsCred(t))
      /\ Accounted(slots["prov"], slots'["prov"], HoldsProv(s), HoldsProv(t))
      /\ Accounted(slots["job"], slots'["job"], HoldsJob(s), HoldsJob(t))
  BY <1>1, SlotsOfRest DEF Accounted
<1>3. ASSUME NEW k \in Scopes
      PROVE  Moves(slots[k], slots'[k], ArmedAt(k, s, count[c]), ArmedAt(k, t, count'[c]))
  <2>1. /\ ArmedAt(k, s, count[c]) <=> Holds(k, s)
        /\ ArmedAt(k, t, count'[c]) <=> Holds(k, t)
    BY <1>1 DEF ArmedAt, AtReturn, Returns, Returning, Scopes
  <2>2. CASE k = "prov"
    BY <1>2, <2>1, <2>2 DEF Holds, Moves, Accounted
  <2>3. CASE k = "job"
    BY <1>2, <2>1, <2>3 DEF Holds, Moves, Accounted
  <2>4. QED
    BY <2>2, <2>3 DEF Scopes
<1>4. MaxConcurrent > 0 => active' <= MaxConcurrent
  BY <1>1, LimitsAssumption DEF GatewayInv, SlotsInv, Counters
<1>5. QED
  BY <1>1, <1>2, <1>3, <1>4, Advance

LEMMA TakeStep ==
  ASSUME GatewayInv, NEW c \in Calls, GiveBack(c) \/ \E k \in Scopes : TakeSlot(c, k)
  PROVE  GatewayInv'
<1>1. /\ todo[c] # <<>> /\ Proceed(c)
      /\ Head(todo[c]) \in {"take_provider", "take_job", "give_back_provider"}
      /\ UNCHANGED <<credKeys, cooldown, redis, circuit, count, attempt, used, abandoned>>
  BY DEF GiveBack, TakeSlot, Taking, Doing, Scopes
<1>2. slots \in [Scopes -> Int] /\ expires \in [Scopes -> BOOLEAN]
  BY DEF GatewayInv, Types, Counters
<1>3. /\ slots' \in [Scopes -> Int] /\ expires' \in [Scopes -> BOOLEAN]
      /\ slots'["prov"] = IF Head(todo[c]) = "take_provider" THEN slots["prov"] + 1
                          ELSE IF Head(todo[c]) = "give_back_provider" THEN slots["prov"] - 1
                          ELSE slots["prov"]
      /\ slots'["job"] = IF Head(todo[c]) = "take_job" THEN slots["job"] + 1 ELSE slots["job"]
  <2>1. CASE GiveBack(c)
    BY <1>2, <2>1 DEF GiveBack, Doing, Scopes
  <2>2. CASE TakeSlot(c, "prov")
    BY <1>2, <2>2 DEF TakeSlot, Taking, Doing, Scopes
  <2>3. CASE TakeSlot(c, "job")
    BY <1>2, <2>3 DEF TakeSlot, Taking, Doing, Scopes
  <2>4. QED
    BY <2>1, <2>2, <2>3 DEF Scopes
<1>4. Types'
  BY <1>1, <1>3 DEF GatewayInv, Types, credKeys
<1>5. Counters' /\ ProgramsInv' /\ SlotsInv' /\ QuietInv'
  <2>1. active' = active
    BY <1>1 DEF credKeys
  <2>2. QED
    BY <1>1, <1>3, <2>1, RestMoves
<1>6. QED
  BY <1>4, <1>5 DEF GatewayInv

LEMMA AnswerStep == ASSUME GatewayInv, NEW c \in Calls, Answer(c) PROVE GatewayInv'
<1>1. /\ todo[c] # <<>> /\ Head(todo[c]) = "call"
      /\ UNCHANGED <<limiterVars, redis, circuit, count, attempt, abandoned>>
  BY DEF Answer, Doing
<1>2. PICK outcome \in Outcomes :
        /\ Do(c, Aftermath(outcome))
        /\ \E n \in IF redis /\ outcome = "ok" THEN Actual ELSE {0} : used' = [used EXCEPT ![c] = n]
  BY DEF Answer
<1>3. Types'
  <2>1. PICK n \in {0} \cup Actual : used' = [used EXCEPT ![c] = n]
    BY <1>2
  <2>2. used' \in [Calls -> {0} \cup Actual]
    BY <2>1 DEF GatewayInv, Types
  <2>3. QED
    BY <1>1, <2>2 DEF GatewayInv, Types, limiterVars, credKeys, slotKeys
<1>4. UNCHANGED <<active, slots>>
  BY <1>1 DEF limiterVars, credKeys, slotKeys
<1>5. /\ Fresh(Aftermath(outcome))
      /\ redis => HoldsAll(Aftermath(outcome))
      /\ ~redis => Quiet(Aftermath(outcome))
  BY FreshAftermath DEF GatewayInv, Types
<1>6. HoldsAll(todo[c])
  BY <1>1, RestStep, SlotsByFirst
<1>7. Counters' /\ ProgramsInv' /\ SlotsInv' /\ QuietInv'
  BY <1>1, <1>2, <1>4, <1>5, <1>6, KeepsSlots DEF Fresh, HoldsAll, AtReturn, Returns
<1>8. QED
  BY <1>3, <1>7 DEF GatewayInv

LEMMA LeavesStep ==
  ASSUME GatewayInv, NEW c \in Calls, NEW spent \in {0} \cup Actual, Leaves(c, spent)
  PROVE  GatewayInv'
<1>1. todo[c] # <<>> /\ UNCHANGED <<limiterVars, redis, circuit, count, attempt>>
  BY DEF Leaves
<1>2. UNCHANGED <<active, slots>>
  BY <1>1 DEF limiterVars, credKeys, slotKeys
<1>3. Program(todo[c])
  BY <1>1, RestStep
<1>4. Types'
  <2>1. abandoned' \in BOOLEAN
    BY DEF GatewayInv, Types, Leaves, Exposed
  <2>2. used' \in [Calls -> {0} \cup Actual]
    BY DEF GatewayInv, Types, Leaves
  <2>3. QED
    BY <1>1, <2>1, <2>2 DEF GatewayInv, Types, limiterVars, credKeys, slotKeys
<1>5. CASE redis /\ InTry(c)
  <2>1. Do(c, Release) /\ UNCHANGED abandoned
    BY <1>5 DEF Leaves
  <2>2. HoldsAll(todo[c])
    BY <1>1, <1>3, <1>5, SlotsWhenCancelled
  <2>3. ~AtReturn(todo[c])
    BY <1>1, <1>3, <1>5, InTryFirst DEF AtReturn
  <2>4. Counters' /\ ProgramsInv' /\ SlotsInv' /\ QuietInv'
    BY <1>1, <1>2, <1>5, <2>1, <2>2, <2>3, FreshRelease, KeepsSlots DEF Fresh, HoldsAll, AtReturn
  <2>5. QED
    BY <1>4, <2>4 DEF GatewayInv
<1>6. CASE ~(redis /\ InTry(c))
  <2>1. Do(c, <<>>) /\ abandoned' = (abandoned \/ Exposed(c))
    BY <1>6 DEF Leaves
  <2>2. /\ ProgramsInv'
        /\ \A d \in Calls : todo'[d] = IF d = c THEN <<>> ELSE todo[d]
        /\ CredHolders' = CredHolders \ {c}
        /\ \A k \in Scopes : Armed(k)' = Armed(k) \ {c}
    <3>1. \A k \in Scopes : ~ArmedAt(k, <<>>, count'[c])
      BY FreshShort DEF ArmedAt, Holds, HoldsNone
    <3>2. QED
      BY <1>1, <2>1, <3>1, FreshShort, HoldersStep DEF GatewayInv, Fresh, HoldsNone
  <2>3. CASE ~redis
    <3>1. QuietInv'
      BY <1>1, <1>2, <2>2, <2>3, FreshShort DEF GatewayInv, QuietInv
    <3>2. QED
      BY <1>1, <1>2, <1>4, <2>2, <2>3, <3>1 DEF GatewayInv, Counters, SlotsInv
  <2>4. CASE redis /\ ~InTry(c) /\ ~Exposed(c)
    <3>1. HoldsNone(todo[c])
      BY <1>1, <1>3, <2>4, SlotsWhenCancelled
    <3>2. UNCHANGED abandoned
      BY <2>1, <2>4 DEF GatewayInv, Types
    <3>3. ~AtReturn(todo[c]) /\ ~AtReturn(<<>>)
      BY <2>4, ReleaseNames DEF Exposed, AtReturn, Returns, ReleaseOps
    <3>4. Counters' /\ ProgramsInv' /\ SlotsInv' /\ QuietInv'
      BY <1>1, <1>2, <2>1, <2>4, <3>1, <3>2, <3>3, FreshShort, KeepsSlots DEF Fresh, HoldsNone
    <3>5. QED
      BY <1>4, <3>4 DEF GatewayInv
  <2>5. CASE redis /\ Exposed(c)
    <3>1. abandoned' = TRUE
      BY <2>1, <2>5
    <3>2. Covers(active, CredHolders', FALSE)
      <4>1. /\ Covers(active, CredHolders, ~abandoned) /\ active \in Nat /\ (~abandoned) \in BOOLEAN
        BY <2>5 DEF GatewayInv, SlotsInv, Counters, Types
      <4>2. QED
        BY <2>2, <4>1, HoldersFinite, CountersCover
    <3>3. ASSUME NEW k \in Scopes PROVE Tallies(slots[k], Armed(k)', FALSE)
      <4>1. /\ Tallies(slots[k], Armed(k), ~abandoned) /\ slots[k] \in Int
            /\ Armed(k)' = Armed(k) \ {c}
            /\ IsFiniteSet(Armed(k)) /\ Cardinality(Armed(k)) \in Nat /\ Cardinality(Calls) \in Nat
        BY <2>2, <2>5, HoldersFinite DEF GatewayInv, SlotsInv, Counters
      <4> DEFINE S == Armed(k)
                 T == Armed(k)'
      <4> HIDE DEF S, T
      <4>2. /\ Tallies(slots[k], S, ~abandoned) /\ T = S \ {c} /\ IsFiniteSet(S) /\ Cardinality(S) \in Nat
        BY <4>1 DEF S, T
      <4>3. Cardinality(T) <= Cardinality(S) /\ Cardinality(T) \in Nat
        BY <4>2, FS_Subset, FS_CardinalityType
      <4>4. Tallies(slots[k], T, FALSE)
        BY <4>1, <4>2, <4>3 DEF Tallies
      <4>5. QED
        BY <4>4 DEF T
    <3>4. SlotsInv'
      <4>1. (MaxConcurrent > 0 => active' <= MaxConcurrent) /\ ~abandoned' = FALSE
        BY <1>2, <2>5, <3>1 DEF GatewayInv, SlotsInv
      <4>2. QED
        BY <1>2, <3>2, <3>3, <4>1 DEF SlotsInv, Covers, Tallies
    <3>5. QED
      BY <1>1, <1>2, <1>4, <2>2, <2>5, <3>4 DEF GatewayInv, Counters, QuietInv
  <2>6. QED
    BY <1>6, <2>3, <2>4, <2>5
<1>7. QED
  BY <1>5, <1>6

LEMMA ReleaseStep == ASSUME GatewayInv, NEW c \in Calls, ReleaseCredential(c) PROVE GatewayInv'
<1>1. /\ todo[c] # <<>> /\ Head(todo[c]) = "release" /\ Proceed(c)
      /\ Released(used[c]) /\ used' = [used EXCEPT ![c] = 0]
      /\ UNCHANGED <<redis, circuit, count, attempt, abandoned>>
  BY DEF ReleaseCredential, Doing
<1>2. Types'
  <2>1. used[c] \in {0, 2} /\ tpm \in Nat
    BY DEF GatewayInv, Types, Actual
  <2>2. tpm' \in Nat /\ tpmExpires' \in BOOLEAN /\ UNCHANGED <<rpm, cooldown, expires>>
    BY <1>1, <2>1 DEF Released, Estimate, slotKeys
  <2>3. QED
    BY <1>1, <2>2 DEF GatewayInv, Types
<1>3. active > 0
  <2>1. redis
    BY <1>1, WithRedisOnly DEF LimiterOps, ReleaseOps
  <2>2. HoldsCred(todo[c])
    BY <1>1, RestStep, SlotsOfRest
  <2>3. c \in CredHolders /\ Cardinality(CredHolders) <= active /\ active \in Nat
    BY <2>1, <2>2 DEF CredHolders, GatewayInv, SlotsInv, Counters, Covers
  <2>4. QED
    BY <2>3, HoldersFinite, CounterPositive
<1>4. Counters' /\ ProgramsInv' /\ SlotsInv' /\ QuietInv'
  <2>1. active' = active - 1 /\ UNCHANGED slots
    BY <1>1, <1>3 DEF Released, slotKeys
  <2>2. QED
    BY <1>1, <2>1, RestMoves DEF GatewayInv, Counters
<1>5. QED
  BY <1>2, <1>4 DEF GatewayInv

LEMMA ReadSlotStep ==
  ASSUME GatewayInv, NEW c \in Calls, NEW k \in Scopes, ReadSlot(c, k)
  PROVE  GatewayInv'
<1> DEFINE s == todo[c]
           t == Tail(todo[c])
<1>1. /\ s # <<>> /\ Head(s) = Looking[k] /\ Do(c, t)
      /\ Looking[k] \in {"read_provider_slot", "read_job_slot"}
      /\ UNCHANGED <<limiterVars, redis, circuit, attempt, used, abandoned>>
      /\ count' = [count EXCEPT ![c] = slots[k]]
  BY DEF ReadSlot, Doing, Proceed, Looking, Scopes
<1>2. /\ redis /\ Program(s) /\ Program(t) /\ slots \in [Scopes -> Int] /\ UNCHANGED <<active, slots>>
      /\ \A d \in Calls : d # c => count'[d] = count[d]
      /\ count'[c] = slots[k]
  BY <1>1, WithRedisOnly, RestStep
     DEF LimiterOps, ReleaseOps, GatewayInv, Counters, Types, limiterVars, credKeys, slotKeys
<1>3. Types'
  BY <1>1, <1>2 DEF GatewayInv, Types, limiterVars, credKeys, slotKeys
<1>4. Accounted(active, active', HoldsCred(s), HoldsCred(t))
  BY <1>1, <1>2, SlotsOfRest DEF Accounted
<1>5. ASSUME NEW h \in Scopes
      PROVE  Moves(slots[h], slots'[h], ArmedAt(h, s, count[c]), ArmedAt(h, t, count'[c]))
  <2>1. Holds(h, s) <=> Holds(h, t)
    BY <1>1, <1>2, SlotsOfRest DEF Holds
  <2>2. ArmedAt(h, s, count[c]) <=> Holds(h, s)
    BY <1>1 DEF ArmedAt, Returning, Looking, Scopes
  <2>3. t # <<>> /\ Head(t) = Returning[h] => h = k
    BY <1>1, <1>2, ReadsFirst DEF Returning, Looking, Scopes
  <2>4. CASE t # <<>> /\ Head(t) = Returning[h] /\ ~(slots[k] > 0)
    BY <1>2, <2>1, <2>2, <2>3, <2>4 DEF ArmedAt, Moves, Accounted
  <2>5. CASE ~(t # <<>> /\ Head(t) = Returning[h] /\ ~(slots[k] > 0))
    BY <1>2, <2>1, <2>2, <2>3, <2>5 DEF ArmedAt, Moves, Accounted
  <2>6. QED
    BY <2>4, <2>5
<1>6. MaxConcurrent > 0 => active' <= MaxConcurrent
  BY <1>2 DEF GatewayInv, SlotsInv
<1>7. Counters' /\ ProgramsInv' /\ SlotsInv' /\ QuietInv'
  BY <1>1, <1>2, <1>4, <1>5, <1>6, Advance
<1>8. QED
  BY <1>3, <1>7 DEF GatewayInv

LEMMA ReturnStep ==
  ASSUME GatewayInv, NEW c \in Calls, NEW k \in Scopes, ReturnSlot(c, k)
  PROVE  GatewayInv'
<1> DEFINE s == todo[c]
           t == Tail(todo[c])
<1>1. /\ s # <<>> /\ Head(s) = Returning[k] /\ Do(c, t)
      /\ Returning[k] \in {"return_provider_slot", "return_job_slot"}
      /\ UNCHANGED <<credKeys, cooldown, expires, redis, circuit, attempt, used, abandoned>>
      /\ slots' = IF count[c] > 0 THEN [slots EXCEPT ![k] = slots[k] - 1] ELSE slots
      /\ count' = [count EXCEPT ![c] = 0]
  BY DEF ReturnSlot, Doing, Proceed, Returning, Scopes
<1>2. /\ redis /\ Program(s) /\ Program(t) /\ ~AtReturn(t)
      /\ slots \in [Scopes -> Int] /\ UNCHANGED active
      /\ \A d \in Calls : d # c => count'[d] = count[d]
  BY <1>1, WithRedisOnly, RestStep
     DEF LimiterOps, ReleaseOps, GatewayInv, Counters, Types, credKeys
<1>3. slots' \in [Scopes -> Int]
  BY <1>1, <1>2
<1>4. Types'
  BY <1>1 DEF GatewayInv, Types, credKeys
<1>5. Accounted(active, active', HoldsCred(s), HoldsCred(t))
  BY <1>1, <1>2, SlotsOfRest DEF Accounted
<1>6. ASSUME NEW h \in Scopes
      PROVE  Moves(slots[h], slots'[h], ArmedAt(h, s, count[c]), ArmedAt(h, t, count'[c]))
  <2>1. ArmedAt(h, t, count'[c]) <=> Holds(h, t)
    BY <1>2 DEF ArmedAt, AtReturn, Returns, Returning, Scopes
  <2>2. CASE h = k
    <3>1. Holds(h, s) /\ ~Holds(h, t)
      BY <1>1, <1>2, <2>2, SlotsOfRest DEF Holds, Returning, Scopes
    <3>2. ArmedAt(h, s, count[c]) <=> count[c] > 0
      BY <1>1, <2>2, <3>1 DEF ArmedAt
    <3>3. slots'[h] = IF count[c] > 0 THEN slots[h] - 1 ELSE slots[h]
      BY <1>1, <1>2, <2>2
    <3>4. QED
      BY <2>1, <3>1, <3>2, <3>3 DEF Moves, Accounted
  <2>3. CASE h # k
    <3>1. Holds(h, s) <=> Holds(h, t)
      BY <1>1, <1>2, <2>3, SlotsOfRest DEF Holds, Returning, Scopes
    <3>2. ArmedAt(h, s, count[c]) <=> Holds(h, s)
      BY <1>1, <2>3 DEF ArmedAt, Returning, Scopes
    <3>3. slots'[h] = slots[h]
      BY <1>1, <1>2, <2>3
    <3>4. QED
      BY <2>1, <3>1, <3>2, <3>3 DEF Moves, Accounted
  <2>4. QED
    BY <2>2, <2>3
<1>7. MaxConcurrent > 0 => active' <= MaxConcurrent
  BY <1>2 DEF GatewayInv, SlotsInv
<1>8. Counters' /\ ProgramsInv' /\ SlotsInv' /\ QuietInv'
  BY <1>1, <1>2, <1>3, <1>5, <1>6, <1>7, Advance
<1>9. QED
  BY <1>4, <1>8 DEF GatewayInv

\* What no step of a call does leaves the calls as they are.
LEMMA CallsSame ==
  ASSUME GatewayInv, UNCHANGED <<redis, callVars, abandoned>>
  PROVE  /\ ProgramsInv' /\ CredHolders' = CredHolders /\ \A k \in Scopes : Armed(k)' = Armed(k)
         /\ \A c \in Calls : Quiet(todo[c]) => Quiet(todo'[c])
BY DEF GatewayInv, ProgramsInv, CredHolders, Armed, ArmedAt, callVars

LEMMA TimeStep == ASSUME GatewayInv, Time PROVE GatewayInv'
<1>1. /\ UNCHANGED <<redis, circuit, callVars, abandoned, active>>
      /\ rpm' \in {rpm, 0} /\ tpm' \in {tpm, 0} /\ tpmExpires' \in {tpmExpires, FALSE}
      /\ cooldown' \in {cooldown, FALSE}
      /\ \/ UNCHANGED <<slots, expires>>
         \/ \E k \in Scopes : slots' = [slots EXCEPT ![k] = 0] /\ expires' = [expires EXCEPT ![k] = FALSE]
  BY DEF Time, RpmWindowEnds, TpmWindowEnds, CooldownEnds, SlotKeyEnds, credKeys, slotKeys
<1>2. /\ slots' \in [Scopes -> Int] /\ expires' \in [Scopes -> BOOLEAN]
      /\ \A k \in Scopes : slots'[k] \in {slots[k], 0}
  <2>1. slots \in [Scopes -> Int] /\ expires \in [Scopes -> BOOLEAN]
    BY DEF GatewayInv, Counters, Types
  <2>2. slots' \in [Scopes -> Int] /\ \A k \in Scopes : slots'[k] \in {slots[k], 0}
    BY <1>1, <2>1
  <2>3. expires' \in [Scopes -> BOOLEAN]
    BY <1>1, <2>1, Zenon
  <2>4. QED
    BY <2>2, <2>3
<1>3. Types'
  <2>1. tpmExpires' \in BOOLEAN /\ cooldown' \in BOOLEAN
    BY <1>1, Zenon DEF GatewayInv, Types
  <2>2. rpm' \in Nat /\ tpm' \in Nat
    BY <1>1 DEF GatewayInv, Types
  <2>3. /\ redis' \in BOOLEAN /\ abandoned' \in BOOLEAN /\ circuit' \in [Keys -> Circuit]
        /\ count' \in [Calls -> Int] /\ attempt' \in [Calls -> 0..MaxRetries]
        /\ used' \in [Calls -> {0} \cup Actual]
    BY <1>1 DEF GatewayInv, Types, callVars
  <2>4. QED
    BY <1>2, <2>1, <2>2, <2>3, Zenon DEF Types
<1>4. Counters' /\ ProgramsInv'
  BY <1>1, <1>2, CallsSame DEF GatewayInv, Counters
<1>5. SlotsInv'
  <2> SUFFICES ASSUME redis PROVE SlotsInv'
    BY <1>1 DEF SlotsInv
  <2>1. ASSUME NEW k \in Scopes PROVE Tallies(slots'[k], Armed(k)', ~abandoned')
    <3>1. /\ Armed(k)' = Armed(k) /\ abandoned' = abandoned /\ slots'[k] \in {slots[k], 0}
          /\ Tallies(slots[k], Armed(k), ~abandoned)
          /\ Cardinality(Armed(k)) \in Nat /\ Cardinality(Calls) \in Nat
          /\ Cardinality(Armed(k)) <= Cardinality(Calls)
      BY <1>1, <1>2, CallsSame, HoldersFinite DEF GatewayInv, SlotsInv
    <3> DEFINE S == Armed(k)
    <3> HIDE DEF S
    <3>2. Tallies(slots'[k], S, ~abandoned)
      BY <3>1 DEF Tallies, S
    <3>3. QED
      BY <3>1, <3>2 DEF S
  <2>2. /\ Covers(active', CredHolders', ~abandoned') /\ (MaxConcurrent > 0 => active' <= MaxConcurrent)
    BY <1>1, CallsSame DEF GatewayInv, SlotsInv
  <2>3. QED
    BY <2>1, <2>2 DEF SlotsInv, Tallies, Covers
<1>6. QuietInv'
  BY <1>1, <1>2, CallsSame DEF GatewayInv, QuietInv
<1>7. QED
  BY <1>3, <1>4, <1>5, <1>6 DEF GatewayInv

\* Nor does it leave the counters, if it is none of the limiter's either.
LEMMA SlotsSame ==
  ASSUME GatewayInv, UNCHANGED <<limiterVars, redis, callVars, abandoned>>
  PROVE  Counters' /\ ProgramsInv' /\ SlotsInv' /\ QuietInv'
<1>1. UNCHANGED <<active, slots, redis, abandoned>>
  BY DEF limiterVars, credKeys, slotKeys
<1>2. Counters' /\ ProgramsInv' /\ QuietInv'
  BY <1>1, CallsSame DEF GatewayInv, Counters, QuietInv
<1>3. SlotsInv'
  BY <1>1, CallsSame DEF GatewayInv, SlotsInv, Covers, Tallies
<1>4. QED
  BY <1>2, <1>3

LEMMA AgeStep == ASSUME GatewayInv, NEW k \in Keys, Age(k) PROVE GatewayInv'
<1>1. UNCHANGED <<limiterVars, redis, callVars, abandoned>>
  BY DEF Age
<1>2. Types'
  <2>1. [circuit[k] EXCEPT !.aged = TRUE] \in Circuit
    BY CircuitTypes DEF GatewayInv, Types
  <2>2. circuit' \in [Keys -> Circuit]
    BY <2>1 DEF GatewayInv, Types, Age
  <2>3. QED
    BY <1>1, <2>2 DEF GatewayInv, Types, callVars, limiterVars, credKeys, slotKeys
<1>3. QED
  BY <1>1, <1>2, SlotsSame DEF GatewayInv

LEMMA GatewayStart == Init => GatewayInv
<1> SUFFICES ASSUME Init PROVE GatewayInv
  OBVIOUS
<1>1. Types /\ Counters
  <2>1. Closed \in Circuit
    BY ThresholdsAssumption DEF Closed, Circuit
  <2>2. Counters /\ rpm \in Nat /\ tpm \in Nat /\ attempt \in [Calls -> 0..MaxRetries]
    BY RetriesAssumption DEF Init, LimiterInit, Counters
  <2>3. /\ tpmExpires \in BOOLEAN /\ cooldown \in BOOLEAN /\ redis \in BOOLEAN /\ abandoned \in BOOLEAN
        /\ expires \in [Scopes -> BOOLEAN]
    BY Zenon DEF Init, LimiterInit
  <2>4. circuit \in [Keys -> Circuit] /\ count \in [Calls -> Int] /\ used \in [Calls -> {0} \cup Actual]
    BY <2>1 DEF Init
  <2>5. QED
    BY <2>2, <2>3, <2>4, Zenon DEF Types
<1>2. ProgramsInv
  BY FreshShort DEF Init, ProgramsInv, Fresh, Program
<1>3. CredHolders = {} /\ \A k \in Scopes : Armed(k) = {}
  BY FreshShort DEF Init, CredHolders, Armed, ArmedAt, Holds, HoldsNone
<1>4. SlotsInv
  <2>1. active = 0 /\ (\A k \in Scopes : slots[k] = 0) /\ Cardinality({}) = 0 /\ Cardinality(Calls) \in Nat
    BY FS_EmptySet, FS_CardinalityType, CallsAssumption DEF Init, LimiterInit
  <2>2. MaxConcurrent > 0 => active <= MaxConcurrent
    BY <2>1, LimitsAssumption
  <2>3. QED
    BY <1>3, <2>1, <2>2 DEF SlotsInv, Covers, Tallies
<1>5. QuietInv
  BY FreshShort DEF Init, LimiterInit, QuietInv
<1>6. QED
  BY <1>1, <1>2, <1>4, <1>5 DEF GatewayInv

LEMMA GatewayNext == GatewayInv /\ [Next]_vars => GatewayInv'
<1> SUFFICES ASSUME GatewayInv, [Next]_vars PROVE GatewayInv'
  OBVIOUS
<1>1. ASSUME NEW c \in Calls, Begin(c) PROVE GatewayInv'
  BY <1>1, BeginStep
<1>2. ASSUME NEW c \in Calls, Cancelled(c) \/ RedisRaises(c) PROVE GatewayInv'
  <2>1. used[c] \in {0} \cup Actual /\ 0 \in {0} \cup Actual
    BY DEF GatewayInv, Types
  <2>2. QED
    BY <1>2, <2>1, LeavesStep DEF Cancelled, RedisRaises
<1>3. ASSUME NEW c \in Calls, Step(c) PROVE GatewayInv'
  <2>1. CASE Retry(c)
    BY <2>1, RetryStep
  <2>2. ASSUME NEW k \in Keys, Check(c, k) PROVE GatewayInv'
    BY <2>2, CheckStep
  <2>3. ASSUME NEW k \in Keys, RecordSuccess(c, k) \/ RecordFailure(c, k) \/ RecordRejection(c, k)
        PROVE  GatewayInv'
    BY <2>3, RecordStep
  <2>4. CASE ReserveCredential(c)
    BY <2>4, ReserveStep
  <2>5. CASE ReadProvider(c) \/ ReadJob(c)
    BY <2>5, ReadCounterStep
  <2>6. CASE GiveBack(c) \/ \E k \in Scopes : TakeSlot(c, k)
    BY <2>6, TakeStep
  <2>7. CASE Answer(c)
    BY <2>7, AnswerStep
  <2>8. CASE ReleaseCredential(c)
    BY <2>8, ReleaseStep
  <2>9. ASSUME NEW k \in Scopes, ReadSlot(c, k) PROVE GatewayInv'
    BY <2>9, ReadSlotStep
  <2>10. ASSUME NEW k \in Scopes, ReturnSlot(c, k) PROVE GatewayInv'
    BY <2>10, ReturnStep
  <2>11. CASE CoolDown(c)
    BY <2>11, CoolDownStep
  <2>12. QED
    BY <1>3, <2>1, <2>2, <2>3, <2>4, <2>5, <2>6, <2>7, <2>8, <2>9, <2>10, <2>11 DEF Step
<1>4. ASSUME NEW k \in Keys, Age(k) PROVE GatewayInv'
  BY <1>4, AgeStep
<1>5. CASE Time
  BY <1>5, TimeStep
<1>6. CASE UNCHANGED vars
  <2>1. UNCHANGED <<limiterVars, redis, circuit, callVars, abandoned>>
    BY <1>6 DEF vars
  <2>2. Types'
    BY <2>1 DEF GatewayInv, Types, callVars, limiterVars, credKeys, slotKeys
  <2>3. QED
    BY <2>1, <2>2, SlotsSame DEF GatewayInv
<1>7. QED
  BY <1>1, <1>2, <1>3, <1>4, <1>5, <1>6 DEF Next

LEMMA GatewayAlways == Spec => []GatewayInv
<1>1. Init => GatewayInv
  BY GatewayStart
<1>2. GatewayInv /\ [Next]_vars => GatewayInv'
  BY GatewayNext
<1>3. QED
  BY <1>1, <1>2, PTL DEF Spec
------------------------------------------------------------------------------
(* The theorems *)

\* The variables keep their types.  _LUA_RELEASE never takes a credential's counters below
\* zero; the counters of the provider and of the job, whose keys expire under calls that
\* still count on them, fall at most by one for each call below it.
THEOREM GatewayTypes == Spec => []TypeOK
<1>1. GatewayInv => TypeOK
  <2> SUFFICES ASSUME GatewayInv PROVE TypeOK
    OBVIOUS
  <2>1. \A c \in Calls : \A i \in DOMAIN todo[c] : todo[c][i] \in Operations
    BY DEF GatewayInv, ProgramsInv
  <2>2. ASSUME NEW k \in Scopes PROVE slots[k] >= 0 - Cardinality(Calls)
    <3>1. /\ Cardinality(Armed(k)) \in Nat /\ Cardinality(Calls) \in Nat /\ slots[k] \in Int
          /\ redis \in BOOLEAN
          /\ redis => Cardinality(Armed(k)) - Cardinality(Calls) <= slots[k]
          /\ ~redis => slots[k] = 0
      BY HoldersFinite DEF GatewayInv, Types, Counters, SlotsInv, QuietInv, Tallies
    <3>2. QED
      BY <3>1
  <2>3. QED
    BY <2>1, <2>2 DEF GatewayInv, Types, Counters, TypeOK
<1>2. QED
  BY <1>1, GatewayAlways, PTL

\* However many calls there are, and however they are retried, rolled back or cancelled,
\* a credential never has more provider calls under way than _LUA_RESERVE allows it.
THEOREM CredentialLimit == Spec => []CallsWithinLimit
<1>1. GatewayInv => CallsWithinLimit
  <2> SUFFICES ASSUME GatewayInv, redis, MaxConcurrent > 0
               PROVE  Cardinality({c \in Calls : Doing(c, "call")}) <= MaxConcurrent
    BY DEF CallsWithinLimit
  <2> DEFINE calling == {c \in Calls : Doing(c, "call")}
  <2>1. calling \subseteq CredHolders
    <3>1. ASSUME NEW c \in Calls, Doing(c, "call") PROVE HoldsCred(todo[c])
      BY <3>1, RestStep, SlotsByFirst DEF Doing, HoldsAll
    <3>2. QED
      BY <3>1 DEF CredHolders
  <2>2. IsFiniteSet(calling) /\ Cardinality(calling) <= Cardinality(CredHolders)
    BY <2>1, HoldersFinite, FS_Subset
  <2>3. Cardinality(CredHolders) <= active /\ active <= MaxConcurrent /\ active \in Nat
    BY DEF GatewayInv, SlotsInv, Counters, Covers
  <2>4. Cardinality(calling) \in Nat /\ Cardinality(CredHolders) \in Nat
    BY <2>2, HoldersFinite, FS_CardinalityType
  <2>5. QED
    BY <2>2, <2>3, <2>4, LimitsAssumption
<1>2. QED
  BY <1>1, GatewayAlways, PTL

\* Once no call is under way none of their slots is taken, whatever the calls met and
\* whichever keys expired under them, if none left while it was reserving or releasing.
THEOREM SlotsComeBack == Spec => []SlotsReturned
<1>1. GatewayInv => SlotsReturned
  <2> SUFFICES ASSUME GatewayInv, \A c \in Calls : todo[c] = <<>>, ~abandoned, NEW k \in Scopes
               PROVE  active = 0 /\ slots[k] <= 0
    BY DEF SlotsReturned, Scopes
  <2>1. CredHolders = {} /\ Armed(k) = {}
    BY FreshShort DEF CredHolders, Armed, ArmedAt, Holds, HoldsNone
  <2>2. CASE redis
    BY <2>1, <2>2, FS_EmptySet DEF GatewayInv, SlotsInv, Covers, Tallies
  <2>3. CASE ~redis
    BY <2>3 DEF GatewayInv, QuietInv
  <2>4. QED
    BY <2>2, <2>3
<1>2. QED
  BY <1>1, GatewayAlways, PTL

\* What calls that were already under way report to an open circuit of one process leaves
\* it open, until half_open_after has gone by.
THEOREM OpenCircuitHolds == Spec => OpenCircuitRests
<1>1. GatewayInv /\ [Next]_vars => \A k \in Keys : ~redis /\ Rejects(circuit[k]) => circuit'[k].state = "open"
  <2> SUFFICES ASSUME GatewayInv, [Next]_vars, NEW k \in Keys, ~redis, circuit[k].state = "open",
                      ~circuit[k].aged
               PROVE  circuit'[k].state = "open"
    BY DEF Rejects
  <2>1. circuit \in [Keys -> Circuit] /\ circuit[k] \in Circuit
    BY DEF GatewayInv, Types
  <2>2. ASSUME NEW c \in Calls, NEW h \in Keys, Check(c, h) PROVE circuit'[k].state = "open"
    <3>1. CASE h = k
      BY <2>1, <2>2, <3>1 DEF Check, Rejects, Probes
    <3>2. CASE h # k
      BY <2>1, <2>2, <3>2 DEF Check
    <3>3. QED
      BY <3>1, <3>2
  <2>3. ASSUME NEW c \in Calls, NEW h \in Keys, NEW op, NEW new, Update(c, op, h, new),
               h = k => new.state = "open"
        PROVE  circuit'[k].state = "open"
    BY <2>1, <2>3 DEF Update
  <2>4. /\ AfterSuccess(circuit[k]).state = "open"
        /\ AfterFailure(circuit[k], FALSE).state = "open"
        /\ AfterFailure(circuit[k], TRUE).state = "open"
    BY <2>1 DEF AfterSuccess, AfterFailure, Circuit
  <2>5. ASSUME NEW h \in Keys, Age(h) PROVE circuit'[k].state = "open"
    BY <2>1, <2>5 DEF Age, Circuit
  <2>6. CASE UNCHANGED circuit
    BY <2>6
  <2>7. QED
    <3>1. ASSUME NEW c \in Calls, Begin(c) \/ Cancelled(c) \/ RedisRaises(c) \/ Retry(c)
                   \/ ReserveCredential(c) \/ ReadProvider(c) \/ ReadJob(c) \/ GiveBack(c) \/ Answer(c)
                   \/ ReleaseCredential(c) \/ CoolDown(c)
                   \/ \E h \in Scopes : TakeSlot(c, h) \/ ReadSlot(c, h) \/ ReturnSlot(c, h)
          PROVE  UNCHANGED circuit
      BY <3>1 DEF Begin, Leaves, Cancelled, RedisRaises, Retry, ReserveCredential, ReadProvider, ReadJob,
                  ReadCounter, GiveBack, TakeSlot, Answer, ReleaseCredential, ReadSlot, ReturnSlot, CoolDown
    <3>2. ASSUME NEW c \in Calls, NEW h \in Keys,
                 RecordSuccess(c, h) \/ RecordFailure(c, h) \/ RecordRejection(c, h)
          PROVE  circuit'[k].state = "open"
      BY <2>3, <2>4, <3>2 DEF RecordSuccess, RecordFailure, RecordRejection
    <3>3. Time \/ UNCHANGED vars => UNCHANGED circuit
      BY DEF Time, vars
    <3>4. QED
      BY <2>2, <2>5, <2>6, <3>1, <3>2, <3>3 DEF Next, Step
<1>2. QED
  BY <1>1, GatewayAlways, PTL DEF Spec, OpenCircuitRests
==============================================================================
