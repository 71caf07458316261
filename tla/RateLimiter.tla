---------------------------- MODULE RateLimiter -----------------------------
(***************************************************************************)
(* The Redis keys of the rate limiter, for one credential, its provider    *)
(* and one job, and the operations on them.  The reservation and the       *)
(* release of a credential are Lua scripts and so one step each; the       *)
(* provider's and the job's counters are read and written in two.          *)
(*                                                                         *)
(* A key with a TTL may disappear at any time, that of the provider or of  *)
(* the job also under the calls it counts: an adapter tries six times      *)
(* within one reservation, each time with the full timeout, and sleeps as  *)
(* long as Retry-After says.  The credential's counter has no TTL.         *)
(*                                                                         *)
(* A definition named X_Y is a mutated form of X; no specification uses it.*)
(***************************************************************************)
EXTENDS Integers

Scopes == {"prov", "job"}     \* what calls are also counted for

CONSTANTS MaxRpm, MaxTpm, MaxConcurrent,      \* of the credential; 0: unlimited
          MaxProvider, MaxJob,                \* concurrent calls; 0: unlimited
          Expiring                            \* bound: whose key may disappear

ASSUME LimitsAssumption ==
  /\ MaxRpm \in Nat /\ MaxTpm \in Nat /\ MaxConcurrent \in Nat
  /\ MaxProvider \in Nat /\ MaxJob \in Nat
  /\ Expiring \subseteq Scopes

VARIABLES
  rpm,          \* requests of the window; the key has a TTL
  tpm,          \* tokens of the window; 0: also, there is no key
  tpmExpires,   \* the tpm key has a TTL
  active,       \* calls of the credential
  cooldown,     \* the credential is on cooldown
  slots,        \* [Scopes -> Int], the calls of each; 0: also, there is no key
  expires       \* [Scopes -> BOOLEAN], that key has a TTL

credKeys == <<rpm, tpm, tpmExpires, active>>
slotKeys == <<slots, expires>>
limiterVars == <<credKeys, cooldown, slotKeys>>

Estimate == 1           \* the tokens a call is thought to need
Actual == {0, 2}        \* those it may turn out to have used

LimiterInit ==
  /\ rpm = 0 /\ tpm = 0 /\ tpmExpires = FALSE
  /\ active = 0 /\ cooldown = FALSE
  /\ slots = [k \in Scopes |-> 0]
  /\ expires = [k \in Scopes |-> FALSE]

AtLimit(limit, count) == limit > 0 /\ count >= limit
------------------------------------------------------------------------------
(* _LUA_RESERVE *)

CredentialBlocked_OffByOne ==
  \/ cooldown
  \/ AtLimit(MaxRpm, rpm)
  \/ MaxTpm > 0 /\ tpm + Estimate > MaxTpm
  \/ MaxConcurrent > 0 /\ active > MaxConcurrent

CredentialBlocked ==
  \/ cooldown
  \/ AtLimit(MaxRpm, rpm)
  \/ MaxTpm > 0 /\ tpm + Estimate > MaxTpm
  \/ AtLimit(MaxConcurrent, active)

Reserve ==
  /\ rpm' = rpm + 1
  /\ tpm' = tpm + Estimate
  /\ tpmExpires' = (tpmExpires \/ tpm = 0)
  /\ active' = active + 1
  /\ UNCHANGED <<cooldown, slotKeys>>

(* _LUA_RELEASE *)

Released_NoClamp(actual) ==
  /\ active' = IF active > 0 THEN active - 1 ELSE active
  /\ tpm' = tpm + (actual - Estimate)
  /\ UNCHANGED <<rpm, tpmExpires, cooldown, slotKeys>>

\* INCRBY keeps the TTL and gives a new key none; SET drops it.
Released(actual) ==
  LET new == tpm + (actual - Estimate)
  IN  /\ active' = IF active > 0 THEN active - 1 ELSE active
      /\ tpm' = IF new < 0 THEN 0 ELSE new
      /\ tpmExpires' = (tpmExpires /\ new >= 0)
      /\ UNCHANGED <<rpm, cooldown, slotKeys>>
------------------------------------------------------------------------------
\* Redis lets a key go at the end of its TTL.
RpmWindowEnds ==
  /\ rpm > 0
  /\ rpm' = 0
  /\ UNCHANGED <<tpm, tpmExpires, active, cooldown, slotKeys>>

TpmWindowEnds ==
  /\ tpmExpires
  /\ tpm' = 0 /\ tpmExpires' = FALSE
  /\ UNCHANGED <<rpm, active, cooldown, slotKeys>>

CooldownEnds ==
  /\ cooldown
  /\ cooldown' = FALSE
  /\ UNCHANGED <<credKeys, slotKeys>>

SlotKeyEnds(k) ==
  /\ k \in Expiring /\ expires[k]
  /\ slots' = [slots EXCEPT ![k] = 0]
  /\ expires' = [expires EXCEPT ![k] = FALSE]
  /\ UNCHANGED <<credKeys, cooldown>>
==============================================================================
