------------------------------ MODULE RateLimit ------------------------------
(***************************************************************************)
(* One counter of a rate limiter: of the requests of a user at the gateway *)
(* (middleware.UserRateLimiter), or of the logins or registrations of an   *)
(* address at the auth service (ratelimit.Allow).  Both count in Valkey    *)
(* with IncrWithExpiryScript, which Valkey runs in one step, so that it    *)
(* does not matter how many replicas and handlers share the counter.       *)
(*                                                                         *)
(* A tick is the resolution of the expiry of a key.  The limiter divides   *)
(* time into windows that begin with a request; what matters to a client   *)
(* and to the services behind is what happens in any stretch of time: the  *)
(* history variables belong to an observer who may begin to watch, and     *)
(* begin anew, at any moment.                                              *)
(*                                                                         *)
(* External: time; Valkey, which may fail before or after the script ran.  *)
(***************************************************************************)
EXTENDS Naturals

CONSTANTS
  Requests,   (* the limit                                                 *)
  Window,     (* the time to live of the key                               *)
  MaxCount    (* bound: counters stop here                                 *)

ASSUME RateLimitAssumption ==
  /\ Requests \in Nat \ {0} /\ Window \in Nat \ {0}
  /\ MaxCount \in Nat /\ MaxCount >= 2 * Requests

VARIABLES
  limiter,    (* who asks: the gateway or the auth service                 *)
  count,      (* the value of the key, 0 without it                        *)
  ttl,        (* the ticks it has left                                     *)
  age,        (* history: ticks since the observer began, up to Window     *)
  born,       (* history: when the key was made, before or since           *)
  asked,      (* history: requests counted since                           *)
  admitted,   (* history: requests admitted since                          *)
  blind       (* history: admitted without an answer, up to 1              *)

key == <<count, ttl>>

limitVars == <<limiter, key, age, born, asked, admitted, blind>>

Up(n) == IF n < MaxCount THEN n + 1 ELSE n

-----------------------------------------------------------------------------
(* The script and its callers *)

ExpiryEachTime ==
  /\ count' = Up(count) /\ asked' = Up(asked)
  /\ ttl' = Window
  /\ born' = IF count = 0 THEN "since" ELSE born
(* INCR, and EXPIRE only if it made the key. *)
IncrWithExpiry ==
  /\ count' = Up(count) /\ asked' = Up(asked)
  /\ IF count = 0 THEN ttl' = Window /\ born' = "since" ELSE UNCHANGED <<ttl, born>>

ExceedsAtLimit(result) == result >= Requests
ExceedsLate(result) == result > Requests + 1
Exceeds(result) == result > Requests

Ask ==
  /\ IncrWithExpiry
  /\ admitted' = IF Exceeds(count') THEN admitted ELSE Up(admitted)
  /\ UNCHANGED <<limiter, age, blind>>

(* Without an answer from Valkey, the gateway lets the request through and  *)
(* the auth service fails it.                                               *)
ValkeyFails ==
  /\ IncrWithExpiry \/ UNCHANGED <<key, born, asked>>
  /\ IF limiter = "gateway" THEN admitted' = Up(admitted) /\ blind' = 1
                            ELSE UNCHANGED <<admitted, blind>>
  /\ UNCHANGED <<limiter, age>>

-----------------------------------------------------------------------------
(* Time, and the observer *)

Tick ==
  /\ ttl' = IF ttl > 0 THEN ttl - 1 ELSE 0
  /\ IF ttl = 1 THEN count' = 0 /\ born' = "none" ELSE UNCHANGED <<count, born>>
  /\ age' = IF age < Window THEN age + 1 ELSE age
  /\ UNCHANGED <<limiter, asked, admitted, blind>>

Watch ==
  /\ age' = 0 /\ asked' = 0 /\ admitted' = 0 /\ blind' = 0
  /\ born' = IF count = 0 THEN "none" ELSE "before"
  /\ UNCHANGED <<limiter, key>>

-----------------------------------------------------------------------------

LimitInit ==
  /\ limiter \in {"gateway", "auth"}
  /\ count = 0 /\ ttl = 0
  /\ age = 0 /\ born = "none" /\ asked = 0 /\ admitted = 0 /\ blind = 0

LimitNext == Ask \/ ValkeyFails \/ Tick \/ Watch

LimitSpec == LimitInit /\ [][LimitNext]_limitVars

FairLimitSpec == LimitSpec /\ WF_limitVars(Tick)

-----------------------------------------------------------------------------
(* Properties *)

LimitTypeOK ==
  /\ limiter \in {"gateway", "auth"}
  /\ count \in 0 .. MaxCount /\ ttl \in 0 .. Window
  /\ age \in 0 .. Window
  /\ born \in {"none", "before", "since"} /\ blind \in {0, 1}
  /\ asked \in 0 .. MaxCount /\ admitted \in 0 .. MaxCount

(* No stretch of time as long as a window sees twice the limit, wherever it *)
(* lies: the end of one window and the beginning of the next admit one      *)
(* request less than that.  At the auth service this holds whatever Valkey  *)
(* does, at the gateway as long as Valkey answers.                          *)
BurstBounded ==
  age < Window /\ (limiter = "gateway" => blind = 0)
    => admitted <= 2 * Requests - 1

(* Whoever would be refused has made as many requests as the limit in the   *)
(* last Window ticks: what came before, and being refused, count nothing.   *)
RefusedOnlyBusy ==
  age = Window /\ Exceeds(count + 1) => asked >= Requests

(* Nobody is locked out: the counter of a client that is refused, and keeps *)
(* asking all the while, is gone at some time.                              *)
WindowEnds == count > Requests ~> count = 0

=============================================================================
