------------------------------ MODULE RateLimit ------------------------------
(***************************************************************************)
(* The fixed-window rate limiter that every request passes                 *)
(* (internal/middleware/ratelimit.go), for the requests of one IP address: *)
(* INCR, and for the first of a window EXPIRE, are two commands to Redis,  *)
(* and Redis keeps its data in an append-only file (docker-compose.yml).   *)
(* The answer to a command may not come although Redis has executed it, or *)
(* executes it later; go-redis sends an unanswered command again (db/      *)
(* redis.go sets no MaxRetries), and when it gives up the request passes.  *)
(* Init, Next and Spec carry the limiter's name, so that a module can have *)
(* it beside what lies behind it.                                          *)
(***************************************************************************)
EXTENDS Integers

CONSTANTS
  Hit, \* requests at one time; a finished one makes room for another
  Max  \* RATE_LIMIT_MAX

ASSUME RateLimitAssumption == Max \in Nat \ {0}

VARIABLES
  count,    \* the value of the key, 0 without a key; Max + 1 stands for more
  deadline, \* the key has a time to live
  stage,    \* a request: not in the middleware, INCR unanswered, EXPIRE to send
  adrift,   \* requests of which an unanswered INCR may still reach Redis
  passed,   \* history: requests let through by Redis' answers in this window,
            \* up to Max + 1
  lost,     \* history: what was to bring the key's deadline was lost
  crashed   \* history: Redis lost commands in this window

limiterVars == <<count, deadline, stage, adrift, passed, lost, crashed>>

LimiterInit ==
  /\ count = 0
  /\ deadline = FALSE
  /\ stage = [t \in Hit |-> "out"]
  /\ adrift = {}
  /\ passed = 0
  /\ lost = FALSE
  /\ crashed = FALSE

\* Mutant: one request too many.
ExceedsLate(c) == c > Max + 1

Exceeds(c) == c > Max

Min(x, y) == IF x < y THEN x ELSE y

\* INCR answers with the new value, which decides.
Incr(t) ==
  /\ stage[t] \in {"out", "retry"}
  /\ count' = Min(count + 1, Max + 1)
  /\ stage' = [stage EXCEPT ![t] = IF count = 0 THEN "expire" ELSE "out"]
  /\ passed' = IF Exceeds(count + 1) THEN passed ELSE Min(passed + 1, Max + 1)
  /\ UNCHANGED <<deadline, adrift, lost, crashed>>

\* Redis executes an INCR to whose answer nobody listens: if it creates the key,
\* no EXPIRE will follow it.
Unheard ==
  /\ count' = Min(count + 1, Max + 1)
  /\ lost' = (lost \/ count = 0)

\* No answer to INCR, whether executed, still on its way or gone.
IncrUnanswered(t) ==
  /\ stage[t] \in {"out", "retry"}
  /\ stage' = [stage EXCEPT ![t] = "retry"]
  /\ \/ Unheard /\ UNCHANGED adrift
     \/ adrift' \in {adrift, adrift \cup {t}} /\ UNCHANGED <<count, lost>>
  /\ UNCHANGED <<deadline, passed, crashed>>

IncrArrives(t) ==
  /\ t \in adrift
  /\ adrift' = adrift \ {t}
  /\ Unheard
  /\ UNCHANGED <<deadline, stage, passed, crashed>>

\* The retries are used up: "If Redis is down, allow the request".
AllowUncounted(t) ==
  /\ stage[t] = "retry"
  /\ stage' = [stage EXCEPT ![t] = "out"]
  /\ UNCHANGED <<count, deadline, adrift, passed, lost, crashed>>

\* Mutant: EXPIRE is sent to another key.
ExpireElsewhere(t) ==
  /\ stage[t] = "expire"
  /\ stage' = [stage EXCEPT ![t] = "out"]
  /\ UNCHANGED <<count, deadline, adrift, passed, lost, crashed>>

\* EXPIRE of a key that is no more does nothing.
Expire(t) ==
  /\ stage[t] = "expire"
  /\ deadline' = (count > 0)
  /\ stage' = [stage EXCEPT ![t] = "out"]
  /\ lost' = FALSE
  /\ UNCHANGED <<count, adrift, passed, crashed>>

\* Its error is ignored; or the server dies before it is sent.
LoseExpire(t) ==
  /\ stage[t] = "expire"
  /\ stage' = [stage EXCEPT ![t] = "out"]
  /\ lost' = (lost \/ (count > 0 /\ ~deadline))
  /\ UNCHANGED <<count, deadline, adrift, passed, crashed>>

WindowEnds ==
  /\ deadline
  /\ count' = 0
  /\ deadline' = FALSE
  /\ passed' = 0
  /\ lost' = FALSE
  /\ crashed' = FALSE
  /\ UNCHANGED <<stage, adrift>>

\* Redis restarts without the last commands of the file: some INCRs are undone,
\* and EXPIRE if it was among them.
RedisCrash ==
  /\ count > 0
  /\ count' \in 0 .. count
  /\ deadline' \in {FALSE, deadline /\ count' > 0}
  /\ lost' = (count' > 0 /\ (lost \/ (deadline /\ ~deadline')))
  /\ crashed' = TRUE
  /\ UNCHANGED <<stage, adrift, passed>>

LimiterNext ==
  \/ \E t \in Hit : Incr(t) \/ IncrUnanswered(t) \/ IncrArrives(t) \/ AllowUncounted(t)
  \/ \E t \in Hit : Expire(t) \/ LoseExpire(t)
  \/ WindowEnds
  \/ RedisCrash

LimiterSpec == LimiterInit /\ [][LimiterNext]_limiterVars

\* A request runs to its end, and Redis removes keys whose time is over.
FairSpec ==
  /\ LimiterSpec
  /\ \A t \in Hit : WF_limiterVars(Expire(t) \/ LoseExpire(t))
  /\ WF_limiterVars(WindowEnds)

-----------------------------------------------------------------------------
(* Properties *)

\* The variables have the types of the Redis values and of the Go locals.
LimiterTypeOK ==
  /\ count \in 0 .. Max + 1
  /\ deadline \in BOOLEAN
  /\ stage \in [Hit -> {"out", "retry", "expire"}]
  /\ adrift \subseteq Hit
  /\ passed \in 0 .. Max + 1
  /\ lost \in BOOLEAN
  /\ crashed \in BOOLEAN

\* A key without a deadline counts for ever. There are two ways to one and no other:
\* the EXPIRE that would have set it was lost (unsent, unanswered or undone), or the
\* INCR that created the key was answered to nobody, who then sends none. Otherwise a
\* request is still to send it, however requests, retries, INCRs on their way, window
\* ends and restarts of Redis race.
DeadlineComing ==
  count > 0 /\ ~deadline => lost \/ \E t \in Hit : stage[t] = "expire"

\* However many requests race, Redis' answers let no more than Max pass in a window
\* in which it forgets nothing. Requests that pass without an answer are not limited.
WithinLimit == ~crashed => passed <= Max

\* A client that is refused is let in again, unless its key's deadline was lost.
RefusalEnds == (count > Max) ~> (count = 0 \/ lost)
=============================================================================
