------------------------------ MODULE RateLimits ------------------------------
(***************************************************************************)
(* The three limiters of the server: the table of one process in LAB mode  *)
(* (lib/rate-limit.ts), a Firestore document per aligned window            *)
(* (lib/rate-limit-shared.ts), and the Realtime Database's counter of      *)
(* sign-in attempts (consumeAuthRateLimit of lib/managed-auth.ts).  The    *)
(* two shared ones count in a transaction, so a call is one step; it takes *)
(* less than a tick of the clock.                                          *)
(***************************************************************************)
EXTENDS Integers, FiniteSets

CONSTANTS
  Keys, Limit, Window,
  MaxKeys,    \* entries that the process's table may hold before it is swept
  MaxTime, MaxCalls   \* bounds: ticks, and calls in one tick

ASSUME LimitAssumption ==
  /\ Limit \in Nat \ {0} /\ Window \in Nat \ {0}
  /\ MaxTime \in Nat

VARIABLES
  limiter,    \* "PROCESS", "SHARED" or "AUTH"
  clock, calls,
  counter,    \* PROCESS and AUTH: start and count of a key's window
  document,   \* SHARED: count of a key in an aligned window
  admitted,    \* history: how many calls of a key were admitted before each tick
  refused,     \* history: the ticks at which a call of a key was refused
  forgotten    \* history: how often the table was emptied before each tick

limitVars == <<limiter, clock, calls, counter, document, admitted, refused, forgotten>>

Ticks == 0..MaxTime
Moments == 0..(MaxTime + 1)

\* One more at this tick: before every later one there is one more.
OneMore(total) == [u \in Moments |-> IF u > clock THEN total[u] + 1 ELSE total[u]]

NoEntry == [start |-> 0, count |-> 0]

LimitsInit ==
  /\ limiter \in {"PROCESS", "SHARED", "AUTH"}
  /\ clock = 0 /\ calls = 0
  /\ counter = [k \in Keys |-> NoEntry]
  /\ document = [k \in Keys |-> [w \in 0..(MaxTime \div Window) |-> 0]]
  /\ admitted = [k \in Keys |-> [u \in Moments |-> 0]]
  /\ refused = [k \in Keys |-> {}]
  /\ forgotten = [u \in Moments |-> 0]

\* A bug to catch: a window lasts one tick too long.
WindowIsOverLate(entry) == entry = NoEntry \/ clock - entry.start > Window

WindowIsOver(entry) == entry = NoEntry \/ clock - entry.start >= Window

Reply(k, yes) ==
  /\ calls < MaxCalls
  /\ calls' = calls + 1
  /\ admitted' = IF yes THEN [admitted EXCEPT ![k] = OneMore(@)] ELSE admitted
  /\ refused' = IF yes THEN refused ELSE [refused EXCEPT ![k] = @ \cup {clock}]
  /\ UNCHANGED <<limiter, clock>>

\* The table before it is read: swept of what is over when it is too large, and emptied
\* when that is not enough.
Entries(table) == {k \in Keys : table[k] # NoEntry}
Live == [k \in Keys |-> IF WindowIsOver(counter[k]) THEN NoEntry ELSE counter[k]]
Emptied == Cardinality(Entries(Live)) > MaxKeys
Swept ==
  IF Cardinality(Entries(counter)) <= MaxKeys THEN counter
  ELSE IF Emptied THEN [k \in Keys |-> NoEntry] ELSE Live

CheckRateLimit(k) ==
  LET entry == IF WindowIsOver(Swept[k]) THEN [start |-> clock, count |-> 1]
               ELSE [Swept[k] EXCEPT !.count = @ + 1] IN
  /\ limiter = "PROCESS"
  /\ counter' = [Swept EXCEPT ![k] = entry]
  /\ forgotten' = IF Emptied THEN OneMore(forgotten) ELSE forgotten
  /\ Reply(k, entry.count <= Limit)
  /\ UNCHANGED document

CheckSharedRateLimit(k) ==
  LET w == clock \div Window IN
  /\ limiter = "SHARED"
  /\ document' = [document EXCEPT ![k][w] = @ + 1]
  /\ Reply(k, document[k][w] + 1 <= Limit)
  /\ UNCHANGED <<counter, forgotten>>

\* Here a refused attempt is not counted.
ConsumeAuthRateLimit(k) ==
  LET over == WindowIsOver(counter[k]) IN
  /\ limiter = "AUTH"
  /\ counter' = IF over THEN [counter EXCEPT ![k] = [start |-> clock, count |-> 1]]
                ELSE IF counter[k].count >= Limit THEN counter
                ELSE [counter EXCEPT ![k].count = @ + 1]
  /\ Reply(k, over \/ counter[k].count < Limit)
  /\ UNCHANGED <<document, forgotten>>

Tick ==
  /\ clock < MaxTime
  /\ clock' = clock + 1 /\ calls' = 0
  /\ UNCHANGED <<limiter, counter, document, admitted, refused, forgotten>>

LimitsNext ==
  \/ \E k \in Keys : CheckRateLimit(k) \/ CheckSharedRateLimit(k) \/ ConsumeAuthRateLimit(k)
  \/ Tick

-----------------------------------------------------------------------------
(* Property *)

\* How many in the ticks from .. from + Window - 1, of those there are.
Moment(t) == IF t < 0 THEN 0 ELSE IF t > MaxTime THEN MaxTime + 1 ELSE t
During(total, from) == total[Moment(from + Window)] - total[Moment(from)]

\* Windows start when they start: across a boundary up to twice the limit passes in the
\* time of one window, once more for each time the process forgot everybody's count, and
\* never more.  Nobody is refused who did not use up the limit within the last window
\* (rate-limit-shared.ts:4 and :9, tests/rate-limit.test.ts:5).
LimitsAreKept ==
  \A k \in Keys, t \in Ticks :
    /\ During(admitted[k], t) <= Limit * (2 + During(forgotten, t))
    /\ limiter = "SHARED" /\ t % Window = 0 => During(admitted[k], t) <= Limit
    /\ t \in refused[k] => During(admitted[k], t - Window + 1) >= Limit

=============================================================================
