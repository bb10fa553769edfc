-------------------------- MODULE InterestBearing --------------------------
(***************************************************************************)
(* The interest rate of a mint over time.  A change of rate folds the past *)
(* into one average; what an account displays is its amount times the      *)
(* exponential of (average rate * time before the last change + current    *)
(* rate * time since).  The exponent's numerator, an integer, is all that  *)
(* matters here; the floating-point exponential is left out.               *)
(***************************************************************************)
EXTENDS Integers

CONSTANTS
  I16_MIN, I16_MAX,  \* the range of a rate
  Rates,             \* bound: the rates that are set
  MaxTime,           \* bound on the clock
  Authority, None

InterestAssumption ==
  /\ I16_MIN \in Int /\ I16_MAX \in Int /\ I16_MIN <= 0 /\ 0 <= I16_MAX
  /\ Rates \subseteq I16_MIN..I16_MAX
  /\ MaxTime \in Nat
  /\ Authority # None

VARIABLES
  minted,    \* whether the mint is initialized: no extension is added after that
  config,    \* InterestBearingConfig, and whether it is there
  now,       \* clock sysvar, unix_timestamp
  range      \* history: the smallest and the largest rate that was in force

vars == <<minted, config, now, range>>

RateBasisPoints == I16_MIN..I16_MAX
ConfigState == [present : BOOLEAN, rate_authority : {Authority, None},
                initialization_timestamp : 0..MaxTime, pre_update_average_rate : RateBasisPoints,
                last_update_timestamp : 0..MaxTime, current_rate : RateBasisPoints]

pre_update_timespan == config.last_update_timestamp - config.initialization_timestamp
post_update_timespan(t) == t - config.last_update_timestamp

\* The numerator of the exponent in pre_update_exp and post_update_exp together.
Exponent(t) ==
  config.pre_update_average_rate * pre_update_timespan
    + config.current_rate * post_update_timespan(t)

\* i128::checked_div truncates towards zero, \div rounds down.
TruncatedDiv(a, b) == IF a >= 0 THEN a \div b ELSE -((-a) \div b)

\* Mutant: the weights are exchanged.
average_rate_exchanged(t) ==
  LET total == pre_update_timespan + post_update_timespan(t)
  IN  IF total = 0 THEN config.current_rate
      ELSE TruncatedDiv(config.pre_update_average_rate * post_update_timespan(t)
                          + config.current_rate * pre_update_timespan, total)

\* Mutant: the sum of the two is divided by the time since the change.
average_rate_of_last_span(t) ==
  LET span == post_update_timespan(t)
  IN  IF span = 0 THEN config.current_rate ELSE TruncatedDiv(Exponent(t), span)

time_weighted_average_rate(t) ==
  LET total_timespan == pre_update_timespan + post_update_timespan(t)
  IN  IF total_timespan = 0 THEN config.current_rate
      ELSE TruncatedDiv(Exponent(t), total_timespan)

Least(a, b) == IF a < b THEN a ELSE b
Greatest(a, b) == IF a < b THEN b ELSE a

\* process_initialize: init_extension overwrites a configuration that is there.
Initialize(rate, authority) ==
  /\ ~minted
  /\ config' = [present |-> TRUE, rate_authority |-> authority,
                initialization_timestamp |-> now, pre_update_average_rate |-> rate,
                last_update_timestamp |-> now, current_rate |-> rate]
  /\ range' = [lo |-> rate, hi |-> rate]
  /\ UNCHANGED <<minted, now>>

InitializeMint ==
  /\ ~minted
  /\ minted' = TRUE
  /\ UNCHANGED <<config, now, range>>

\* The rate is changed and the past replaced by the given average.
FoldInto(average, rate) ==
  /\ minted /\ config.present /\ config.rate_authority # None
  /\ config' = [config EXCEPT !.pre_update_average_rate = average,
                              !.last_update_timestamp = now, !.current_rate = rate]
  /\ range' = [lo |-> Least(range.lo, rate), hi |-> Greatest(range.hi, rate)]
  /\ UNCHANGED <<minted, now>>

UpdateRate(rate) ==
  /\ time_weighted_average_rate(now) \in RateBasisPoints
  /\ FoldInto(time_weighted_average_rate(now), rate)

\* SetAuthority with AuthorityType::InterestRate.
RenounceAuthority ==
  /\ minted /\ config.present /\ config.rate_authority # None
  /\ config' = [config EXCEPT !.rate_authority = None]
  /\ UNCHANGED <<minted, now, range>>

Tick ==
  /\ now < MaxTime
  /\ now' = now + 1
  /\ UNCHANGED <<minted, config, range>>

Init ==
  /\ minted = FALSE
  /\ config = [present |-> FALSE, rate_authority |-> None, initialization_timestamp |-> 0,
               pre_update_average_rate |-> 0, last_update_timestamp |-> 0, current_rate |-> 0]
  /\ now = 0
  /\ range = [lo |-> 0, hi |-> 0]

Next ==
  \/ \E rate \in Rates, authority \in {Authority, None} : Initialize(rate, authority)
  \/ InitializeMint
  \/ \E rate \in Rates : UpdateRate(rate)
  \/ RenounceAuthority
  \/ Tick

Spec == Init /\ [][Next]_vars

-----------------------------------------------------------------------------

\* Every variable has its type.
TypeOK ==
  /\ minted \in BOOLEAN
  /\ config \in ConfigState
  /\ now \in 0..MaxTime
  /\ range \in [lo : RateBasisPoints, hi : RateBasisPoints]

Abs(x) == IF x < 0 THEN -x ELSE x

\* The average lies between the smallest and the largest rate there ever was, however
\* often and whenever the rate is changed: UpdateRate never overflows an i16 and the
\* mint never shows more than its best or less than its worst rate.
AverageBetweenRates ==
  TypeOK /\ (config.present => config.pre_update_average_rate \in range.lo..range.hi)

\* A step in which the exponent of a mint jumps by less than the time since initialization.
RateStep ==
  (minted /\ config.present) =>
     LET age == now - config.initialization_timestamp
     IN  now' = now => Abs(Exponent(now)' - Exponent(now)) < Greatest(age, 1)

\* Changing the rate does not change what has been earned, up to one basis point over
\* the lifetime of the mint: at the moment of UpdateRate the displayed exponent jumps
\* by less than the time since initialization (or not at all within the first second).
RateChangeIsContinuous == [][RateStep]_vars

=============================================================================
