-------------------------------- MODULE Relay --------------------------------
(***************************************************************************)
(* Causal contexts on their way through a site.  A command carries a       *)
(* CausalContext; every receiver runs EnterCausal on it before it acts,    *)
(* and passes the context it got back on to other receivers.  Acting       *)
(* changes what a receiver observes and what is projected of it, and those *)
(* reports travel to the other receivers with contexts of their own.       *)
(* Receivers, links and issuers are external; the links may lose what they *)
(* carry and deliver in any order, and clocks are off by their uncertainty.*)
(***************************************************************************)
EXTENDS Errors, Sequences, SequencesExt

CONSTANTS Target,       \* receivers
          HopLimit,     \* 16 in CausalContext.Validate
          Lifetime,     \* 300 s in causalTimeErrors
          Budgets,      \* max_hops that issuers write
          Lives,        \* expires_at - first_seen_at that issuers write
          Uncertainty,  \* of every clock
          MaxTime, MaxIssues,
          UTCClock, OtherClock

\* What issuers write, and how far clocks are off.
ASSUME RelayAssumption ==
    /\ Lives \subseteq Int /\ Budgets \subseteq Int
    /\ Uncertainty \in Nat
    /\ Lifetime \in Nat \ {0}
    /\ MaxTime \in Nat

VARIABLES
    now,      \* true time
    issues,   \* commands issued
    flight,   \* what the links carry: [ctx, to, trail, issued]
    last      \* the latest entry: [trail, by, issued, at], or none

traffic == <<now, issues, flight, last>>

Kinds == {"operator", "native_observation", "projection"}

-----------------------------------------------------------------------------
(* CausalContext.Validate *)

CausalTimeErrors(c) ==
    LET delta == c.expires.ns - c.first.ns
    IN  Flag({c.first.clock, c.expires.clock} # {UTCClock}, "invalid_time")
        \cup Flag(delta < 0, "invalid_time")
        \cup Flag(delta > Lifetime, "causal_budget_exceeded")

HopErrors(c) ==
    Flag(\/ c.max < 1 \/ c.max > HopLimit
         \/ c.hops > c.max \/ c.hops # Len(c.path)
         \/ ~IsInjective(c.path), "causal_budget_exceeded")

Validate(c) == CausalTimeErrors(c) \cup HopErrors(c)

-----------------------------------------------------------------------------
(* EnterCausal *)

\* Mutant: only what was observed is taken for a reflection.
ReflectedByNature(c) == c.kind = "native_observation"

\* causalAdmissionError: a report of an effect commands nothing.
Reflected(c) == c.kind \in {"native_observation", "projection"}

\* Mutant: the reading is taken for the time.
ExpiryByReading(c, wall) ==
    IF {wall.clock, c.expires.clock} # {UTCClock} THEN {"invalid_time"}
    ELSE Flag(wall.ns >= c.expires.ns, "causal_budget_exceeded")

\* deadlineError of expires_at: certainly before it.
ExpiryErrors(c, wall) ==
    IF {wall.clock, c.expires.clock} # {UTCClock} THEN {"invalid_time"}
    ELSE Flag(wall.ns + wall.unc >= c.expires.ns - c.expires.unc, "causal_budget_exceeded")

\* Mutant: a receiver looks only at who sent it the context.
EchoFromSender(c, r) == c.path # <<>> /\ Last(c.path) = r

Echo(c, r) == r \in ToSet(c.path)

\* What EnterCausal refuses the context with; the first check that fails decides.
EnterErrors(c, r, wall) ==
    IF Validate(c) # {} THEN Validate(c)
    ELSE IF Reflected(c) THEN {"echo_suppressed"}
    ELSE IF ExpiryErrors(c, wall) # {} THEN ExpiryErrors(c, wall)
    ELSE IF Echo(c, r) THEN {"echo_suppressed"}
    ELSE Flag(c.hops >= c.max, "causal_budget_exceeded")

Extended(c, r) == [c EXCEPT !.path = Append(@, r), !.hops = @ + 1]

-----------------------------------------------------------------------------
(* The site. *)

\* Readings of a clock that is off by at most its uncertainty, or is not UTC.
Readings(t) ==
    {[clock |-> k, ns |-> n, unc |-> Uncertainty] :
        k \in {UTCClock, OtherClock}, n \in (t - Uncertainty)..(t + Uncertainty)}

Message(c, to, trail, at) == [ctx |-> c, to |-> to, trail |-> trail, issued |-> at]

Context(kind, first, life, max) ==
    [kind |-> kind, path |-> <<>>, hops |-> 0, max |-> max,
     first |-> first, expires |-> [first EXCEPT !.ns = @ + life]]

Issue(r) ==
    /\ issues < MaxIssues
    /\ \E first \in Readings(now), life \in Lives, max \in Budgets :
          flight' = flight \cup {Message(Context("operator", first, life, max), r, <<>>, now)}
    /\ issues' = issues + 1
    /\ UNCHANGED <<now, last>>

\* A receiver that acted passes the context it was given back on to any of the
\* others, and its new state is reported to one of them on a path of its own.
Relayed(m, to) ==
    {Message(Extended(m.ctx, m.to), r, Append(m.trail, m.to), m.issued) : r \in to}

Reported(m, kind, to) ==
    {Message([m.ctx EXCEPT !.kind = kind, !.path = <<>>, !.hops = 0], r, <<>>, m.issued) :
        r \in to}

Enter(m) ==
    LET others == Target \ {m.to}
    IN  /\ \E wall \in Readings(now) : EnterErrors(m.ctx, m.to, wall) = {}
        /\ \E relay \in SUBSET others, report \in others, kind \in Kinds \ {"operator"} :
              flight' = (flight \ {m}) \cup Relayed(m, relay) \cup Reported(m, kind, {report})
        /\ last' = [trail |-> m.trail, by |-> m.to, issued |-> m.issued, at |-> now]
        /\ UNCHANGED <<now, issues>>

Refuse(m) ==
    /\ \E wall \in Readings(now) : EnterErrors(m.ctx, m.to, wall) # {}
    /\ flight' = flight \ {m}
    /\ UNCHANGED <<now, issues, last>>

Lose(m) ==
    /\ flight' = flight \ {m}
    /\ UNCHANGED <<now, issues, last>>

Tick ==
    /\ now < MaxTime
    /\ now' = now + 1
    /\ UNCHANGED <<issues, flight, last>>

RelayInit ==
    /\ now = 0 /\ issues = 0 /\ flight = {}
    /\ last = [trail |-> <<>>, by |-> CHOOSE r \in Target : TRUE, issued |-> 0, at |-> 0]

Arrive == \E m \in flight : Enter(m) \/ Refuse(m)

RelayNext ==
    \/ Tick
    \/ \E r \in Target : Issue(r)
    \/ \E m \in flight : Enter(m) \/ Refuse(m) \/ Lose(m)

\* Links keep delivering; nothing is assumed of clocks, and so no context has
\* to expire.
RelaySpec == RelayInit /\ [][RelayNext]_traffic /\ WF_traffic(Arrive)

-----------------------------------------------------------------------------
(* Properties. *)

\* A command comes to rest: however receivers relay it and report its effects
\* to one another, there is a time after which nothing travels any more, even
\* if no clock ever passes the expiry (hop budget, path and origin checks of
\* EnterCausal).
CommandsComeToRest == <>[](flight = {})

\* No receiver acts twice on one command along one way through the site, whoever
\* sent it on (Echo in EnterCausal).  A copy that came another way is another
\* matter: EnterCausal lets it in.
NobodyActsTwice == last.by \notin ToSet(last.trail)

\* No receiver acts on a command later than the longest lifetime after it was
\* really issued: the expiry is read with the error of both clocks against the
\* receiver (causalTimeErrors together with deadlineError).
NobodyActsLate == last.at < last.issued + Lifetime

\* However commands are lost, repeated and relayed, a receiver acts on what comes
\* along one way once, and only while it lasts (EnterCausal).
NobodyActsTwiceOrLate == NobodyActsTwice /\ NobodyActsLate
=============================================================================
