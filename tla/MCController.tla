---------------------------- MODULE MCController ----------------------------
EXTENDS Controller

MCBoard ==
  LET full == [p \in {17, 22, 27} |-> CASE p = 17 -> "DHT11" [] p = 22 -> "Lidar_X2"
                                        [] p = 27 -> "Relay_Fan"]
  IN  {[wired |-> full, forbidden |-> {0, 1}], [wired |-> full, forbidden |-> {27}],
       [wired |-> [p \in {17, 27} |-> full[p]], forbidden |-> {0, 1}]}

MCReading ==
  {[temperature_c |-> t, distance_cm |-> 0] : t \in {2, 10, 15}} \cup {[distance_cm |-> 8]}

\* Every unit near zero, then every third, then few: 23, 26 and 29 absorb
\* EPSILON, and from 32 on a number absorbs ONE.
MCFloat == (0 .. 20) \cup {23, 26, 29, 32, 48, 64}

Term(metric, op, x) == [metric |-> metric, operator |-> op, value |-> x]
One(c) == [all |-> TRUE, terms |-> {c}]

\* A short lease leaves little to step through.
Short == [Sound(12) EXCEPT !.lease = 20]

\* Any set of capabilities, declared in any way.
Requests ==
  {[Short EXCEPT !.requested = r, !.inputs = i, !.outputs = o, !.fallback = f,
                 !.activation = One(Term(IF i = Metric THEN "distance_cm" ELSE "temperature_c",
                                         ">=", 12))] :
     r \in (SUBSET Capability) \ {{}}, i \in {{"temperature_c"}, Metric}, o \in {{}, {"fan"}},
     f \in DOMAIN FallbackNeeds}

\* Any pair of comparisons, alone or in groups, at thresholds near and far.
Contracts ==
  {[Short EXCEPT !.activation = One(Term("temperature_c", p, x)),
                     !.recovery = One(Term("temperature_c", q, y))] :
     p \in Operator, q \in Operator, x \in {8, 12, 26, 29, 48}, y \in {8, 12, 26, 29, 48}}
  \cup
  {[Short EXCEPT !.activation = [all |-> a, terms |-> {Term("temperature_c", ">=", 12),
                                                           Term("temperature_c", p, 8)}],
                     !.recovery = [all |-> b, terms |-> {Term("temperature_c", "<", 4),
                                                         Term("temperature_c", q, 8)}]] :
     a \in BOOLEAN, b \in BOOLEAN, p \in Operator, q \in Operator}

\* Any limits.
Limits ==
  {[Sound(12) EXCEPT !.lease = l, !.period = p, !.rate = r, !.cpu = c, !.ours = o,
                     !.registry = g] :
     l \in {70, 80}, p \in {5, 10, 20, 40}, r \in {12, 13}, c \in {12, 13, 14},
     o \in BOOLEAN, g \in BOOLEAN}

MCProposal == Requests \cup Contracts \cup Limits
=============================================================================
