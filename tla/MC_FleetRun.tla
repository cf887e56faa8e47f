---------------------------- MODULE MC_FleetRun ----------------------------
(* Small fleets for FleetRun: central files, an explicit list and discovery
   with a filtered and a rejected name, overlapping where the code allows.  *)
EXTENDS FleetRun

MCSlugs == {"self", "a", "b", "c"}

Fleets ==
  {[central |-> <<"a", "self">>, discover |-> FALSE, remote |-> <<"b", "a">>,
    filtered |-> {}, rejected |-> {}],
   [central |-> <<"a">>, discover |-> TRUE, remote |-> <<"a", "b", "self">>,
    filtered |-> {"c"}, rejected |-> {}],
   [central |-> <<>>, discover |-> TRUE, remote |-> <<"a", "b">>,
    filtered |-> {"c", "self"}, rejected |-> {"b"}],
   [central |-> <<>>, discover |-> TRUE, remote |-> <<>>,
    filtered |-> {"c"}, rejected |-> {}]}

Reporting ==
  {[policy |-> "show", channel |-> "none", check |-> FALSE],
   [policy |-> "redact", channel |-> "none", check |-> TRUE],
   [policy |-> "redact", channel |-> "issue", check |-> FALSE],
   [policy |-> "redact", channel |-> "issue-on-failure", check |-> TRUE],
   [policy |-> "redact", channel |-> "artifact", check |-> FALSE]}

Config(f, r, d) ==
  [policy |-> r.policy, channel |-> r.channel, check |-> r.check, defaults |-> d,
   central |-> f.central, warned |-> f.central # <<>>, discover |-> f.discover,
   remote |-> f.remote, filtered |-> f.filtered, rejected |-> f.rejected]

MCConfigs ==
  {Config(f, r, "none") : f \in Fleets, r \in Reporting}
    \cup {Config(CHOOSE f \in Fleets : f.discover /\ f.central # <<>>,
                 CHOOSE r \in Reporting : r.channel = "artifact", d)
          : d \in {"valid", "invalid"}}
=============================================================================
