------------------------------ MODULE MCServer -----------------------------
(* An instance of Server for TLC.                                          *)
EXTENDS Server

MCLower == [l \in Label |-> IF l = "EXAMPLE" THEN "example" ELSE l]

Service(for, urls) == [ok |-> TRUE, for |-> for, urls |-> urls]

Broken(for) == [ok |-> FALSE, for |-> for, urls |-> <<>>]

\* A zone below another's, in upper case, that moves to another server and is
\* listed twice; a range without servers that gets one; and a malformed service
\* and range.
MCEdition ==
  [dns  |-> <<<<Service({<<"nl">>}, <<"u1">>), Service({<<"EXAMPLE", "nl">>}, <<"u2">>)>>,
              <<Service({<<"example", "nl">>}, <<"u1">>), Service({<<"nl">>, <<"example", "nl">>}, <<"u3">>),
                Broken({<<"www", "example", "nl">>})>>>>,
   ipv4 |-> <<<<Service({{1}, {2}}, <<"u1">>), Service({{3}}, <<>>)>>,
              <<Service({{}, {3}}, <<"u2">>), Service({{2, 3}}, <<"u1">>)>>>>,
   ipv6 |-> <<<<Service({{4}}, <<"u1">>)>>>>]

MCObjects == {[file |-> "dns", name |-> <<"www", "example", "nl">>], [file |-> "dns", name |-> <<"com">>],
              [file |-> "ipv4", name |-> 3], [file |-> "ipv6", name |-> 4]}
============================================================================
