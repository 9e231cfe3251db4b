--------------------------- MODULE MCPersonalHistory ---------------------------
(* Model checking of PersonalHistory: the owner, who has two phones, and one   *)
(* other person with one.                                                      *)
EXTENDS PersonalHistory

CONSTANTS tom, maria

MCPeople == <<tom, maria>>
MCPhones == [p \in {tom, maria} |-> IF p = tom THEN 2 ELSE 1]

\* Each flag, always with repeats so that it meets both kinds of push.
MCPolicies == {{}, {"repeats"}, {"repeats", "always"}, {"objects"}}

================================================================================
