----------------------------- MODULE MCFrontier -----------------------------
EXTENDS Frontier

CONSTANTS c1, c2, c3

\* Turns of one session; two of them have chosen the same invocation id.
MCCalls == {c1, c2, c3}
MCKinds == [c \in MCCalls |-> CASE c = c1 -> {"required"}
                                [] c = c2 -> {"executor"} [] c = c3 -> {"expert"}]
MCSession == [c \in MCCalls |-> "one"]
MCCorrelation == [c \in MCCalls |-> IF c = c2 THEN "second" ELSE "first"]
MCSessions == {"one", "other"}
MCThreadIds == 1..8
MCProfiles == <<"primary", "secondary">>

\* On the first profile a thread of this session, due for compaction, or of another one.
MCSaved == {[p \in {"primary", "secondary"} |->
               IF p = "primary" THEN <<[session |-> s, id |-> 1, turns |-> 2]>> ELSE <<>>]
            : s \in {"one", "other"}}
=============================================================================
